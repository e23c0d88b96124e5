------------------------------ MODULE HashPool ------------------------------
(***************************************************************************)
(* The hash pool of lib/hash-pool.c: one owner thread that creates the     *)
(* pool, submits blocks and destroys the pool, and the worker threads that *)
(* hash the blocks.                                                        *)
(*                                                                         *)
(* Everything the code does between mutex_lock(&p->mutex) and the matching *)
(* unlock (or cond_wait) is one action.  The condition variable is the set *)
(* of workers whose program counter is "asleep".  The ring buffer of the   *)
(* queue is a sequence; its order and its bound are what matters here.     *)
(***************************************************************************)
EXTENDS Integers, Sequences, FiniteSets

CONSTANTS
    Workers,    \* the worker threads, config->workers of them
    Subs,       \* submissions, each one submitted at most once
    QueueSize,  \* p->queue_size, config->max_submissions
    STOP,       \* the submission that tells a worker to exit
    None,       \* no submission
    Faults      \* the calls that may fail

FaultKinds == {"pthread_create", "digest_create", "digest"}

ASSUME WorkersAssumption == IsFiniteSet(Workers) /\ Workers # {}

ASSUME SubsAssumption == STOP \notin Subs /\ None \notin Subs \cup {STOP}

\* config_init() makes room for at least 4 submissions per worker.
ASSUME QueueSizeAssumption ==
    QueueSize \in Nat /\ Cardinality(Workers) <= QueueSize

ASSUME FaultsAssumption == Faults \subseteq FaultKinds

EPERM == 1
EIO == 5
ENOMEM == 12
ENOBUFS == 105

VARIABLES
    life,       \* the owner: creating, ready, joining, destroyed
    threads,    \* created workers; p->workers_count is its cardinality
    pc,         \* program counter of every worker
    held,       \* the submission a worker is processing
    queue,      \* p->queue
    idle,       \* p->workers_idle
    stopped,    \* p->stopped
    error,      \* p->error
    submitted,  \* submissions passed to hash_pool_submit()
    completed,  \* sub->completed
    suberr      \* sub->error

vars == <<life, threads, pc, held, queue, idle, stopped, error,
          submitted, completed, suberr>>

ownerVars == <<life, threads, stopped, submitted>>
subVars == <<completed, suberr>>

Asleep == {w \in Workers : pc[w] = "asleep"}

Idle == {w \in Workers : pc[w] \in {"asleep", "awake"}}

WorkersCount == Cardinality(threads)

Init ==
    /\ life = "creating"
    /\ threads = {}
    /\ pc = [w \in Workers |-> "none"]
    /\ held = [w \in Workers |-> None]
    /\ queue = <<>>
    /\ idle = 0
    /\ stopped = FALSE
    /\ error = 0
    /\ submitted = {}
    /\ completed = [s \in Subs |-> FALSE]
    /\ suberr = [s \in Subs |-> 0]

-----------------------------------------------------------------------------
(* The owner *)

\* One iteration of the loop of hash_pool_init().
CreateThread(w) ==
    /\ life = "creating"
    /\ w \notin threads
    /\ threads' = threads \cup {w}
    /\ pc' = [pc EXCEPT ![w] = "start"]
    /\ life' = IF threads' = Workers THEN "ready" ELSE "creating"
    /\ UNCHANGED <<held, queue, idle, stopped, error, submitted, subVars>>

\* stop_workers() fails the submissions in the queue,
Cleared(s) == \E i \in DOMAIN queue : queue[i] = s

StopError_All(s) == IF s \in submitted THEN EIO ELSE suberr[s] \* wrong: all fail

StopError(s) == IF Cleared(s) THEN EIO ELSE suberr[s]

\* and pushes a STOP for every worker.
StopCount_OneFewer == WorkersCount - 1 \* wrong: off by one

StopCount == WorkersCount

\* stop_workers() until it starts to join: the queued submissions fail, one
\* STOP is queued for every created worker, and all the sleepers wake up.
StopWorkers ==
    /\ stopped' = TRUE
    /\ suberr' = [s \in Subs |-> StopError(s)]
    /\ completed' = [s \in Subs |-> completed[s] \/ Cleared(s)]
    /\ queue' = [i \in 1..StopCount |-> STOP]
    /\ pc' = [w \in Workers |-> IF pc[w] = "asleep" THEN "awake" ELSE pc[w]]
    /\ life' = "joining"
    /\ UNCHANGED <<threads, held, idle, error, submitted>>

\* pthread_create() fails in hash_pool_init(): the workers created so far
\* are stopped.
CreateThreadFails ==
    /\ "pthread_create" \in Faults
    /\ life = "creating"
    /\ StopWorkers

\* hash_pool_destroy(), also of a pool that never got a worker, since the
\* configuration or hash_pool_init() failed before the first pthread_create():
\* there is nothing in the queue and nobody to stop or to join.
Destroy ==
    /\ life = "ready" \/ (life = "creating" /\ threads = {})
    /\ StopWorkers

\* The joins of stop_workers() and the release of the pool after them.
Join ==
    /\ life = "joining"
    /\ \A w \in threads : pc[w] = "done"
    /\ life' = "destroyed"
    /\ UNCHANGED <<threads, pc, held, queue, idle, stopped, error,
                   submitted, subVars>>

\* A worker counts as active until it sleeps in cond_wait(), also before it
\* created its digest and after it failed to.
active_workers == WorkersCount - idle

\* Wrong: the queue is compared before the submission is pushed.
need_wakeup_BeforePush(queue_len) == idle > 0 /\ queue_len - 1 > active_workers

need_wakeup(queue_len) == idle > 0 /\ queue_len > active_workers

\* cond_signal() wakes up one sleeping worker, if there is one.
CondSignal ==
    IF Asleep = {}
    THEN UNCHANGED pc
    ELSE \E w \in Asleep : pc' = [pc EXCEPT ![w] = "awake"]

\* Wrong: no check for a full queue.
SubmitError_NoBound == IF stopped THEN EPERM ELSE error

SubmitError ==
    IF stopped THEN EPERM
    ELSE IF error # 0 THEN error
    ELSE IF Len(queue) = QueueSize THEN ENOBUFS
    ELSE 0

SubmitAccepted(s) ==
    /\ SubmitError = 0
    /\ queue' = Append(queue, s)
    /\ IF need_wakeup(Len(queue) + 1) THEN CondSignal ELSE UNCHANGED pc
    /\ UNCHANGED subVars

SubmitRejected(s) ==
    /\ SubmitError # 0
    /\ suberr' = [suberr EXCEPT ![s] = SubmitError]
    /\ completed' = [completed EXCEPT ![s] = TRUE]
    /\ UNCHANGED <<queue, pc>>

\* hash_pool_submit()
Submit(s) ==
    /\ life = "ready"
    /\ s \notin submitted
    /\ submitted' = submitted \cup {s}
    /\ SubmitAccepted(s) \/ SubmitRejected(s)
    /\ UNCHANGED <<life, threads, stopped, held, idle, error>>

-----------------------------------------------------------------------------
(* A worker *)

\* digest_create() at the start of worker_thread()
StartOk(w) ==
    /\ pc[w] = "start"
    /\ pc' = [pc EXCEPT ![w] = "fetch"]
    /\ UNCHANGED <<ownerVars, held, queue, idle, error, subVars>>

StartFails(w) ==
    /\ "digest_create" \in Faults
    /\ pc[w] = "start"
    /\ pc' = [pc EXCEPT ![w] = "failed"]
    /\ UNCHANGED <<ownerVars, held, queue, idle, error, subVars>>

AfterStartFailed_Retry == "start" \* wrong: tries again, whatever happened

AfterStartFailed == "done"

\* set_error(p, err) with the negative value of digest_create(); the worker
\* exits.
SetError(w) ==
    /\ pc[w] = "failed"
    /\ pc' = [pc EXCEPT ![w] = AfterStartFailed]
    /\ error' = IF error = 0 THEN -ENOMEM ELSE error
    /\ UNCHANGED <<ownerVars, held, queue, idle, subVars>>

\* p->workers_idle when a worker is about to wait, and when it got work; it was
\* counted before if it is inside the loop around cond_wait().
IdleWaiting_Twice(w) == idle + 1 \* wrong: counts a worker that sleeps again

IdleWaiting(w) == IF pc[w] = "awake" THEN idle ELSE idle + 1

IdleWorking_Always(w) == idle - 1 \* wrong: also for one that did not sleep

IdleWorking(w) == IF pc[w] = "awake" THEN idle - 1 ELSE idle

\* pop_unlocked()
Popped_Same == queue \* wrong: the head does not move

Popped == Tail(queue)

\* wait_for_work() finds the queue empty, entering or after a wakeup.
Sleep(w) ==
    /\ pc[w] \in {"fetch", "awake"}
    /\ queue = <<>>
    /\ pc' = [pc EXCEPT ![w] = "asleep"]
    /\ idle' = IdleWaiting(w)
    /\ UNCHANGED <<ownerVars, held, queue, error, subVars>>

\* wait_for_work() pops the first submission; STOP ends the thread.
TakeWork(w) ==
    /\ pc[w] \in {"fetch", "awake"}
    /\ queue # <<>>
    /\ queue' = Popped
    /\ idle' = IdleWorking(w)
    /\ IF Head(queue) = STOP
       THEN /\ pc' = [pc EXCEPT ![w] = "done"]
            /\ UNCHANGED held
       ELSE /\ pc' = [pc EXCEPT ![w] = "work"]
            /\ held' = [held EXCEPT ![w] = Head(queue)]
    /\ UNCHANGED <<ownerVars, error, subVars>>

\* The zero detection and compute_block_digest(), which may fail.
Compute(w) ==
    /\ pc[w] = "work"
    /\ pc' = [pc EXCEPT ![w] = "hashed"]
    /\ \/ UNCHANGED suberr
       \/ /\ "digest" \in Faults
          /\ suberr' = [suberr EXCEPT ![held[w]] = ENOMEM]
    /\ UNCHANGED <<ownerVars, held, queue, idle, error, completed>>

\* Wrong: a worker ends when a block fails.
AfterBlock_End(w) == IF suberr[held[w]] # 0 THEN "done" ELSE "fetch"

AfterBlock(w) == "fetch"

\* submission_complete(): the last access of a worker to the submission.
Complete(w) ==
    /\ pc[w] = "hashed"
    /\ completed' = [completed EXCEPT ![held[w]] = TRUE]
    /\ held' = [held EXCEPT ![w] = None]
    /\ pc' = [pc EXCEPT ![w] = AfterBlock(w)]
    /\ UNCHANGED <<ownerVars, queue, idle, error, suberr>>

\* POSIX allows pthread_cond_wait() to return without a signal.
SpuriousWakeup(w) ==
    /\ pc[w] = "asleep"
    /\ pc' = [pc EXCEPT ![w] = "awake"]
    /\ UNCHANGED <<ownerVars, held, queue, idle, error, subVars>>

\* worker_thread(): the steps a scheduled worker takes.
Worker(w) ==
    \/ StartOk(w)
    \/ StartFails(w)
    \/ SetError(w)
    \/ Sleep(w)
    \/ TakeWork(w)
    \/ Compute(w)
    \/ Complete(w)

-----------------------------------------------------------------------------

\* The owner destroyed the pool; nothing is left to do.
Terminated == life = "destroyed" /\ UNCHANGED vars

Next ==
    \/ \E w \in Workers : CreateThread(w)
    \/ CreateThreadFails
    \/ \E s \in Subs : Submit(s)
    \/ Destroy
    \/ Join
    \/ \E w \in Workers : Worker(w)
    \/ \E w \in Workers : SpuriousWakeup(w)
    \/ Terminated

Spec == Init /\ [][Next]_vars

\* The kernel runs every thread that is not blocked, and the owner inside
\* pthread_join() returns once the thread ended.  The owner need not submit
\* or destroy anything, and nobody counts on a spurious wakeup.
Fairness == WF_vars(Join) /\ \A w \in Workers : WF_vars(Worker(w))

FairSpec == Spec /\ Fairness

-----------------------------------------------------------------------------
(* Properties *)

PCs == {"none", "start", "failed", "fetch", "asleep", "awake", "work",
        "hashed", "done"}

Errors == {0, EPERM, EIO, ENOMEM, ENOBUFS, -ENOMEM}

\* The state of the pool, its workers and the submissions has its type.
TypeOK ==
    /\ life \in {"creating", "ready", "joining", "destroyed"}
    /\ threads \subseteq Workers
    /\ pc \in [Workers -> PCs]
    /\ held \in [Workers -> Subs \cup {None}]
    /\ queue \in Seq(Subs \cup {STOP})
    /\ idle \in Nat
    /\ stopped \in BOOLEAN
    /\ error \in {0, -ENOMEM}
    /\ submitted \subseteq Subs
    /\ completed \in [Subs -> BOOLEAN]
    /\ suberr \in [Subs -> Errors]

\* p->workers_idle counts exactly the workers inside the loop around
\* cond_wait(), so active_workers() never wraps around below zero.
IdleCounted == idle = Cardinality(Idle) /\ Idle \subseteq threads

\* No lost wakeup: need_wakeup() skips the signal only when the workers that
\* are not asleep are enough for the whole queue, so that while one sleeps
\* there is at most one queued submission per worker that does not.
EnoughAwake ==
    Asleep # {} => Len(queue) <= Cardinality(threads \ Asleep)

\* The workers that end only when they pop a STOP.
WillFetch == {w \in threads : pc[w] \notin {"failed", "done"}}

\* stop_workers(): from the moment the pool is stopped the queue holds only
\* STOPs, at least one for every worker that waits for one to end, and none
\* sleeps.
StopForEveryone ==
    stopped =>
        /\ \A i \in DOMAIN queue : queue[i] = STOP
        /\ Cardinality(WillFetch) <= Len(queue)
        /\ Asleep = {}

\* push_unlocked() does not check for room; the queue still never holds more
\* than queue_size entries, neither submissions nor STOPs.
QueueBounded == Len(queue) <= QueueSize

QueuedAt(s) == {i \in DOMAIN queue : queue[i] = s}

HeldBy(s) == {w \in Workers : held[w] = s}

\* A submission that was submitted and is not completed is in exactly one
\* place: once in the queue or with one worker.  No other submission is
\* reachable from the pool, so the owner may destroy a completed one.
OnePlace ==
    \A s \in Subs :
        Cardinality(QueuedAt(s)) + Cardinality(HeldBy(s))
            = IF s \in submitted /\ ~completed[s] THEN 1 ELSE 0

\* sub->completed is the last store to a submission: once the owner can see
\* it, no worker and no stop_workers() changes the result.
FrozenAfterCompleted ==
    [][\A s \in Subs : completed[s] =>
          completed'[s] /\ suberr'[s] = suberr[s]]_vars

\* Every submission is eventually completed, hashed or failed, so the spin of
\* submission_wait() ends, unless a worker could not start.
Handled == \A s \in Subs : s \in submitted ~> completed[s] \/ error # 0

\* The joins of stop_workers() end.
StopTerminates == life = "joining" ~> life = "destroyed"
=============================================================================
