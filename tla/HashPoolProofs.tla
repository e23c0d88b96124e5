--------------------------- MODULE HashPoolProofs ---------------------------
(***************************************************************************)
(* Proofs about HashPool, for any number of workers and submissions and    *)
(* any queue size with room for one STOP per worker.                       *)
(*                                                                         *)
(* EnoughAwake, the absence of lost wakeups, is not inductive by itself:   *)
(* hash_pool_submit() decides by the counter p->workers_idle, so the proof *)
(* carries IdleCounted, which ties the counter to the workers that are in  *)
(* wait_for_work(), and PcOfThreads, which ties those to the threads.      *)
(*                                                                         *)
(* OnePlace counts the places of a submission.  Its inductive form,        *)
(* Placed, says without counting that no two places hold the same          *)
(* submission and which submissions have a place.                          *)
(***************************************************************************)
EXTENDS HashPool, FiniteSetTheorems, TLAPS

\* A worker has a program counter other than "none" once it was created.
PcOfThreads == \A w \in Workers : pc[w] = "none" <=> w \notin threads

\* The owner stops the pool before it joins the workers, never earlier.
StoppedLate == stopped => life \in {"joining", "destroyed"}

\* A worker holds a submission from wait_for_work() to submission_complete().
HeldWhileWorking ==
    \A w \in Workers : held[w] # None <=> pc[w] \in {"work", "hashed"}

\* No submission is queued twice, held twice, or queued and held.
PlacesDiffer ==
    /\ \A i, j \in DOMAIN queue :
          queue[i] = queue[j] /\ queue[i] # STOP => i = j
    /\ \A v, w \in Workers : held[v] = held[w] /\ held[v] # None => v = w
    /\ \A i \in DOMAIN queue, w \in Workers : queue[i] # held[w]

HasPlace(s) == Cleared(s) \/ \E w \in Workers : held[w] = s

\* The submissions with a place are the submitted ones without a result.
Placed ==
    \A s \in Subs : HasPlace(s) <=> s \in submitted /\ ~completed[s]

\* Only a submission that was submitted has a result.
CompletedSubmitted == \A s \in Subs : completed[s] => s \in submitted

\* The inductive invariant behind the theorems of this module.
IInv ==
    /\ TypeOK
    /\ PcOfThreads
    /\ IdleCounted
    /\ EnoughAwake
    /\ QueueBounded
    /\ StoppedLate
    /\ StopForEveryone
    /\ HeldWhileWorking
    /\ PlacesDiffer
    /\ Placed
    /\ CompletedSubmitted

\* The steps of the pool, and stop_workers() whenever its owner calls it: a pool
\* whose hash_pool_init() failed is stopped once more by hash_pool_destroy().
\* The lemmas hold of these steps.
AnyNext == Next \/ StopWorkers

-----------------------------------------------------------------------------
(* Finite sets of workers *)

\* The sets of workers the invariant counts are finite.
LEMMA WorkerSetsFinite ==
    ASSUME NEW S, S \subseteq Workers
    PROVE  IsFiniteSet(S) /\ Cardinality(S) \in Nat
           /\ Cardinality(S) <= Cardinality(Workers)
<1>1. IsFiniteSet(Workers) BY WorkersAssumption
<1>. QED BY <1>1, FS_Subset, FS_CardinalityType

\* Every asleep worker is idle.
LEMMA AsleepIdle == Asleep \subseteq Idle /\ Idle \subseteq Workers
BY DEF Asleep, Idle

\* The number of threads that do not sleep.
LEMMA AwakeCount ==
    ASSUME threads \subseteq Workers, Asleep \subseteq threads
    PROVE  Cardinality(threads \ Asleep) = Cardinality(threads) - Cardinality(Asleep)
<1>1. IsFiniteSet(threads) BY WorkerSetsFinite
<1>2. threads \cap Asleep = Asleep OBVIOUS
<1>. QED BY <1>1, <1>2, FS_Difference

-----------------------------------------------------------------------------
(* Types *)

\* The initial state is well typed.
LEMMA InitType == Init => TypeOK
<1>. SUFFICES ASSUME Init PROVE TypeOK
  OBVIOUS
<1>1. queue \in Seq(Subs \cup {STOP})
  BY DEF Init
<1>2. completed \in [Subs -> BOOLEAN]
  BY Zenon DEF Init
<1>3. suberr \in [Subs -> Errors] /\ error \in {0, -ENOMEM}
  BY DEF Init, Errors
<1>. QED
  BY Zenon, <1>1, <1>2, <1>3 DEF Init, TypeOK, PCs

\* Every step keeps the types: the type invariant needs the others only for the
\* counter idle, which is decremented when a worker got work.
LEMMA NextType == IInv /\ [AnyNext]_vars => TypeOK'
<1>. SUFFICES ASSUME IInv, [AnyNext]_vars PROVE TypeOK'
  OBVIOUS
<1>. USE DEF IInv, TypeOK, PCs, Errors, EPERM, EIO, ENOMEM, ENOBUFS
<1>1. ASSUME NEW w \in Workers, CreateThread(w) PROVE TypeOK'
  BY <1>1 DEF CreateThread, subVars
<1>2. ASSUME StopWorkers PROVE TypeOK'
  <2>1. Cardinality(threads) \in Nat BY WorkerSetsFinite
  <2>2. queue' \in Seq(Subs \cup {STOP})
    BY <1>2, <2>1 DEF StopWorkers, StopCount, WorkersCount
  <2>3. suberr' \in [Subs -> Errors]
    BY <1>2 DEF StopWorkers, StopError
  <2>4. completed' \in [Subs -> BOOLEAN]
    BY <1>2 DEF StopWorkers, Cleared
  <2>. QED BY <1>2, <2>2, <2>3, <2>4 DEF StopWorkers
<1>3. ASSUME Join PROVE TypeOK'
  BY <1>3 DEF Join, subVars
<1>4. ASSUME NEW s \in Subs, Submit(s) PROVE TypeOK'
  <2>1. pc' \in [Workers -> PCs]
    BY <1>4 DEF Submit, SubmitAccepted, SubmitRejected, CondSignal, Asleep
  <2>2. queue' \in Seq(Subs \cup {STOP})
    <3>1. queue' = queue \/ queue' = Append(queue, s)
      BY <1>4 DEF Submit, SubmitAccepted, SubmitRejected
    <3>2. s \in Subs \cup {STOP} /\ queue \in Seq(Subs \cup {STOP})
      OBVIOUS
    <3>3. Append(queue, s) \in Seq(Subs \cup {STOP})
      BY <3>2
    <3>. QED BY Zenon, <3>1, <3>2, <3>3
  <2>3. /\ suberr' \in [Subs -> Errors]
        /\ completed' \in [Subs -> BOOLEAN]
    BY Zenon, <1>4 DEF Submit, SubmitAccepted, SubmitRejected, SubmitError, subVars
  <2>. QED BY <1>4, <2>1, <2>2, <2>3 DEF Submit
<1>5. ASSUME NEW w \in Workers, Worker(w) PROVE TypeOK'
  <2>. USE DEF ownerVars, subVars
  <2>1. CASE StartOk(w) BY <2>1 DEF StartOk
  <2>2. CASE StartFails(w) BY <2>2 DEF StartFails
  <2>3. CASE SetError(w) BY <2>3 DEF SetError, AfterStartFailed
  <2>4. CASE Sleep(w) BY <2>4 DEF Sleep, IdleWaiting
  <2>5. CASE TakeWork(w)
    <3>1. idle' \in Nat
      <4>1. CASE pc[w] = "awake"
        <5>1. w \in Idle BY <4>1 DEF Idle
        <5>2. Cardinality(Idle) # 0
          BY <5>1, WorkerSetsFinite, AsleepIdle, FS_EmptySet
        <5>. QED BY <2>5, <4>1, <5>2 DEF TakeWork, IdleWorking, IdleCounted
      <4>2. CASE pc[w] # "awake" BY <2>5, <4>2 DEF TakeWork, IdleWorking
      <4>. QED BY <4>1, <4>2
    <3>2. Head(queue) \in Subs \cup {STOP} /\ Tail(queue) \in Seq(Subs \cup {STOP})
      BY <2>5 DEF TakeWork
    <3>. QED BY Zenon, <2>5, <3>1, <3>2 DEF TakeWork, Popped
  <2>6. CASE Compute(w) BY <2>6 DEF Compute
  <2>7. CASE Complete(w) BY Zenon, <2>7 DEF Complete, AfterBlock
  <2>. QED BY <1>5, <2>1, <2>2, <2>3, <2>4, <2>5, <2>6, <2>7 DEF Worker
<1>6. ASSUME NEW w \in Workers, SpuriousWakeup(w) PROVE TypeOK'
  BY <1>6 DEF SpuriousWakeup, ownerVars, subVars
<1>7. CASE UNCHANGED vars
  BY <1>7 DEF vars
<1>. QED
  BY <1>1, <1>2, <1>3, <1>4, <1>5, <1>6, <1>7
  DEF AnyNext, Next, CreateThreadFails, Destroy, Terminated

-----------------------------------------------------------------------------
(* The threads and the counter of idle workers *)

\* A step starts threads only in hash_pool_init().
LEMMA NextPcOfThreads == IInv /\ [AnyNext]_vars => PcOfThreads'
<1>. SUFFICES ASSUME IInv, [AnyNext]_vars PROVE PcOfThreads'
  OBVIOUS
<1>. USE DEF IInv, TypeOK, PcOfThreads
<1>1. ASSUME NEW w \in Workers, CreateThread(w) PROVE PcOfThreads'
  BY <1>1 DEF CreateThread
<1>2. ASSUME StopWorkers PROVE PcOfThreads'
  BY <1>2 DEF StopWorkers
<1>3. ASSUME NEW s \in Subs, Submit(s) PROVE PcOfThreads'
  BY <1>3 DEF Submit, SubmitAccepted, SubmitRejected, CondSignal, Asleep
<1>4. ASSUME NEW w \in Workers, Worker(w) \/ SpuriousWakeup(w) PROVE PcOfThreads'
  BY <1>4 DEF Worker, StartOk, StartFails, SetError, Sleep, TakeWork, Compute,
              Complete, SpuriousWakeup, ownerVars, AfterBlock,
              AfterStartFailed
<1>5. CASE Join \/ UNCHANGED vars
  BY <1>5 DEF Join, vars
<1>. QED
  BY <1>1, <1>2, <1>3, <1>4, <1>5
  DEF AnyNext, Next, CreateThreadFails, Destroy, Terminated

\* wait_for_work() keeps p->workers_idle equal to the number of workers in its
\* loop, whoever else runs.
LEMMA NextIdleCounted == IInv /\ [AnyNext]_vars => IdleCounted'
<1>. SUFFICES ASSUME IInv, [AnyNext]_vars PROVE IdleCounted'
  OBVIOUS
<1>. USE DEF IInv, TypeOK, PcOfThreads, IdleCounted
<1>0. IsFiniteSet(Idle)
  BY AsleepIdle, WorkerSetsFinite
<1>a. ASSUME Idle' = Idle, idle' = idle, threads \subseteq threads' PROVE IdleCounted'
  BY <1>a
<1>1. ASSUME NEW w \in Workers, CreateThread(w) PROVE IdleCounted'
  BY <1>1, <1>a DEF CreateThread, Idle
<1>2. ASSUME StopWorkers PROVE IdleCounted'
  BY <1>2, <1>a DEF StopWorkers, Idle
<1>3. ASSUME NEW s \in Subs, Submit(s) PROVE IdleCounted'
  BY <1>3, <1>a
  DEF Submit, SubmitAccepted, SubmitRejected, CondSignal, Asleep, Idle
<1>4. ASSUME NEW w \in Workers, Sleep(w) PROVE IdleCounted'
  <2>1. w \in threads
    BY <1>4 DEF Sleep
  <2>2. CASE pc[w] = "awake"
    BY <1>4, <2>2, <1>a DEF Sleep, IdleWaiting, Idle, ownerVars
  <2>3. CASE pc[w] # "awake"
    <3>1. w \notin Idle /\ Idle' = Idle \cup {w} /\ idle' = idle + 1
      BY <1>4, <2>3 DEF Sleep, IdleWaiting, Idle
    <3>2. Cardinality(Idle \cup {w}) = Cardinality(Idle) + 1
      BY Zenon, <1>0, <3>1, FS_AddElement
    <3>. QED BY <1>4, <2>1, <3>1, <3>2 DEF Sleep, ownerVars
  <2>. QED BY <2>2, <2>3
<1>5. ASSUME NEW w \in Workers, TakeWork(w) PROVE IdleCounted'
  <2>1. CASE pc[w] = "awake"
    <3>1. w \in Idle /\ Idle' = Idle \ {w} /\ idle' = idle - 1
      BY <1>5, <2>1 DEF TakeWork, IdleWorking, Idle
    <3>2. Cardinality(Idle \ {w}) = Cardinality(Idle) - 1
      BY Zenon, <1>0, <3>1, FS_RemoveElement
    <3>. QED BY <1>5, <3>1, <3>2 DEF TakeWork, ownerVars
  <2>2. CASE pc[w] # "awake"
    BY <1>5, <2>2, <1>a DEF TakeWork, IdleWorking, Idle, ownerVars
  <2>. QED BY <2>1, <2>2
<1>6. ASSUME NEW w \in Workers,
             \/ StartOk(w) \/ StartFails(w) \/ SetError(w)
             \/ Compute(w) \/ Complete(w) \/ SpuriousWakeup(w)
      PROVE  IdleCounted'
  BY <1>6, <1>a DEF StartOk, StartFails, SetError, Compute, Complete,
              AfterBlock, AfterStartFailed,
                    SpuriousWakeup, Idle, ownerVars
<1>7. CASE Join \/ UNCHANGED vars
  BY <1>7, <1>a DEF Join, vars, Idle
<1>. QED
  BY <1>1, <1>2, <1>3, <1>4, <1>5, <1>6, <1>7
  DEF AnyNext, Next, Worker, CreateThreadFails, Destroy, Terminated

-----------------------------------------------------------------------------
(* No lost wakeup *)

\* The decisive step: hash_pool_submit() either signals a sleeping worker, or
\* the workers that do not sleep are enough for the queue with the new
\* submission.
LEMMA SubmitEnoughAwake ==
    ASSUME IInv, NEW s \in Subs, Submit(s)
    PROVE  EnoughAwake'
<1>. USE DEF IInv, TypeOK, PcOfThreads
<1>. SUFFICES ASSUME Asleep' # {}
              PROVE  Len(queue') <= Cardinality(threads' \ Asleep')
  BY DEF EnoughAwake
<1>0. threads' = threads
  BY DEF Submit
<1>1. Asleep \subseteq threads /\ IsFiniteSet(Asleep) /\ Cardinality(Asleep) \in Nat
  BY AsleepIdle, WorkerSetsFinite DEF Asleep
<1>2. Cardinality(threads) \in Nat /\ IsFiniteSet(threads)
  BY WorkerSetsFinite
<1>3. Cardinality(threads \ Asleep) = Cardinality(threads) - Cardinality(Asleep)
  BY <1>1, AwakeCount
<1>4. CASE SubmitRejected(s)
  <2>1. Asleep' = Asleep /\ queue' = queue
    BY <1>4 DEF SubmitRejected, Asleep
  <2>. QED BY <1>0, <2>1 DEF EnoughAwake
<1>5. CASE SubmitAccepted(s)
  <2>1. Len(queue') = Len(queue) + 1 /\ Len(queue) \in Nat
    BY <1>5 DEF SubmitAccepted
  <2>2. CASE need_wakeup(Len(queue) + 1) /\ Asleep # {}
    <3>1. PICK w \in Asleep : pc' = [pc EXCEPT ![w] = "awake"]
      BY <1>5, <2>2 DEF SubmitAccepted, CondSignal
    <3>2. Asleep' = Asleep \ {w}
      BY <3>1 DEF Asleep
    <3>3. Cardinality(Asleep') = Cardinality(Asleep) - 1
      BY Zenon, <1>1, <3>1, <3>2, FS_RemoveElement
    <3>4. Cardinality(threads \ Asleep') = Cardinality(threads \ Asleep) + 1
      <4>1. threads \ Asleep' = (threads \ Asleep) \cup {w} /\ w \notin threads \ Asleep
        BY <1>1, <3>1, <3>2
      <4>. QED BY Zenon, <4>1, <1>2, FS_AddElement, FS_Subset
    <3>5. Len(queue) <= Cardinality(threads \ Asleep)
      BY <2>2 DEF EnoughAwake
    <3>. QED BY <1>0, <1>1, <1>2, <1>3, <2>1, <3>4, <3>5
  <2>3. CASE ~need_wakeup(Len(queue) + 1) \/ Asleep = {}
    <3>1. Asleep' = Asleep
      BY <1>5, <2>3 DEF SubmitAccepted, CondSignal, Asleep
    <3>2. ~need_wakeup(Len(queue) + 1)
      BY <2>3, <3>1
    <3>3. Cardinality(Asleep) # 0
      BY <1>1, <3>1, FS_EmptySet
    <3>4. Cardinality(Asleep) <= idle
      BY AsleepIdle, WorkerSetsFinite, FS_Subset DEF IdleCounted
    <3>5. Len(queue) + 1 <= Cardinality(threads) - idle
      BY <1>1, <1>2, <2>1, <3>2, <3>3, <3>4
      DEF need_wakeup, active_workers, WorkersCount
    <3>. QED BY <1>0, <1>1, <1>2, <1>3, <2>1, <3>1, <3>4, <3>5
  <2>. QED BY <2>2, <2>3
<1>. QED BY <1>4, <1>5 DEF Submit

\* Only a submit makes the queue longer while a worker sleeps; a worker goes to
\* sleep only when the queue is empty.
LEMMA NextEnoughAwake == IInv /\ [AnyNext]_vars => EnoughAwake'
<1>. SUFFICES ASSUME IInv, [AnyNext]_vars PROVE EnoughAwake'
  OBVIOUS
<1>. USE DEF IInv, TypeOK, PcOfThreads
<1>a. ASSUME Asleep' \subseteq Asleep, threads \subseteq threads', threads' \subseteq Workers,
             Len(queue') <= Len(queue), Len(queue') \in Nat
      PROVE  EnoughAwake'
  <2>. SUFFICES ASSUME Asleep' # {}
                PROVE  Len(queue') <= Cardinality(threads' \ Asleep')
    BY DEF EnoughAwake
  <2>1. threads \ Asleep \subseteq threads' \ Asleep' /\ threads' \ Asleep' \subseteq Workers
    BY <1>a
  <2>2. Cardinality(threads \ Asleep) <= Cardinality(threads' \ Asleep')
    BY <2>1, WorkerSetsFinite, FS_Subset
  <2>3. Len(queue) <= Cardinality(threads \ Asleep)
    BY <1>a DEF EnoughAwake
  <2>4. /\ Cardinality(threads \ Asleep) \in Nat
        /\ Cardinality(threads' \ Asleep') \in Nat
    BY <2>1, WorkerSetsFinite
  <2>. QED BY <1>a, <2>2, <2>3, <2>4
<1>1. ASSUME NEW w \in Workers, CreateThread(w) PROVE EnoughAwake'
  BY <1>1, <1>a DEF CreateThread, Asleep
<1>2. ASSUME StopWorkers PROVE EnoughAwake'
  <2>1. Asleep' = {}
    BY <1>2 DEF StopWorkers, Asleep
  <2>. QED BY <2>1 DEF EnoughAwake
<1>3. ASSUME NEW s \in Subs, Submit(s) PROVE EnoughAwake'
  BY <1>3, SubmitEnoughAwake
<1>4. ASSUME NEW w \in Workers, Sleep(w) PROVE EnoughAwake'
  <2>1. Len(queue') = 0 /\ threads' \ Asleep' \subseteq Workers
    BY <1>4 DEF Sleep, ownerVars
  <2>. QED BY <2>1, WorkerSetsFinite DEF EnoughAwake
<1>5. ASSUME NEW w \in Workers, TakeWork(w) PROVE EnoughAwake'
  <2>1. Asleep' \subseteq Asleep /\ threads' = threads
    BY <1>5 DEF TakeWork, Asleep, ownerVars
  <2>2. Len(queue') = Len(queue) - 1 /\ Len(queue) \in Nat /\ Len(queue) > 0
    BY <1>5 DEF TakeWork, Popped
  <2>. QED BY <1>a, <2>1, <2>2
<1>6. ASSUME NEW w \in Workers,
             \/ StartOk(w) \/ StartFails(w) \/ SetError(w)
             \/ Compute(w) \/ Complete(w) \/ SpuriousWakeup(w)
      PROVE  EnoughAwake'
  BY <1>6, <1>a DEF StartOk, StartFails, SetError, Compute, Complete,
              AfterBlock, AfterStartFailed,
                    SpuriousWakeup, Asleep, ownerVars
<1>7. CASE Join \/ UNCHANGED vars
  BY <1>7, <1>a DEF Join, vars, Asleep
<1>. QED
  BY <1>1, <1>2, <1>3, <1>4, <1>5, <1>6, <1>7
  DEF AnyNext, Next, Worker, CreateThreadFails, Destroy, Terminated

-----------------------------------------------------------------------------
(* The bound of the queue and the end of the workers *)

\* hash_pool_submit() checks for room; stop_workers() needs no check since it
\* empties the queue first and there is room for one STOP per worker.
LEMMA NextQueueBounded == IInv /\ [AnyNext]_vars => QueueBounded'
<1>. SUFFICES ASSUME IInv, [AnyNext]_vars PROVE QueueBounded'
  OBVIOUS
<1>. USE QueueSizeAssumption DEF IInv, TypeOK, QueueBounded
<1>1. ASSUME StopWorkers PROVE QueueBounded'
  <2>1. /\ Cardinality(threads) \in Nat
        /\ Cardinality(Workers) \in Nat
        /\ Cardinality(threads) <= Cardinality(Workers)
    BY WorkerSetsFinite
  <2>2. Len(queue') = Cardinality(threads)
    BY <1>1, <2>1 DEF StopWorkers, StopCount, WorkersCount
  <2>. QED BY <2>1, <2>2
<1>2. ASSUME NEW s \in Subs, Submit(s) PROVE QueueBounded'
  <2>1. CASE SubmitRejected(s) BY <2>1 DEF SubmitRejected
  <2>2. CASE SubmitAccepted(s)
    BY <2>2 DEF SubmitAccepted, SubmitError, ENOBUFS, EPERM
  <2>. QED BY <1>2, <2>1, <2>2 DEF Submit
<1>3. ASSUME NEW w \in Workers, TakeWork(w) PROVE QueueBounded'
  BY <1>3 DEF TakeWork, Popped
<1>4. ASSUME NEW w \in Workers,
             \/ CreateThread(w) \/ StartOk(w) \/ StartFails(w) \/ SetError(w)
             \/ Sleep(w) \/ Compute(w) \/ Complete(w) \/ SpuriousWakeup(w)
      PROVE  QueueBounded'
  BY <1>4 DEF CreateThread, StartOk, StartFails, SetError, Sleep, Compute,
              Complete, SpuriousWakeup
<1>5. CASE Join \/ UNCHANGED vars
  BY <1>5 DEF Join, vars
<1>. QED
  BY <1>1, <1>2, <1>3, <1>4, <1>5
  DEF AnyNext, Next, Worker, CreateThreadFails, Destroy, Terminated

\* stopped is set by stop_workers() only, which leaves the owner joining.
LEMMA NextStoppedLate == IInv /\ [AnyNext]_vars => StoppedLate'
BY Zenon DEF IInv, TypeOK, StoppedLate, AnyNext, Next, CreateThread, CreateThreadFails,
       Submit, Destroy, StopWorkers, Join, Worker, StartOk, StartFails,
       SetError, Sleep, TakeWork, Compute, Complete, SpuriousWakeup,
       Terminated, ownerVars, vars

\* Once stopped, a worker that pops takes one STOP and ends, so the STOPs that
\* are left are still enough; a worker finds the queue empty only when nobody
\* is left to fetch, so nobody goes to sleep again.
LEMMA NextStopForEveryone == IInv /\ [AnyNext]_vars => StopForEveryone'
<1>. SUFFICES ASSUME IInv, [AnyNext]_vars PROVE StopForEveryone'
  OBVIOUS
<1>. USE DEF IInv, TypeOK, PcOfThreads
<1>0. WillFetch \subseteq Workers /\ IsFiniteSet(WillFetch)
  BY WorkerSetsFinite DEF WillFetch
<1>a. ASSUME stopped' = stopped, queue' = queue, Asleep' \subseteq Asleep,
             WillFetch' \subseteq WillFetch
      PROVE  StopForEveryone'
  <2>1. Cardinality(WillFetch') <= Cardinality(WillFetch)
    BY <1>0, <1>a, FS_Subset
  <2>2. Cardinality(WillFetch') \in Nat /\ Cardinality(WillFetch) \in Nat
    BY <1>0, <1>a, WorkerSetsFinite
  <2>3. Len(queue) \in Nat
    OBVIOUS
  <2>. QED BY <1>a, <2>1, <2>2, <2>3 DEF StopForEveryone
<1>1. ASSUME NEW w \in Workers, CreateThread(w) PROVE StopForEveryone'
  BY <1>1 DEF CreateThread, StoppedLate, StopForEveryone
<1>2. ASSUME StopWorkers PROVE StopForEveryone'
  <2>1. Cardinality(threads) \in Nat /\ IsFiniteSet(threads)
    BY WorkerSetsFinite
  <2>2. Len(queue') = Cardinality(threads) /\ \A i \in DOMAIN queue' : queue'[i] = STOP
    BY <1>2, <2>1 DEF StopWorkers, StopCount, WorkersCount
  <2>3. Asleep' = {} /\ WillFetch' \subseteq threads
    BY <1>2 DEF StopWorkers, Asleep, WillFetch
  <2>4. Cardinality(WillFetch') <= Cardinality(threads)
    BY <2>1, <2>3, FS_Subset
  <2>. QED BY <2>2, <2>3, <2>4 DEF StopForEveryone
<1>3. ASSUME NEW s \in Subs, Submit(s) PROVE StopForEveryone'
  BY <1>3 DEF Submit, StoppedLate, StopForEveryone
<1>4. ASSUME NEW w \in Workers, Sleep(w) PROVE StopForEveryone'
  <2>1. w \in WillFetch
    BY <1>4 DEF Sleep, WillFetch
  <2>2. Cardinality(WillFetch) # 0 /\ Cardinality(WillFetch) \in Nat
    BY <1>0, <2>1, FS_EmptySet, FS_CardinalityType
  <2>3. Len(queue) = 0
    BY <1>4 DEF Sleep
  <2>4. ~stopped
    BY <2>2, <2>3 DEF StopForEveryone
  <2>. QED BY <1>4, <2>4 DEF Sleep, StopForEveryone, ownerVars
<1>5. ASSUME NEW w \in Workers, TakeWork(w) PROVE StopForEveryone'
  <2>. SUFFICES ASSUME stopped PROVE StopForEveryone'
    BY <1>5 DEF TakeWork, ownerVars, StopForEveryone
  <2>1. /\ queue # <<>> /\ queue' = Tail(queue)
        /\ \A i \in DOMAIN queue : queue[i] = STOP
    BY <1>5 DEF TakeWork, Popped, StopForEveryone
  <2>2. /\ Head(queue) = STOP
        /\ Len(queue') = Len(queue) - 1
        /\ Len(queue) \in Nat
        /\ \A i \in DOMAIN queue' : queue'[i] = STOP
    BY <2>1
  <2>3. pc' = [pc EXCEPT ![w] = "done"] /\ threads' = threads
    BY <1>5, <2>2 DEF TakeWork, ownerVars
  <2>4. w \in WillFetch
    BY <1>5 DEF TakeWork, WillFetch
  <2>5. WillFetch' = WillFetch \ {w} /\ Asleep' \subseteq Asleep
    BY <2>3 DEF WillFetch, Asleep
  <2>6. Cardinality(WillFetch') = Cardinality(WillFetch) - 1
    BY Zenon, <1>0, <2>4, <2>5, FS_RemoveElement
  <2>7. Cardinality(WillFetch) \in Nat
    BY <1>0, FS_CardinalityType
  <2>. QED BY <2>2, <2>5, <2>6, <2>7 DEF StopForEveryone
<1>6. ASSUME NEW w \in Workers,
             \/ StartOk(w) \/ StartFails(w) \/ SetError(w)
             \/ Compute(w) \/ Complete(w) \/ SpuriousWakeup(w)
      PROVE  StopForEveryone'
  BY <1>6, <1>a DEF StartOk, StartFails, SetError, Compute, Complete,
              AfterBlock, AfterStartFailed,
                    SpuriousWakeup, Asleep, WillFetch, ownerVars
<1>7. CASE Join \/ UNCHANGED vars
  BY <1>7, <1>a DEF Join, vars, Asleep, WillFetch
<1>. QED
  BY <1>1, <1>2, <1>3, <1>4, <1>5, <1>6, <1>7
  DEF AnyNext, Next, Worker, CreateThreadFails, Destroy, Terminated

-----------------------------------------------------------------------------
(* The places of a submission *)

\* TakeWork() is the only step that starts to hold a submission, Complete()
\* the only one that ends it.
LEMMA NextHeldWhileWorking == IInv /\ [AnyNext]_vars => HeldWhileWorking'
<1>. SUFFICES ASSUME IInv, [AnyNext]_vars PROVE HeldWhileWorking'
  OBVIOUS
<1>. USE SubsAssumption DEF IInv, TypeOK, HeldWhileWorking
<1>1. ASSUME NEW w \in Workers, CreateThread(w) PROVE HeldWhileWorking'
  BY <1>1 DEF CreateThread, PcOfThreads
<1>2. ASSUME StopWorkers PROVE HeldWhileWorking'
  BY <1>2 DEF StopWorkers
<1>3. ASSUME NEW s \in Subs, Submit(s) PROVE HeldWhileWorking'
  BY <1>3 DEF Submit, SubmitAccepted, SubmitRejected, CondSignal, Asleep
<1>4. ASSUME NEW w \in Workers, TakeWork(w) PROVE HeldWhileWorking'
  <2>1. Head(queue) \in Subs \cup {STOP}
    BY <1>4 DEF TakeWork
  <2>. QED BY <1>4, <2>1 DEF TakeWork
<1>5. ASSUME NEW w \in Workers,
             \/ StartOk(w) \/ StartFails(w) \/ SetError(w) \/ Sleep(w)
             \/ Compute(w) \/ Complete(w) \/ SpuriousWakeup(w)
      PROVE  HeldWhileWorking'
  BY <1>5 DEF StartOk, StartFails, SetError, Sleep, Compute, Complete,
              AfterBlock, AfterStartFailed, SpuriousWakeup
<1>6. CASE Join \/ UNCHANGED vars
  BY Zenon, <1>6 DEF Join, vars
<1>. QED
  BY <1>1, <1>2, <1>3, <1>4, <1>5, <1>6
  DEF AnyNext, Next, Worker, CreateThreadFails, Destroy, Terminated

\* A submission enters the queue once, and moves from there to one worker.
LEMMA NextPlacesDiffer == IInv /\ [AnyNext]_vars => PlacesDiffer'
<1>. SUFFICES ASSUME IInv, [AnyNext]_vars PROVE PlacesDiffer'
  OBVIOUS
<1>. USE SubsAssumption DEF IInv, TypeOK, PlacesDiffer
<1>1. ASSUME StopWorkers PROVE PlacesDiffer'
  <2>1. Cardinality(threads) \in Nat
    BY WorkerSetsFinite
  <2>2. held' = held /\ \A i \in DOMAIN queue' : queue'[i] = STOP
    BY <1>1, <2>1 DEF StopWorkers, StopCount, WorkersCount
  <2>3. \A w \in Workers : held[w] # STOP
    OBVIOUS
  <2>. QED BY Zenon, <2>2, <2>3
<1>2. ASSUME NEW s \in Subs, Submit(s), SubmitAccepted(s) PROVE PlacesDiffer'
  <2>1. ~HasPlace(s)
    BY <1>2 DEF Submit, Placed
  <2>2. /\ \A i \in DOMAIN queue : queue[i] # s
        /\ \A w \in Workers : held[w] # s
    BY <2>1 DEF HasPlace, Cleared
  <2>3. held' = held /\ queue' = Append(queue, s)
    BY <1>2 DEF Submit, SubmitAccepted
  <2>4. /\ DOMAIN queue' = DOMAIN queue \cup {Len(queue) + 1}
        /\ \A i \in DOMAIN queue : queue'[i] = queue[i]
        /\ queue'[Len(queue) + 1] = s
    BY <2>3
  <2>. QED BY <2>2, <2>3, <2>4
<1>3. ASSUME NEW w \in Workers, TakeWork(w) PROVE PlacesDiffer'
  <2>1. /\ queue # <<>> /\ queue' = Tail(queue)
        /\ \/ Head(queue) = STOP /\ held' = held
           \/ Head(queue) # STOP /\ held' = [held EXCEPT ![w] = Head(queue)]
    BY <1>3 DEF TakeWork, Popped
  <2>2. /\ 1 \in DOMAIN queue /\ Head(queue) = queue[1]
        /\ \A i \in DOMAIN queue' :
              i + 1 \in DOMAIN queue /\ queue'[i] = queue[i + 1] /\ i + 1 # 1
    BY <2>1
  <2>3. \A i, j \in DOMAIN queue' :
          queue'[i] = queue'[j] /\ queue'[i] # STOP => i = j
    <3>1. TAKE i, j \in DOMAIN queue'
    <3>2. PICK m \in DOMAIN queue, n \in DOMAIN queue : m = i + 1 /\ n = j + 1
      BY <2>2
    <3>3. i \in Nat /\ j \in Nat
      BY <2>1
    <3>. QED BY <2>2, <3>2, <3>3
  <2>4. \A i \in DOMAIN queue' : queue'[i] # Head(queue) \/ queue'[i] = STOP
    <3>1. TAKE i \in DOMAIN queue'
    <3>2. PICK m \in DOMAIN queue : m = i + 1
      BY <2>2
    <3>. QED BY <2>2, <3>2
  <2>5. \A i \in DOMAIN queue' : \E m \in DOMAIN queue : queue'[i] = queue[m]
    BY <2>2
  <2>6. CASE held' = held
    BY <2>3, <2>5, <2>6
  <2>7. CASE Head(queue) # STOP /\ held' = [held EXCEPT ![w] = Head(queue)]
    <3>1. \A v \in Workers : held'[v] = held[v] \/ held'[v] = Head(queue)
      BY <2>7
    <3>2. \A i \in DOMAIN queue', v \in Workers : queue'[i] # held'[v]
      BY <2>4, <2>5, <2>7, <3>1
    <3>3. \A u, v \in Workers :
            held'[u] = held'[v] /\ held'[u] # None => u = v
      BY <2>2, <2>7
    <3>. QED BY <2>3, <3>2, <3>3
  <2>. QED BY <2>1, <2>6, <2>7
<1>4. ASSUME NEW w \in Workers, Complete(w) PROVE PlacesDiffer'
  <2>1. queue' = queue /\ held' = [held EXCEPT ![w] = None]
    BY <1>4 DEF Complete
  <2>2. \A i \in DOMAIN queue : queue[i] # None
    OBVIOUS
  <2>. QED BY <2>1, <2>2
<1>5. ASSUME UNCHANGED <<queue, held>> PROVE PlacesDiffer'
  BY <1>5
<1>6. ASSUME NEW w \in Workers,
             \/ CreateThread(w) \/ StartOk(w) \/ StartFails(w) \/ SetError(w)
             \/ Sleep(w) \/ Compute(w) \/ SpuriousWakeup(w)
      PROVE  UNCHANGED <<queue, held>>
  BY <1>6 DEF CreateThread, StartOk, StartFails, SetError, Sleep, Compute,
              SpuriousWakeup
<1>7. ASSUME NEW s \in Subs, Submit(s), SubmitRejected(s)
      PROVE  UNCHANGED <<queue, held>>
  BY <1>7 DEF Submit, SubmitRejected
<1>8. CASE Join \/ UNCHANGED vars
  BY Zenon, <1>5, <1>8 DEF Join, vars
<1>9. ASSUME NEW s \in Subs, Submit(s) PROVE PlacesDiffer'
  BY <1>2, <1>5, <1>7, <1>9 DEF Submit
<1>. QED
  BY Zenon, <1>1, <1>3, <1>4, <1>5, <1>6, <1>8, <1>9
  DEF AnyNext, Next, Worker, CreateThreadFails, Destroy, Terminated

\* A result is stored for what is queued, held or being submitted.
LEMMA NextCompletedSubmitted == IInv /\ [AnyNext]_vars => CompletedSubmitted'
<1>. SUFFICES ASSUME IInv, [AnyNext]_vars PROVE CompletedSubmitted'
  OBVIOUS
<1>. USE SubsAssumption DEF IInv, TypeOK, CompletedSubmitted
<1>0. ASSUME UNCHANGED <<submitted, completed>> PROVE CompletedSubmitted'
  BY <1>0
<1>1. ASSUME StopWorkers PROVE CompletedSubmitted'
  BY <1>1 DEF StopWorkers, Placed, HasPlace
<1>2. ASSUME NEW s \in Subs, Submit(s) PROVE CompletedSubmitted'
  BY <1>2 DEF Submit, SubmitAccepted, SubmitRejected, subVars
<1>3. ASSUME NEW w \in Workers, Complete(w) PROVE CompletedSubmitted'
  <2>1. held[w] \in Subs /\ held[w] \in submitted
    BY <1>3 DEF Complete, HeldWhileWorking, Placed, HasPlace
  <2>. QED BY <1>3, <2>1 DEF Complete, ownerVars
<1>4. ASSUME NEW w \in Workers,
             \/ CreateThread(w) \/ StartOk(w) \/ StartFails(w) \/ SetError(w)
             \/ Sleep(w) \/ TakeWork(w) \/ Compute(w) \/ SpuriousWakeup(w)
      PROVE  UNCHANGED <<submitted, completed>>
  BY <1>4 DEF CreateThread, StartOk, StartFails, SetError, Sleep, TakeWork,
              Compute, SpuriousWakeup, ownerVars, subVars
<1>5. CASE Join \/ UNCHANGED vars
  BY <1>0, <1>5 DEF Join, vars, subVars
<1>. QED
  BY <1>0, <1>1, <1>2, <1>3, <1>4, <1>5
  DEF AnyNext, Next, Worker, CreateThreadFails, Destroy, Terminated

\* Every step that takes a submission out of its place completes it, and only
\* such a step does.
LEMMA NextPlaced == IInv /\ [AnyNext]_vars => Placed'
<1>. SUFFICES ASSUME IInv, [AnyNext]_vars PROVE Placed'
  OBVIOUS
<1>. USE SubsAssumption DEF IInv, TypeOK
<1>0. ASSUME UNCHANGED <<queue, held, submitted, completed>> PROVE Placed'
  BY <1>0 DEF Placed, HasPlace, Cleared
<1>1. ASSUME StopWorkers PROVE Placed'
  <2>1. Cardinality(threads) \in Nat
    BY WorkerSetsFinite
  <2>2. held' = held /\ \A i \in DOMAIN queue' : queue'[i] = STOP
    BY <1>1, <2>1 DEF StopWorkers, StopCount, WorkersCount
  <2>3. SUFFICES ASSUME NEW s \in Subs
                 PROVE  HasPlace(s)' <=> s \in submitted' /\ ~completed'[s]
    BY DEF Placed
  <2>4. HasPlace(s)' <=> \E w \in Workers : held[w] = s
    BY <2>2 DEF HasPlace, Cleared
  <2>5. submitted' = submitted /\ completed'[s] = (completed[s] \/ Cleared(s))
    BY <1>1 DEF StopWorkers
  <2>6. Cleared(s) => ~\E w \in Workers : held[w] = s
    BY DEF Cleared, PlacesDiffer
  <2>. QED BY Zenon, <2>4, <2>5, <2>6 DEF Placed, HasPlace
<1>2. ASSUME NEW s \in Subs, Submit(s), SubmitAccepted(s) PROVE Placed'
  <2>1. /\ held' = held /\ queue' = Append(queue, s)
        /\ submitted' = submitted \cup {s} /\ completed' = completed
        /\ s \notin submitted
    BY Zenon, <1>2 DEF Submit, SubmitAccepted, subVars
  <2>2. /\ DOMAIN queue' = DOMAIN queue \cup {Len(queue) + 1}
        /\ \A i \in DOMAIN queue : queue'[i] = queue[i]
        /\ queue'[Len(queue) + 1] = s
    BY <2>1
  <2>3. \A r \in Subs : HasPlace(r)' <=> HasPlace(r) \/ r = s
    BY <2>1, <2>2 DEF HasPlace, Cleared
  <2>4. ~completed[s]
    BY <2>1 DEF CompletedSubmitted
  <2>. QED BY <2>1, <2>3, <2>4 DEF Placed
<1>3. ASSUME NEW s \in Subs, Submit(s), SubmitRejected(s) PROVE Placed'
  <2>1. /\ held' = held /\ queue' = queue
        /\ submitted' = submitted \cup {s}
        /\ completed' = [completed EXCEPT ![s] = TRUE]
        /\ s \notin submitted
    BY <1>3 DEF Submit, SubmitRejected
  <2>2. \A r \in Subs : HasPlace(r)' <=> HasPlace(r)
    BY <2>1 DEF HasPlace, Cleared
  <2>. QED BY <2>1, <2>2 DEF Placed
<1>4. ASSUME NEW w \in Workers, TakeWork(w) PROVE Placed'
  <2>1. /\ queue # <<>> /\ queue' = Tail(queue)
        /\ submitted' = submitted /\ completed' = completed
        /\ \/ Head(queue) = STOP /\ held' = held
           \/ Head(queue) # STOP /\ held' = [held EXCEPT ![w] = Head(queue)]
        /\ held[w] = None
    BY <1>4 DEF TakeWork, Popped, ownerVars, subVars, HeldWhileWorking
  <2>2. /\ 1 \in DOMAIN queue /\ Head(queue) = queue[1]
        /\ \A i \in DOMAIN queue' :
              i + 1 \in DOMAIN queue /\ queue'[i] = queue[i + 1]
        /\ \A i \in DOMAIN queue : i = 1 \/ i - 1 \in DOMAIN queue'
        /\ \A i \in DOMAIN queue \ {1} : queue'[i - 1] = queue[i]
    BY <2>1
  <2>3. \A s \in Subs : Cleared(s) <=> Cleared(s)' \/ s = Head(queue)
    <3>1. TAKE s \in Subs
    <3>2. Cleared(s)' => Cleared(s)
      BY <2>2 DEF Cleared
    <3>3. s = Head(queue) => Cleared(s)
      BY <2>2 DEF Cleared
    <3>4. Cleared(s) => Cleared(s)' \/ s = Head(queue)
      <4>1. SUFFICES ASSUME NEW i \in DOMAIN queue, queue[i] = s, i # 1
                     PROVE  Cleared(s)'
        BY <2>2 DEF Cleared
      <4>2. PICK j : j = i - 1
        OBVIOUS
      <4>3. j \in DOMAIN queue' /\ queue'[j] = s
        BY <2>2, <4>1, <4>2
      <4>. QED BY <4>3 DEF Cleared
    <3>. QED BY <3>2, <3>3, <3>4
  <2>4. \A s \in Subs :
          (\E v \in Workers : held'[v] = s)
             <=> (\E v \in Workers : held[v] = s) \/ s = Head(queue)
    BY <2>1
  <2>5. \A s \in Subs : HasPlace(s)' <=> HasPlace(s)
    BY <2>3, <2>4 DEF HasPlace
  <2>. QED BY <2>1, <2>5 DEF Placed
<1>5. ASSUME NEW w \in Workers, Complete(w) PROVE Placed'
  <2>1. /\ queue' = queue /\ submitted' = submitted
        /\ held' = [held EXCEPT ![w] = None]
        /\ completed' = [completed EXCEPT ![held[w]] = TRUE]
        /\ held[w] \in Subs
    BY <1>5 DEF Complete, ownerVars, HeldWhileWorking
  <2>2. \A s \in Subs : HasPlace(s)' <=> HasPlace(s) /\ s # held[w]
    <3>1. ~Cleared(held[w])
      BY DEF Cleared, PlacesDiffer
    <3>2. \A s \in Subs : Cleared(s)' <=> Cleared(s)
      BY <2>1 DEF Cleared
    <3>3. \A s \in Subs :
            (\E v \in Workers : held'[v] = s)
               <=> (\E v \in Workers : held[v] = s) /\ s # held[w]
      BY <2>1 DEF PlacesDiffer
    <3>. QED BY <2>1, <3>1, <3>2, <3>3 DEF HasPlace
  <2>. QED BY <2>1, <2>2 DEF Placed
<1>6. ASSUME NEW w \in Workers,
             \/ CreateThread(w) \/ StartOk(w) \/ StartFails(w) \/ SetError(w)
             \/ Sleep(w) \/ Compute(w) \/ SpuriousWakeup(w)
      PROVE  UNCHANGED <<queue, held, submitted, completed>>
  BY <1>6 DEF CreateThread, StartOk, StartFails, SetError, Sleep, Compute,
              SpuriousWakeup, ownerVars, subVars
<1>7. CASE Join \/ UNCHANGED vars
  BY <1>0, <1>7 DEF Join, vars, subVars
<1>8. ASSUME NEW s \in Subs, Submit(s) PROVE Placed'
  BY <1>2, <1>3, <1>8 DEF Submit
<1>. QED
  BY <1>0, <1>1, <1>4, <1>5, <1>6, <1>7, <1>8
  DEF AnyNext, Next, Worker, CreateThreadFails, Destroy, Terminated

-----------------------------------------------------------------------------
(* The theorems *)

\* Before hash_pool_init() creates a thread everything is empty.
LEMMA InitIInv == Init => IInv
<1>. SUFFICES ASSUME Init PROVE IInv
  OBVIOUS
<1>1. Idle = {} /\ Asleep = {}
  BY DEF Init, Idle, Asleep
<1>2. PcOfThreads /\ StoppedLate /\ StopForEveryone
  BY DEF Init, PcOfThreads, StoppedLate, StopForEveryone
<1>3. IdleCounted
  BY <1>1, FS_EmptySet DEF Init, IdleCounted
<1>4. EnoughAwake
  BY <1>1 DEF EnoughAwake
<1>5. QueueBounded
  BY QueueSizeAssumption DEF Init, QueueBounded
<1>6. HeldWhileWorking /\ PlacesDiffer /\ CompletedSubmitted
  BY DEF Init, HeldWhileWorking, PlacesDiffer, CompletedSubmitted
<1>7. Placed
  BY SubsAssumption DEF Init, Placed, HasPlace, Cleared
<1>. QED
  BY <1>2, <1>3, <1>4, <1>5, <1>6, <1>7, InitType DEF IInv

\* Every step keeps the inductive invariant.
LEMMA NextIInv == IInv /\ [AnyNext]_vars => IInv'
BY NextType, NextPcOfThreads, NextIdleCounted, NextEnoughAwake,
   NextQueueBounded, NextStoppedLate, NextStopForEveryone,
   NextHeldWhileWorking, NextPlacesDiffer, NextPlaced, NextCompletedSubmitted
DEF IInv

\* The inductive invariant holds in every state of the pool.
LEMMA Invariance == Spec => []IInv
<1>1. IInv /\ [Next]_vars => IInv'
  BY Zenon, NextIInv DEF AnyNext
<1>. QED
  BY <1>1, InitIInv, PTL DEF Spec

\* The state of hash-pool.c keeps its types; in particular the unsigned
\* p->workers_idle never wraps around.
THEOREM TypeCorrect == Spec => []TypeOK
<1>1. IInv => TypeOK
  BY DEF IInv
<1>. QED
  BY <1>1, Invariance, PTL

\* p->workers_idle is the number of workers inside wait_for_work().
THEOREM IdleIsCounted == Spec => []IdleCounted
<1>1. IInv => IdleCounted
  BY DEF IInv
<1>. QED
  BY <1>1, Invariance, PTL

\* need_wakeup() loses no wakeup: a worker sleeps only while the others are
\* enough for the queue.
THEOREM NoLostWakeup == Spec => []EnoughAwake
<1>1. IInv => EnoughAwake
  BY DEF IInv
<1>. QED
  BY <1>1, Invariance, PTL

\* push_unlocked() never overruns the ring buffer.
THEOREM QueueIsBounded == Spec => []QueueBounded
<1>1. IInv => QueueBounded
  BY DEF IInv
<1>. QED
  BY <1>1, Invariance, PTL

\* stop_workers() leaves a STOP for every worker and nobody asleep.
THEOREM StopReachesEveryone == Spec => []StopForEveryone
<1>1. IInv => StopForEveryone
  BY DEF IInv
<1>. QED
  BY <1>1, Invariance, PTL

\* A submission without a result is queued once or held by one worker, and the
\* pool reaches no other submission.
THEOREM OneResponsible == Spec => []OnePlace
<1>1. IInv => OnePlace
  <2>. SUFFICES ASSUME IInv, NEW s \in Subs
                PROVE  Cardinality(QueuedAt(s)) + Cardinality(HeldBy(s))
                         = IF s \in submitted /\ ~completed[s] THEN 1 ELSE 0
    BY DEF OnePlace
  <2>. USE SubsAssumption DEF IInv, TypeOK
  <2>1. QueuedAt(s) # {} => \E i : QueuedAt(s) = {i}
    <3>. SUFFICES ASSUME NEW i \in QueuedAt(s) PROVE QueuedAt(s) = {i}
      BY Zenon
    <3>. QED BY DEF QueuedAt, PlacesDiffer
  <2>2. HeldBy(s) # {} => \E w : HeldBy(s) = {w}
    <3>. SUFFICES ASSUME NEW w \in HeldBy(s) PROVE HeldBy(s) = {w}
      BY Zenon
    <3>. QED BY DEF HeldBy, PlacesDiffer
  <2>3. QueuedAt(s) = {} \/ HeldBy(s) = {}
    BY DEF QueuedAt, HeldBy, PlacesDiffer
  <2>4. s \in submitted /\ ~completed[s] <=> QueuedAt(s) # {} \/ HeldBy(s) # {}
    BY DEF Placed, HasPlace, Cleared, QueuedAt, HeldBy
  <2>5. Cardinality(QueuedAt(s)) = IF QueuedAt(s) = {} THEN 0 ELSE 1
    BY Zenon, <2>1, FS_EmptySet, FS_Singleton
  <2>6. Cardinality(HeldBy(s)) = IF HeldBy(s) = {} THEN 0 ELSE 1
    BY Zenon, <2>2, FS_EmptySet, FS_Singleton
  <2>. QED BY <2>3, <2>4, <2>5, <2>6
<1>. QED
  BY <1>1, Invariance, PTL

\* After sub->completed was set no step changes it or sub->error.
THEOREM ResultIsFinal == Spec => FrozenAfterCompleted
<1>1. IInv /\ [Next]_vars
        => [\A s \in Subs : completed[s] =>
              completed'[s] /\ suberr'[s] = suberr[s]]_vars
  <2>. SUFFICES ASSUME IInv, Next, NEW s \in Subs, completed[s]
                PROVE  completed'[s] /\ suberr'[s] = suberr[s]
    OBVIOUS
  <2>. USE SubsAssumption DEF IInv, TypeOK
  <2>1. s \in submitted /\ ~HasPlace(s)
    BY DEF Placed, CompletedSubmitted
  <2>2. ASSUME StopWorkers PROVE completed'[s] /\ suberr'[s] = suberr[s]
    BY <2>1, <2>2 DEF StopWorkers, StopError, HasPlace
  <2>3. ASSUME NEW r \in Subs, Submit(r)
        PROVE  completed'[s] /\ suberr'[s] = suberr[s]
    BY <2>1, <2>3 DEF Submit, SubmitAccepted, SubmitRejected, subVars
  <2>4. ASSUME NEW w \in Workers, Compute(w) \/ Complete(w)
        PROVE  completed'[s] /\ suberr'[s] = suberr[s]
    <3>1. held[w] # s
      BY <2>1 DEF HasPlace
    <3>. QED BY <2>4, <3>1 DEF Compute, Complete
  <2>5. ASSUME NEW w \in Workers,
               \/ CreateThread(w) \/ StartOk(w) \/ StartFails(w) \/ SetError(w)
               \/ Sleep(w) \/ TakeWork(w) \/ SpuriousWakeup(w)
        PROVE  completed'[s] /\ suberr'[s] = suberr[s]
    BY <2>5 DEF CreateThread, StartOk, StartFails, SetError, Sleep, TakeWork,
                SpuriousWakeup, subVars
  <2>6. CASE Join \/ UNCHANGED vars
    BY <2>6 DEF Join, vars, subVars
  <2>. QED
    BY Zenon, <2>2, <2>3, <2>4, <2>5, <2>6
    DEF Next, Worker, CreateThreadFails, Destroy, Terminated
<1>. QED
  BY <1>1, Invariance, PTL DEF Spec, FrozenAfterCompleted

-----------------------------------------------------------------------------
(* Nobody waits for nothing *)

\* The worker can take a step other than going to sleep.
CanRun(w) ==
    \/ pc[w] \in {"start", "failed", "work", "hashed"}
    \/ pc[w] \in {"fetch", "awake"} /\ queue # <<>>

\* Before the pool is stopped a worker ends only because it could not start,
\* and every submission finds all the workers created.
WorkersEnd ==
    /\ life \in {"joining", "destroyed"} => stopped
    /\ life = "ready" \/ submitted # {} => threads = Workers
    /\ ~stopped => /\ \A i \in DOMAIN queue : queue[i] # STOP
                   /\ \A w \in Workers : pc[w] = "done" => error # 0

\* While a submission has no result some worker can run, unless one could not
\* start; while stop_workers() joins, every worker ended or can run.  This is
\* the deadlock freedom of the pool: a wakeup that need_wakeup() skipped, or
\* a STOP that is missing, would leave a state with nobody to run.
NeverStuck ==
    /\ \A s \in submitted :
          completed[s] \/ error # 0 \/ \E w \in threads : CanRun(w)
    /\ life = "joining" => \A w \in threads : pc[w] = "done" \/ CanRun(w)

\* No worker ends early, and no pool without its workers gets a submission.
LEMMA NextWorkersEnd == IInv /\ WorkersEnd /\ [AnyNext]_vars => WorkersEnd'
<1>. SUFFICES ASSUME IInv, WorkersEnd, [AnyNext]_vars PROVE WorkersEnd'
  OBVIOUS
<1>0. /\ pc \in [Workers -> PCs] /\ queue \in Seq(Subs \cup {STOP}) /\ STOP \notin Subs
      /\ error \in {0, -ENOMEM} /\ threads \subseteq Workers
  BY SubsAssumption DEF IInv, TypeOK
<1>1. ASSUME NEW w \in Workers, CreateThread(w) PROVE WorkersEnd'
  <2>1. /\ life = "creating" /\ threads' = threads \cup {w}
        /\ life' = IF threads' = Workers THEN "ready" ELSE "creating"
        /\ UNCHANGED <<queue, stopped, error, submitted>>
    BY Zenon, <1>1 DEF CreateThread
  <2>2. \A v \in Workers : pc'[v] = "done" => pc[v] = "done"
    BY <1>0, <1>1 DEF CreateThread
  <2>3. submitted' # {} => threads' = Workers
    BY <1>0, <2>1 DEF WorkersEnd
  <2>. QED BY Zenon, <2>1, <2>2, <2>3 DEF WorkersEnd
<1>2. CASE StopWorkers
  <2>1. stopped' = TRUE /\ life' = "joining" /\ UNCHANGED <<threads, submitted>>
    BY Zenon, <1>2 DEF StopWorkers
  <2>. QED BY Zenon, <2>1 DEF WorkersEnd
<1>3. ASSUME NEW s \in Subs, Submit(s) PROVE WorkersEnd'
  <2>1. life = "ready" /\ UNCHANGED <<life, threads, stopped, error>>
    BY Zenon, <1>3 DEF Submit
  <2>2. \A v \in Workers : pc'[v] = "done" => pc[v] = "done"
    BY <1>0, <1>3 DEF Submit, SubmitAccepted, SubmitRejected, CondSignal
  <2>3. queue' = queue \/ queue' = Append(queue, s)
    BY Zenon, <1>3 DEF Submit, SubmitAccepted, SubmitRejected
  <2>4. ~stopped => \A i \in DOMAIN queue' : queue'[i] # STOP
    BY <1>0, <2>3 DEF WorkersEnd
  <2>. QED BY Zenon, <2>1, <2>2, <2>4 DEF WorkersEnd
<1>4. ASSUME NEW w \in Workers, TakeWork(w) PROVE WorkersEnd'
  <2>1. /\ UNCHANGED <<life, threads, stopped, submitted, error>>
        /\ queue # <<>> /\ queue' = Tail(queue)
    BY Zenon, <1>4 DEF TakeWork, ownerVars, Popped
  <2>2. ~stopped => Head(queue) # STOP /\ \A i \in DOMAIN queue' : queue'[i] # STOP
    BY <1>0, <2>1 DEF WorkersEnd
  <2>3. Head(queue) # STOP => \A v \in Workers : pc'[v] = "done" => pc[v] = "done"
    BY <1>0, <1>4 DEF TakeWork
  <2>. QED BY Zenon, <2>1, <2>2, <2>3 DEF WorkersEnd
<1>5. ASSUME NEW w \in Workers, SetError(w) PROVE WorkersEnd'
  <2>1. UNCHANGED <<life, threads, stopped, submitted, queue>>
    BY Zenon, <1>5 DEF SetError, ownerVars
  <2>2. error' # 0
    BY <1>0, <1>5 DEF SetError, ENOMEM
  <2>. QED BY Zenon, <2>1, <2>2 DEF WorkersEnd
<1>6. ASSUME NEW w \in Workers,
             \/ StartOk(w) \/ StartFails(w) \/ Sleep(w) \/ Compute(w) \/ Complete(w)
             \/ SpuriousWakeup(w)
      PROVE  WorkersEnd'
  <2>1. UNCHANGED <<life, threads, stopped, submitted, queue, error>>
    BY Zenon, <1>6 DEF StartOk, StartFails, Sleep, Compute, Complete, SpuriousWakeup, ownerVars
  <2>2. \E p \in PCs \ {"done"} : pc' = [pc EXCEPT ![w] = p]
    BY Zenon, <1>6 DEF StartOk, StartFails, Sleep, Compute, Complete, AfterBlock,
       SpuriousWakeup, PCs
  <2>3. \A v \in Workers : pc'[v] = "done" => pc[v] = "done"
    BY <1>0, <2>2
  <2>. QED BY Zenon, <2>1, <2>3 DEF WorkersEnd
<1>7. CASE Join
  <2>1. life = "joining" /\ life' = "destroyed"
        /\ UNCHANGED <<threads, stopped, submitted, queue, pc, error>>
    BY Zenon, <1>7 DEF Join
  <2>. QED BY Zenon, <2>1 DEF WorkersEnd
<1>8. CASE UNCHANGED vars
  BY Zenon, <1>8 DEF WorkersEnd, vars
<1>. QED BY Zenon, <1>1, <1>2, <1>3, <1>4, <1>5, <1>6, <1>7, <1>8
     DEF AnyNext, Next, Worker, CreateThreadFails, Destroy, Terminated

\* A queued submission keeps a worker awake.
LEMMA SomebodyAwake ==
    ASSUME IInv, WorkersEnd, queue # <<>>, ~stopped, error = 0, submitted # {}
    PROVE  \E w \in threads : CanRun(w)
<1>1. /\ threads = Workers /\ IsFiniteSet(threads) /\ threads # {}
  BY Zenon, WorkersAssumption DEF WorkersEnd
<1>2. \E w \in threads : w \notin Asleep
  <2>1. CASE Asleep = {}
    BY Zenon, <1>1, <2>1
  <2>2. CASE Asleep # {}
    <3>1. PICK n \in Nat : n = Len(queue) /\ n > 0
      BY DEF IInv, TypeOK
    <3>2. Len(queue) <= Cardinality(threads \ Asleep)
      BY Zenon, <2>2 DEF IInv, EnoughAwake
    <3>3. Cardinality({}) = 0
      BY Zenon, FS_EmptySet
    <3>4. threads \ Asleep # {}
      <4>. SUFFICES ASSUME threads \ Asleep = {} PROVE FALSE
        OBVIOUS
      <4>1. n <= 0
        BY Zenon, <3>1, <3>2, <3>3
      <4>. QED BY <3>1, <4>1
    <3>. QED BY Zenon, <3>4
  <2>. QED BY Zenon, <2>1, <2>2
<1>3. PICK w \in threads : w \notin Asleep
  BY Zenon, <1>2
<1>4. pc[w] \in PCs \ {"none", "asleep", "done"}
  BY <1>1, <1>3 DEF IInv, TypeOK, PcOfThreads, WorkersEnd, Asleep
<1>. QED BY <1>4 DEF CanRun, PCs

\* Before there are workers none of them ended.
LEMMA InitWorkersEnd == Init => WorkersEnd
<1>. SUFFICES ASSUME Init PROVE WorkersEnd
  OBVIOUS
<1>1. life = "creating" /\ submitted = {} /\ queue = <<>> /\ \A w \in Workers : pc[w] = "none"
  BY DEF Init
<1>2. DOMAIN queue = {}
  BY <1>1
<1>. QED BY Zenon, <1>1, <1>2 DEF WorkersEnd

\* Workers that end only for a STOP, and STOPs for all of them, are enough.
LEMMA EndMeansNeverStuck == IInv /\ WorkersEnd => NeverStuck
<1>. SUFFICES ASSUME IInv, WorkersEnd PROVE NeverStuck
  OBVIOUS
<1>1. ASSUME NEW s \in submitted, ~completed[s], error = 0
      PROVE  \E w \in threads : CanRun(w)
  <2>1. s \in Subs /\ s # None /\ s # STOP
    BY SubsAssumption DEF IInv, TypeOK
  <2>2. Cleared(s) \/ \E w \in Workers : held[w] = s
    BY Zenon, <1>1, <2>1 DEF IInv, Placed, HasPlace
  <2>3. CASE \E w \in Workers : held[w] = s
    <3>1. PICK w \in Workers : held[w] = s
      BY Zenon, <2>3
    <3>2. pc[w] \in {"work", "hashed"}
      BY Zenon, <2>1, <3>1 DEF IInv, HeldWhileWorking
    <3>3. w \in threads
      BY <3>2 DEF IInv, PcOfThreads
    <3>. QED BY <3>2, <3>3 DEF CanRun
  <2>4. CASE Cleared(s)
    <3>1. queue # <<>> /\ ~stopped
      BY <2>1, <2>4 DEF Cleared, IInv, StopForEveryone
    <3>. QED BY Zenon, <1>1, <3>1, SomebodyAwake
  <2>. QED BY Zenon, <2>2, <2>3, <2>4
<1>2. ASSUME life = "joining", NEW w \in threads, pc[w] # "done" PROVE CanRun(w)
  <2>1. stopped /\ Asleep = {} /\ w \in Workers
    BY Zenon, <1>2 DEF WorkersEnd, IInv, TypeOK, StopForEveryone
  <2>2. pc[w] \in PCs \ {"none", "asleep", "done"}
    BY <1>2, <2>1 DEF IInv, TypeOK, PcOfThreads, Asleep
  <2>3. ASSUME pc[w] \in {"fetch", "awake"} PROVE queue # <<>>
    <3>1. w \in WillFetch
      BY <2>3 DEF WillFetch
    <3>2. IsFiniteSet(WillFetch)
      BY Zenon, WorkersAssumption, FS_Subset DEF WillFetch, IInv, TypeOK
    <3>3. Cardinality(WillFetch) \in Nat /\ Cardinality(WillFetch) # 0
      BY Zenon, <3>1, <3>2, FS_CardinalityType, FS_EmptySet
    <3>4. Cardinality(WillFetch) <= Len(queue)
      BY Zenon, <2>1 DEF IInv, StopForEveryone
    <3>. QED BY <3>3, <3>4
  <2>. QED BY <2>2, <2>3 DEF CanRun, PCs
<1>. QED BY Zenon, <1>1, <1>2 DEF NeverStuck

\* submission_wait() and the joins of stop_workers() wait for somebody who can
\* run, whatever the number of workers and whatever need_wakeup() skipped.
THEOREM PoolNeverStuck == Spec => []NeverStuck
<1>1. IInv /\ WorkersEnd /\ [Next]_vars => WorkersEnd'
  BY Zenon, NextWorkersEnd DEF AnyNext
<1>. QED BY <1>1, InitWorkersEnd, EndMeansNeverStuck, Invariance, PTL DEF Spec
=============================================================================
