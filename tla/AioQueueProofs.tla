--------------------------- MODULE AioQueueProofs ---------------------------
(***************************************************************************)
(* Proofs about AioQueue, for any number of updates, submissions and       *)
(* blocks, any queue depth and reap count, and whatever fails.             *)
(*                                                                         *)
(* The heart is the reference count: completion->refs is the number of     *)
(* submissions that did not drop their reference yet, plus one while the   *)
(* caller holds its own.  From that follows where an update is, and from   *)
(* where the updates are follows what inflight counts, so that the queue   *)
(* has room, and that the queue implements the abstract API.               *)
(***************************************************************************)
EXTENDS AioQueue, FiniteSetTheorems, TLAPS

Stages == {"free", "work", "unref", "append", "signal", "store", "end",
           "failed"}

CallerStages == {"idle", "submit", "collect", "unref", "append", "signal",
                 "end", "reap", "resignal", "refuse", "fail", "store",
                 "restore", "gave_up"}

Completion == [user_data : Updates, error : Int]

Submission == [stage : Stages, update : Updates \cup {None}, error : Int]

\* The types of the state.  That the counters do not go below zero follows
\* from the other invariants.
TypeOK ==
    /\ owner \in [Updates -> {"application", "library"}]
    /\ inflight \in Int /\ error \in Int /\ event \in Nat
    /\ cq \in Seq(Completion)
    /\ refs \in [Updates -> Int] /\ cerr \in [Updates -> Int]
    /\ slot \in [Slots -> Submission]
    /\ cpc \in CallerStages /\ cur \in Updates \cup {None}
    /\ todo \in Nat /\ perr \in Int /\ ret \in Int
    /\ broken \subseteq Updates /\ pool_error \in Int

\* The stages in which a submission, or the caller, holds a reference.
SlotHolding == {"work", "unref"}

CallerHolding == {"submit", "collect", "fail", "unref"}

\* A submission belongs to an update until its completion is queued, a failed
\* one has an error, and so has a call that is about to store one.
Busy ==
    /\ \A s \in Slots :
          /\ slot[s].stage \in SlotHolding \cup {"append"}
                => slot[s].update \in Updates
          /\ slot[s].stage = "failed" => slot[s].error # 0
    /\ cpc \in CallerHolding \cup {"append"} => cur \in Updates
    /\ cpc \in {"refuse", "fail", "store", "restore"} => perr # 0 \/ error # 0

\* completion->refs counts the holders of references.
RefsCounted ==
    \A u \in Updates :
        refs[u] = Cardinality(SlotsOf(u, SlotHolding)) + CallerAt(u, CallerHolding)

Queued(u) == \E i \in DOMAIN cq : cq[i].user_data = u

SlotAppends(s, u) == slot[s].stage = "append" /\ slot[s].update = u

CallerAppends(u) == cpc = "append" /\ cur = u

Appending(u) == CallerAppends(u) \/ \E s \in Slots : SlotAppends(s, u)

\* An update has one completion in the queue and one thread that queues it.
NotTwice ==
    /\ \A i, j \in DOMAIN cq : cq[i].user_data = cq[j].user_data => i = j
    /\ \A u \in Updates : \A s, t \in Slots :
          SlotAppends(s, u) =>
              /\ SlotAppends(t, u) => s = t
              /\ ~CallerAppends(u)

\* Where an update is: with the holders of references, then with the one that
\* appends its completion, then in the queue, and else with the application.
Where ==
    \A u \in Updates :
        /\ refs[u] > 0 => ~Appending(u) /\ ~Queued(u)
        /\ Appending(u) => ~Queued(u)
        /\ owner[u] = "library" <=> refs[u] > 0 \/ Appending(u) \/ Queued(u)

\* What inflight counts, the first half of QueueHasRoom.
InflightCounts ==
    /\ inflight \in {Cardinality(Owned),
                     Cardinality(Owned)
                       + (IF error # 0 \/ cpc = "refuse" THEN 1 ELSE 0)}
    /\ inflight <= QueueDepth

\* completion->error is set for the updates with a failed block; only between
\* the failure of do_update() and the store in blkhash_aio_update() is it late.
FailureStored ==
    /\ \A u \in Updates :
          \/ cerr[u] # 0 <=> u \in broken
          \/ cpc = "fail" /\ cur = u
    /\ cpc = "fail" => cur \in broken

Notifications == event + Signalling + Storing + (IF cpc = "reap" THEN 1 ELSE 0)

\* OneNotification, and what is left of it after an error: never two.
AtMostOne ==
    /\ Notifications <= 1
    /\ cq = <<>> => Notifications = 0
    /\ error = 0 /\ cq # <<>> => Notifications = 1

IInv ==
    /\ TypeOK
    /\ Busy
    /\ RefsCounted
    /\ NotTwice
    /\ Where
    /\ InflightCounts
    /\ FailureStored
    /\ FailureReported
    /\ AtMostOne

-----------------------------------------------------------------------------
(* Types *)

\* The steps of the caller that call FailUpdate() keep the types.
LEMMA FailUpdateType ==
    ASSUME TypeOK, NEW err \in Int, NEW stored \in Int, cur \in Updates,
           FailUpdate(err, stored)
    PROVE  /\ owner' = owner /\ inflight' = inflight /\ error' = error
           /\ event' = event /\ cq' = cq /\ refs' = refs /\ cur' = cur
           /\ ret' = ret /\ todo' = 0 /\ cpc' = "fail"
           /\ cerr' \in [Updates -> Int] /\ perr' \in Int
           /\ broken' \subseteq Updates /\ pool_error' = pool_error
BY DEF TypeOK, FailUpdate, completion_set_error, FirstError, SetErrorChecked,
       libVars

\* A completion is well typed.
LEMMA AppendType ==
    ASSUME TypeOK, NEW u \in Updates, AppendCompletion(u)
    PROVE  cq' \in Seq(Completion)
<1>1. [user_data |-> u, error |-> cerr[u]] \in Completion
  BY DEF TypeOK, Completion
<1>. QED BY <1>1 DEF TypeOK, AppendCompletion

\* The next stages of a thread.
LEMMA StageType ==
    /\ \A u : AfterUnref(u) \in {"append", "end"}
    /\ AfterAppend \in {"signal", "end"}
BY DEF AfterUnref, AfterAppend

\* A step that only moves a submission to another stage.
LEMMA SetStageMoves ==
    ASSUME TypeOK, NEW s \in Slots, NEW stage \in Stages, SetStage(s, stage)
    PROVE  /\ slot' \in [Slots -> Submission]
           /\ \A t \in Slots \ {s} : slot'[t] = slot[t]
           /\ slot'[s].stage = stage
           /\ slot'[s].update = slot[s].update
           /\ slot'[s].error = slot[s].error
BY Zenon DEF TypeOK, SetStage, Submission

\* A hashed block keeps its update, whether it failed or not.
LEMMA HashBlockMoves ==
    ASSUME TypeOK, NEW s \in Slots, HashBlock(s)
    PROVE  /\ slot' \in [Slots -> Submission]
           /\ \A t \in Slots \ {s} : slot'[t] = slot[t]
           /\ slot[s].stage = "work" /\ slot'[s].stage = "unref"
           /\ slot'[s].update = slot[s].update
<1>1. CASE SetStage(s, "unref")
  BY <1>1, SetStageMoves DEF HashBlock, Stages
<1>2. CASE slot' = [slot EXCEPT ![s].stage = "unref", ![s].error = ENOMEM]
  <2>. DEFINE r == [stage |-> "unref", update |-> slot[s].update,
                    error |-> ENOMEM]
  <2>1. slot' = [slot EXCEPT ![s] = r]
    <3>. DEFINE f == [slot EXCEPT ![s].stage = "unref"]
                q == [stage |-> "unref", update |-> slot[s].update,
                      error |-> slot[s].error]
    <3>1. slot' = [f EXCEPT ![s].error = ENOMEM]
      BY <1>2, Zenon
    <3>2. f = [slot EXCEPT ![s] = q]
      <4>1. slot[s] \in Submission /\ slot \in [Slots -> Submission]
        BY DEF TypeOK
      <4>2. [slot[s] EXCEPT !.stage = "unref"] = q
        BY <4>1 DEF Submission
      <4>. HIDE DEF q
      <4>. QED BY Zenon, <4>1, <4>2
    <3>3. f[s] = q /\ f \in [Slots -> Submission]
      BY <3>2 DEF TypeOK, Submission, Stages
    <3>4. [q EXCEPT !.error = ENOMEM] = r
      OBVIOUS
    <3>. HIDE DEF f, q, r
    <3>5. slot' = [f EXCEPT ![s] = r]
      BY Zenon, <3>1, <3>3, <3>4
    <3>. QED BY Zenon, <3>5, <3>2 DEF TypeOK
  <2>2. r \in Submission
    BY DEF TypeOK, Submission, Stages, ENOMEM
  <2>3. r.stage = "unref" /\ r.update = slot[s].update
    OBVIOUS
  <2>. HIDE DEF r
  <2>. QED BY <2>1, <2>2, <2>3 DEF HashBlock, TypeOK
<1>. QED BY <1>1, <1>2 DEF HashBlock

\* Every step keeps the types.
LEMMA NextType == IInv /\ [Next]_vars => TypeOK'
<1>. SUFFICES ASSUME IInv, [Next]_vars PROVE TypeOK'
  OBVIOUS
<1>. USE DEF IInv, libVars, callerVars
<1>1. ASSUME NEW u \in Updates, NEW n \in 0..MaxBlocks, StartUpdate(u, n)
      PROVE  TypeOK'
  BY <1>1, AioAssumption DEF StartUpdate, TypeOK, CallerStages
<1>2. ASSUME NEW u \in Updates, CompletionFails(u) \/ RefuseUpdate(u)
      PROVE  TypeOK'
  BY SMTT(30), <1>2 DEF CompletionFails, RefuseUpdate, TypeOK, CallerStages,
              SetErrorChecked, ENOMEM, EAGAIN
<1>3. CASE SubmitFails
  BY SMTT(30), <1>3, FailUpdateType DEF SubmitFails, TypeOK, Busy, CallerHolding, ENOMEM,
     CallerStages
<1>4. ASSUME NEW s \in Slots, SubmitBlock(s) PROVE TypeOK'
  BY <1>4 DEF SubmitBlock, completion_ref, TypeOK, Busy, CallerHolding,
              CallerStages, Submission, Stages
<1>5. ASSUME NEW s \in Slots, CollectFailed(s) PROVE TypeOK'
  <2>1. cur \in Updates /\ slot[s].error \in Int
    BY <1>5 DEF CollectFailed, Busy, CallerHolding, TypeOK, Submission
  <2>2. FreeSlot \in Submission
    BY DEF FreeSlot, Submission, Stages
  <2>. QED
    BY SMTT(30), <1>5, <2>1, <2>2, FailUpdateType DEF CollectFailed, TypeOK, CallerStages
<1>6. CASE Collected \/ Submitted
  BY Zenon, <1>6 DEF Collected, Submitted, TypeOK, CallerStages
<1>7. CASE StoreError
  <2>1. error' \in Int /\ ret' \in Int /\ perr' \in Int
    BY <1>7 DEF StoreError, SetErrorStored, TypeOK
  <2>2. cerr' \in [Updates -> Int]
    BY <1>7, <2>1 DEF StoreError, completion_set_error, FirstError, TypeOK
  <2>3. cpc' \in CallerStages
    BY <1>7 DEF StoreError, CallerStages
  <2>. QED BY <1>7, <2>1, <2>2, <2>3 DEF StoreError, TypeOK
<1>8. CASE CallerUnref
  <2>1. cur \in Updates
    BY <1>8 DEF CallerUnref, Busy, CallerHolding
  <2>2. refs' \in [Updates -> Int]
    BY <1>8, <2>1 DEF CallerUnref, Unref, TypeOK
  <2>. QED BY <1>8, <2>2, StageType DEF CallerUnref, TypeOK, CallerStages
<1>9. CASE CallerAppend
  <2>1. cur \in Updates
    BY <1>9 DEF CallerAppend, Busy
  <2>. QED
    BY <1>9, <2>1, StageType, AppendType DEF CallerAppend, TypeOK, CallerStages
<1>10. CASE CallerSignal \/ UpdateReturns \/ Resignal
  BY SMTT(30), <1>10 DEF CallerSignal, UpdateReturns, Resignal, event_signal,
               event_signal_fails, SetErrorChecked, EBADF, TypeOK, CallerStages
<1>11. CASE ReadEvent \/ CompletionsFail
  BY SMTT(30), <1>11, AioAssumption DEF ReadEvent, Unread, CompletionsFail, TypeOK,
     CallerStages
<1>12. CASE Completions
  <2>. DEFINE n == IF Len(cq) < ReapCount THEN Len(cq) ELSE ReapCount
  <2>1. n \in Nat /\ n <= Len(cq)
    BY AioAssumption DEF TypeOK
  <2>2. SubSeq(cq, n + 1, Len(cq)) \in Seq(Completion)
    BY <2>1 DEF TypeOK
  <2>. HIDE DEF n
  <2>. QED BY <1>12, <2>1, <2>2 DEF Completions, n, TypeOK, CallerStages
<1>13. ASSUME NEW s \in Slots, Worker(s) PROVE TypeOK'
  <2>1. CASE HashBlock(s)
    <3>1. slot[s].update \in Updates
      BY <2>1 DEF HashBlock, Busy, SlotHolding
    <3>2. slot' \in [Slots -> Submission]
      BY <2>1, HashBlockMoves
    <3>3. cerr' \in [Updates -> Int] /\ broken' \subseteq Updates
      BY SMTT(30), <2>1, <3>1 DEF HashBlock, completion_set_error, FirstError, ENOMEM,
         TypeOK
    <3>. QED BY <2>1, <3>2, <3>3 DEF HashBlock, TypeOK
  <2>2. CASE WorkerUnref(s)
    <3>1. slot[s].update \in Updates
      BY <2>2 DEF WorkerUnref, Busy, SlotHolding
    <3>2. refs' \in [Updates -> Int]
      BY <2>2, <3>1 DEF WorkerUnref, Unref, TypeOK
    <3>3. slot' \in [Slots -> Submission]
      BY <2>2, StageType, SetStageMoves DEF WorkerUnref, Stages
    <3>. QED BY <2>2, <3>2, <3>3 DEF WorkerUnref, TypeOK
  <2>3. CASE WorkerAppend(s)
    <3>1. slot[s].update \in Updates
      BY <2>3 DEF WorkerAppend, Busy
    <3>. QED
      BY Zenon, <2>3, <3>1, StageType, SetStageMoves, AppendType
      DEF WorkerAppend, TypeOK, Stages
  <2>4. CASE WorkerSignal(s)
    BY <2>4, SetStageMoves DEF WorkerSignal, event_signal, event_signal_fails,
       TypeOK, Stages
  <2>5. CASE WorkerStore(s)
    BY <2>5, SetStageMoves DEF WorkerStore, SetErrorStored, EBADF, TypeOK, Stages
  <2>6. CASE WorkerEnd(s)
    <3>1. Released(s) \in Submission
      BY DEF Released, FreeSlot, TypeOK, Submission, Stages
    <3>. QED BY <2>6, <3>1 DEF WorkerEnd, TypeOK
  <2>. QED BY <1>13, <2>1, <2>2, <2>3, <2>4, <2>5, <2>6 DEF Worker, Complete
<1>14. CASE WorkerNotStarted \/ UNCHANGED vars
  BY <1>14 DEF WorkerNotStarted, vars, TypeOK, ENOMEM
<1>. QED
  BY <1>1, <1>2, <1>3, <1>4, <1>5, <1>6, <1>7, <1>8, <1>9, <1>10, <1>11, <1>12,
     <1>13, <1>14
  DEF Next, Caller

\* The steps of the caller that call FailUpdate() leave an error to store.
LEMMA FailUpdateErrs ==
    ASSUME TypeOK, NEW err \in Int, err # 0, NEW stored, FailUpdate(err, stored)
    PROVE  perr' # 0 \/ error' # 0
BY DEF FailUpdate, SetErrorChecked, libVars

\* A submission is made for an update, and a call that fails has an error.
LEMMA NextBusy == IInv /\ [Next]_vars => Busy'
<1>. SUFFICES ASSUME IInv, [Next]_vars PROVE Busy'
  OBVIOUS
<1>. USE DEF IInv, libVars, callerVars, SlotHolding, CallerHolding
<1>1. ASSUME NEW u \in Updates, NEW n \in 0..MaxBlocks, StartUpdate(u, n)
      PROVE  Busy'
  BY <1>1 DEF StartUpdate, Busy
<1>2. ASSUME NEW u \in Updates, CompletionFails(u) \/ RefuseUpdate(u)
      PROVE  Busy'
  BY <1>2 DEF CompletionFails, RefuseUpdate, Busy, SetErrorChecked, ENOMEM
<1>3. CASE SubmitFails
  <2>1. cur \in Updates
    BY <1>3 DEF SubmitFails, Busy
  <2>2. perr' # 0 \/ error' # 0
    BY <1>3, FailUpdateErrs DEF SubmitFails, ENOMEM, TypeOK
  <2>. QED BY <1>3, <2>1, <2>2 DEF SubmitFails, FailUpdate, Busy
<1>4. ASSUME NEW s \in Slots, SubmitBlock(s) PROVE Busy'
  BY <1>4 DEF SubmitBlock, Busy, TypeOK
<1>5. ASSUME NEW s \in Slots, CollectFailed(s) PROVE Busy'
  <2>1. /\ cur \in Updates
        /\ slot[s].error \in Int \ {0}
    BY <1>5 DEF CollectFailed, Busy, TypeOK, Submission
  <2>2. perr' # 0 \/ error' # 0
    BY <1>5, <2>1, FailUpdateErrs DEF CollectFailed
  <2>3. \A t \in Slots : slot'[t] = slot[t] \/ slot'[t].stage = "free"
    BY <1>5 DEF CollectFailed, FreeSlot, TypeOK
  <2>. QED BY Zenon, <1>5, <2>1, <2>2, <2>3 DEF CollectFailed, FailUpdate, Busy
<1>6. CASE Collected \/ Submitted \/ CallerUnref \/ CallerAppend \/ UpdateReturns
           \/ ReadEvent \/ CompletionsFail \/ Completions
  <2>1. UNCHANGED <<slot, perr, error>> /\ (cur' = cur \/ cpc' = "idle")
    BY Zenon, <1>6 DEF Collected, Submitted, CallerUnref, CallerAppend, UpdateReturns,
       ReadEvent, CompletionsFail, Completions
  <2>2. /\ cpc' \in CallerHolding \cup {"append"} => cpc \in CallerHolding
        /\ cpc' \notin {"refuse", "fail", "store", "restore"}
    BY <1>6, StageType DEF Collected, Submitted, CallerUnref, CallerAppend,
       UpdateReturns, ReadEvent, CompletionsFail, Completions
  <2>. QED BY Zenon, <2>1, <2>2 DEF Busy
<1>7. CASE StoreError
  BY Zenon, <1>7 DEF StoreError, Busy
<1>8. CASE CallerSignal \/ Resignal
  BY <1>8 DEF CallerSignal, Resignal, SetErrorChecked, EBADF, Busy
<1>9. ASSUME NEW s \in Slots, Worker(s) PROVE Busy'
  <2>1. CASE HashBlock(s)
    <3>1. UNCHANGED <<callerVars, error>>
      BY Zenon, <2>1 DEF HashBlock
    <3>. QED BY <2>1, <3>1, HashBlockMoves DEF Busy
  <2>2. CASE WorkerUnref(s)
    <3>1. PICK stage \in {"append", "end"} : SetStage(s, stage)
      BY <2>2, StageType DEF WorkerUnref
    <3>. QED BY Zenon, <2>2, <3>1, SetStageMoves DEF WorkerUnref, Stages, Busy
  <2>3. CASE WorkerAppend(s) \/ WorkerSignal(s) \/ WorkerStore(s)
    <3>1. PICK stage \in {"signal", "store", "end"} : SetStage(s, stage)
      BY <2>3, StageType DEF WorkerAppend, WorkerSignal, WorkerStore
    <3>2. UNCHANGED callerVars /\ (error # 0 => error' # 0)
      BY <2>3 DEF WorkerAppend, WorkerSignal, WorkerStore, SetErrorStored, EBADF
    <3>. QED BY <3>1, <3>2, SetStageMoves DEF Stages, Busy
  <2>4. CASE WorkerEnd(s)
    <3>1. /\ \A t \in Slots \ {s} : slot'[t] = slot[t]
          /\ slot'[s] = Released(s)
      BY <2>4 DEF WorkerEnd, TypeOK
    <3>2. \/ Released(s).stage = "free"
          \/ Released(s).stage = "failed" /\ Released(s).error # 0
      BY DEF Released, FreeSlot
    <3>. QED BY <2>4, <3>1, <3>2 DEF WorkerEnd, Busy
  <2>. QED BY Zenon, <1>9, <2>1, <2>2, <2>3, <2>4 DEF Worker, Complete
<1>10. CASE WorkerNotStarted \/ UNCHANGED vars
  BY <1>10 DEF WorkerNotStarted, vars, Busy
<1>. QED
  BY <1>1, <1>2, <1>3, <1>4, <1>5, <1>6, <1>7, <1>8, <1>9, <1>10
  DEF Next, Caller

-----------------------------------------------------------------------------
(* References *)

\* The submissions of an update are finitely many.
LEMMA SlotsFinite ==
    ASSUME NEW u, NEW stages
    PROVE  /\ IsFiniteSet(SlotsOf(u, stages))
           /\ Cardinality(SlotsOf(u, stages)) \in Nat
           /\ Cardinality(SlotsOf(u, stages)) = 0 <=> SlotsOf(u, stages) = {}
<1>1. SlotsOf(u, stages) \subseteq Slots
  BY DEF SlotsOf
<1>. QED BY <1>1, AioAssumption, FS_Subset, FS_CardinalityType, FS_EmptySet

\* A count of references is positive as long as somebody holds one.
LEMMA RefsOfHolders ==
    ASSUME RefsCounted, NEW u \in Updates
    PROVE  /\ refs[u] \in Nat
           /\ refs[u] = 0 => SlotsOf(u, SlotHolding) = {}
           /\ cur = u /\ cpc \in CallerHolding => refs[u] > 0
           /\ \A s \in SlotsOf(u, SlotHolding) : refs[u] > 0
BY SlotsFinite DEF RefsCounted, CallerAt

\* A step that changes neither the references nor who appends a completion,
\* nor the queue.
PlacesKept ==
    /\ UNCHANGED <<owner, refs, cq>>
    /\ \A u \in Updates :
          /\ SlotsOf(u, SlotHolding)' = SlotsOf(u, SlotHolding)
          /\ CallerAt(u, CallerHolding)' = CallerAt(u, CallerHolding)
          /\ CallerAppends(u)' <=> CallerAppends(u)
          /\ \A s \in Slots : SlotAppends(s, u)' <=> SlotAppends(s, u)

\* Such are the steps of the caller around submitting, signalling and reaping.
LEMMA CallerKeepsPlaces ==
    ASSUME IInv,
           \/ \E u \in Updates : CompletionFails(u) \/ RefuseUpdate(u)
           \/ SubmitFails \/ Collected \/ Submitted \/ StoreError
           \/ \E s \in Slots : CollectFailed(s)
           \/ CallerSignal \/ UpdateReturns \/ ReadEvent \/ CompletionsFail
           \/ Resignal \/ WorkerNotStarted \/ UNCHANGED vars
    PROVE  PlacesKept
<1>. USE DEF IInv, libVars, callerVars
<1>1. UNCHANGED <<owner, refs, cq>>
  BY DEF CompletionFails, RefuseUpdate, SubmitFails, Collected, Submitted,
     StoreError, CollectFailed, FailUpdate, CallerSignal, UpdateReturns,
     ReadEvent, CompletionsFail, Resignal, WorkerNotStarted, vars
<1>2. /\ cur' = cur \/ (cpc = "end" /\ cpc' = "idle")
      /\ cpc' \in CallerHolding <=> cpc \in CallerHolding
      /\ cpc' = "append" <=> cpc = "append"
  BY DEF CompletionFails, RefuseUpdate, SubmitFails, Collected, Submitted,
     StoreError, CollectFailed, FailUpdate, CallerSignal, UpdateReturns,
     ReadEvent, CompletionsFail, Resignal, WorkerNotStarted, vars, CallerHolding
<1>3. \A u \in Updates :
        /\ CallerAt(u, CallerHolding)' = CallerAt(u, CallerHolding)
        /\ CallerAppends(u)' <=> CallerAppends(u)
  BY <1>2 DEF CallerAt, CallerAppends, CallerHolding
<1>4. \A t \in Slots :
        \/ slot'[t] = slot[t]
        \/ slot[t].stage = "failed" /\ slot'[t].stage = "free"
  <2>1. CASE UNCHANGED slot
    BY <2>1
  <2>2. ASSUME NEW s \in Slots, CollectFailed(s)
        PROVE  \A t \in Slots :
                  \/ slot'[t] = slot[t]
                  \/ slot[t].stage = "failed" /\ slot'[t].stage = "free"
    BY <2>2 DEF CollectFailed, FreeSlot, TypeOK
  <2>. QED
    BY <2>1, <2>2 DEF CompletionFails, RefuseUpdate, SubmitFails, Collected,
       Submitted, StoreError, CallerSignal, UpdateReturns, ReadEvent,
       CompletionsFail, Resignal, WorkerNotStarted, vars
<1>5. \A u \in Updates :
        /\ SlotsOf(u, SlotHolding)' = SlotsOf(u, SlotHolding)
        /\ \A s \in Slots : SlotAppends(s, u)' <=> SlotAppends(s, u)
  BY <1>4 DEF SlotsOf, SlotAppends, SlotHolding
<1>. QED BY <1>1, <1>3, <1>5 DEF PlacesKept

\* So are the steps of a worker before it drops its reference and after it
\* queued a completion.
LEMMA WorkerKeepsPlaces ==
    ASSUME IInv, NEW s \in Slots,
           HashBlock(s) \/ WorkerSignal(s) \/ WorkerStore(s) \/ WorkerEnd(s)
    PROVE  PlacesKept
<1>. USE DEF IInv, libVars, callerVars
<1>1. UNCHANGED <<owner, refs, cq, callerVars>>
  BY DEF HashBlock, WorkerSignal, WorkerStore, WorkerEnd
<1>2. /\ \A t \in Slots \ {s} : slot'[t] = slot[t]
      /\ \/ /\ slot[s].stage \in SlotHolding /\ slot'[s].stage \in SlotHolding
            /\ slot'[s].update = slot[s].update
         \/ /\ slot[s].stage \notin SlotHolding \cup {"append"}
            /\ slot'[s].stage \notin SlotHolding \cup {"append"}
  <2>1. CASE HashBlock(s)
    BY <2>1, HashBlockMoves DEF SlotHolding
  <2>2. CASE WorkerSignal(s) \/ WorkerStore(s)
    <3>1. PICK stage \in {"store", "end"} : SetStage(s, stage)
      BY <2>2 DEF WorkerSignal, WorkerStore
    <3>. QED
      BY <2>2, <3>1, SetStageMoves DEF WorkerSignal, WorkerStore, SlotHolding,
         Stages
  <2>3. CASE WorkerEnd(s)
    BY <2>3 DEF WorkerEnd, Released, FreeSlot, SlotHolding, TypeOK
  <2>. QED BY <2>1, <2>2, <2>3
<1>3. \A u \in Updates :
        /\ SlotsOf(u, SlotHolding)' = SlotsOf(u, SlotHolding)
        /\ \A t \in Slots : SlotAppends(t, u)' <=> SlotAppends(t, u)
  BY <1>2 DEF SlotsOf, SlotAppends, SlotHolding
<1>. QED BY <1>1, <1>3 DEF PlacesKept, CallerAt, CallerAppends

\* completion_ref() and completion_unref() keep completion->refs the number
\* of references.
LEMMA NextRefsCounted == IInv /\ [Next]_vars => RefsCounted'
<1>. SUFFICES ASSUME IInv, [Next]_vars PROVE RefsCounted'
  OBVIOUS
<1>. USE DEF IInv, libVars, callerVars
<1>0. ASSUME refs' = refs,
             \A u \in Updates :
                /\ SlotsOf(u, SlotHolding)' = SlotsOf(u, SlotHolding)
                /\ CallerAt(u, CallerHolding)' = CallerAt(u, CallerHolding)
      PROVE  RefsCounted'
  BY <1>0 DEF RefsCounted
<1>1. ASSUME NEW u \in Updates, NEW n \in 0..MaxBlocks, StartUpdate(u, n)
      PROVE  RefsCounted'
  <2>1. refs[u] = 0
    BY <1>1, RefsOfHolders DEF StartUpdate, Where
  <2>2. Cardinality(SlotsOf(u, SlotHolding)) = 0
    BY <2>1, RefsOfHolders, SlotsFinite
  <2>3. \A v \in Updates :
          /\ SlotsOf(v, SlotHolding)' = SlotsOf(v, SlotHolding)
          /\ CallerAt(v, CallerHolding) = 0
          /\ CallerAt(v, CallerHolding)' = IF v = u THEN 1 ELSE 0
    BY <1>1 DEF StartUpdate, SlotsOf, CallerAt, CallerHolding
  <2>4. \A v \in Updates : refs'[v] = IF v = u THEN 1 ELSE refs[v]
    BY <1>1 DEF StartUpdate, TypeOK
  <2>5. \A v \in Updates : Cardinality(SlotsOf(v, SlotHolding)) \in Nat
    BY SlotsFinite
  <2>6. \A v \in Updates :
          Cardinality(SlotsOf(v, SlotHolding))'
            = Cardinality(SlotsOf(v, SlotHolding))
    BY <2>3
  <2>. QED BY <2>2, <2>3, <2>4, <2>5, <2>6 DEF RefsCounted
<1>2. ASSUME NEW s \in Slots, SubmitBlock(s) PROVE RefsCounted'
  <2>1. cur \in Updates /\ cur' = cur
    BY <1>2 DEF SubmitBlock, Busy, CallerHolding
  <2>2. /\ \A t \in Slots \ {s} : slot'[t] = slot[t]
        /\ slot[s].stage = "free"
        /\ slot'[s].stage = "work" /\ slot'[s].update = cur
    BY <1>2 DEF SubmitBlock, TypeOK
  <2>3. \A v \in Updates : refs'[v] = IF v = cur THEN refs[v] + 1 ELSE refs[v]
    BY <1>2 DEF SubmitBlock, completion_ref, TypeOK
  <2>4. \A v \in Updates :
          SlotsOf(v, SlotHolding)' = IF v = cur THEN SlotsOf(v, SlotHolding) \cup {s}
                                     ELSE SlotsOf(v, SlotHolding)
    BY <2>1, <2>2 DEF SlotsOf, SlotHolding
  <2>5. \A v \in Updates : s \notin SlotsOf(v, SlotHolding)
    BY <2>2 DEF SlotsOf, SlotHolding
  <2>6. \A v \in Updates :
          CallerAt(v, CallerHolding)' = CallerAt(v, CallerHolding)
    BY <1>2 DEF SubmitBlock, CallerAt, CallerHolding
  <2>7. \A v \in Updates :
          Cardinality(SlotsOf(v, SlotHolding))'
            = IF v = cur THEN Cardinality(SlotsOf(v, SlotHolding)) + 1
              ELSE Cardinality(SlotsOf(v, SlotHolding))
    BY <2>4, <2>5, SlotsFinite, FS_AddElement
  <2>8. \A v \in Updates : /\ Cardinality(SlotsOf(v, SlotHolding)) \in Nat
                           /\ CallerAt(v, CallerHolding) \in Nat
    BY SlotsFinite DEF CallerAt
  <2>. QED BY <2>3, <2>6, <2>7, <2>8 DEF RefsCounted
<1>3. CASE CallerUnref
  <2>1. cur \in Updates
    BY <1>3 DEF CallerUnref, Busy, CallerHolding
  <2>2. \A v \in Updates : refs'[v] = IF v = cur THEN refs[v] - 1 ELSE refs[v]
    BY <1>3, <2>1 DEF CallerUnref, Unref, TypeOK
  <2>3. \A v \in Updates :
          /\ SlotsOf(v, SlotHolding)' = SlotsOf(v, SlotHolding)
          /\ CallerAt(v, CallerHolding) = IF v = cur THEN 1 ELSE 0
          /\ CallerAt(v, CallerHolding)' = 0
    BY <1>3, StageType DEF CallerUnref, SlotsOf, CallerAt, CallerHolding
  <2>4. \A v \in Updates :
          /\ Cardinality(SlotsOf(v, SlotHolding)) \in Nat
          /\ Cardinality(SlotsOf(v, SlotHolding))'
               = Cardinality(SlotsOf(v, SlotHolding))
    BY <2>3, SlotsFinite
  <2>. QED BY <2>2, <2>3, <2>4 DEF RefsCounted
<1>4. ASSUME NEW s \in Slots, WorkerUnref(s) PROVE RefsCounted'
  <2>1. slot[s].update \in Updates
    BY <1>4 DEF WorkerUnref, Busy, SlotHolding
  <2>. DEFINE u == slot[s].update
  <2>2. PICK stage \in {"append", "end"} : SetStage(s, stage)
    BY <1>4, StageType DEF WorkerUnref
  <2>3. /\ \A t \in Slots \ {s} : slot'[t] = slot[t]
        /\ slot'[s].stage \notin SlotHolding
        /\ slot[s].stage \in SlotHolding
    BY <1>4, <2>2, SetStageMoves DEF WorkerUnref, SlotHolding, Stages
  <2>4. \A v \in Updates : refs'[v] = IF v = u THEN refs[v] - 1 ELSE refs[v]
    BY <1>4, <2>1 DEF WorkerUnref, Unref, TypeOK
  <2>5. \A v \in Updates :
          /\ SlotsOf(v, SlotHolding)' = SlotsOf(v, SlotHolding) \ {s}
          /\ s \in SlotsOf(v, SlotHolding) <=> v = u
    BY <2>3 DEF SlotsOf
  <2>6. \A v \in Updates :
          Cardinality(SlotsOf(v, SlotHolding))'
            = IF v = u THEN Cardinality(SlotsOf(v, SlotHolding)) - 1
              ELSE Cardinality(SlotsOf(v, SlotHolding))
    BY <2>5, SlotsFinite, FS_RemoveElement
  <2>7. \A v \in Updates :
          CallerAt(v, CallerHolding)' = CallerAt(v, CallerHolding)
    BY <1>4 DEF WorkerUnref, CallerAt
  <2>8. \A v \in Updates : /\ Cardinality(SlotsOf(v, SlotHolding)) \in Nat
                           /\ CallerAt(v, CallerHolding) \in Nat
    BY SlotsFinite DEF CallerAt
  <2>. HIDE DEF u
  <2>. QED BY <2>4, <2>6, <2>7, <2>8 DEF RefsCounted
<1>5. CASE CallerAppend \/ Completions
  <2>1. /\ UNCHANGED <<refs, slot, cur>>
        /\ cpc \notin CallerHolding /\ cpc' \notin CallerHolding
    BY <1>5, StageType DEF CallerAppend, Completions, CallerHolding
  <2>. QED BY <1>0, <2>1 DEF SlotsOf, CallerAt
<1>6. ASSUME NEW s \in Slots, WorkerAppend(s) PROVE RefsCounted'
  <2>1. PICK stage \in {"signal", "end"} : SetStage(s, stage)
    BY <1>6, StageType DEF WorkerAppend
  <2>2. /\ \A t \in Slots \ {s} : slot'[t] = slot[t]
        /\ slot'[s].stage \notin SlotHolding
        /\ slot[s].stage \notin SlotHolding
        /\ UNCHANGED <<refs, cur, cpc>>
    BY <1>6, <2>1, SetStageMoves DEF WorkerAppend, SlotHolding, Stages
  <2>. QED BY <1>0, <2>2 DEF SlotsOf, CallerAt
<1>7. ASSUME PlacesKept PROVE RefsCounted'
  BY <1>0, <1>7 DEF PlacesKept
<1>. QED
  BY <1>1, <1>2, <1>3, <1>4, <1>5, <1>6, <1>7, CallerKeepsPlaces,
     WorkerKeepsPlaces
  DEF Next, Caller, Worker, Complete

-----------------------------------------------------------------------------
(* Where an update is *)

\* The queue holds completions.
LEMMA QueueOfCompletions ==
    ASSUME TypeOK
    PROVE  \A i \in DOMAIN cq : cq[i].user_data \in Updates /\ cq[i].error \in Int
<1>1. \A i \in DOMAIN cq : cq[i] \in Completion
  BY DEF TypeOK
<1>. QED BY <1>1 DEF Completion

\* What appending a completion does to the queue.
LEMMA AppendQueues ==
    ASSUME TypeOK, NEW u \in Updates, AppendCompletion(u)
    PROVE  /\ Len(cq) \in Nat /\ Len(cq') = Len(cq) + 1
           /\ DOMAIN cq' = DOMAIN cq \cup {Len(cq) + 1}
           /\ \A i \in DOMAIN cq : cq'[i] = cq[i]
           /\ cq'[Len(cq) + 1].user_data = u
           /\ cq'[Len(cq) + 1].error = cerr[u]
           /\ \A v \in Updates : Queued(v)' <=> Queued(v) \/ v = u
<1>. DEFINE c == [user_data |-> u, error |-> cerr[u]]
<1>1. c \in Completion /\ c.user_data = u /\ c.error = cerr[u]
  BY DEF TypeOK, Completion
<1>2. cq' = Append(cq, c) /\ cq \in Seq(Completion)
  BY DEF TypeOK, AppendCompletion
<1>. HIDE DEF c
<1>3. /\ Len(cq) \in Nat /\ Len(cq') = Len(cq) + 1
      /\ DOMAIN cq' = DOMAIN cq \cup {Len(cq) + 1}
      /\ \A i \in DOMAIN cq : cq'[i] = cq[i]
      /\ cq'[Len(cq) + 1] = c
  BY <1>1, <1>2
<1>4. \A v \in Updates : Queued(v)' <=> Queued(v) \/ v = u
  BY <1>1, <1>3 DEF Queued
<1>. QED BY <1>1, <1>3, <1>4

\* The number of completions that blkhash_aio_completions() reaps.
Reaped == IF Len(cq) < ReapCount THEN Len(cq) ELSE ReapCount

\* Entries that are moved by the same distance stay apart.
LEMMA SameShift == \A a, b, c \in Int : a + c = b + c => a = b
BY SMTT(30)

\* What blkhash_aio_completions() leaves in the queue and changes.
LEMMA ReapsQueue ==
    ASSUME IInv, Completions
    PROVE  /\ Reaped \in 0..Len(cq) /\ Len(cq) \in Nat
           /\ cq' = SubSeq(cq, Reaped + 1, Len(cq))
           /\ Len(cq') = Len(cq) - Reaped
           /\ DOMAIN cq = 1..Len(cq) /\ DOMAIN cq' = 1..(Len(cq) - Reaped)
           /\ \A i \in DOMAIN cq' : cq'[i] = cq[i + Reaped]
           /\ inflight' = inflight - Reaped
           /\ owner' = [u \in Updates |->
                           IF \E i \in 1..Reaped : cq[i].user_data = u
                           THEN "application" ELSE owner[u]]
           /\ cpc = "reap" /\ error = 0
           /\ cpc' = IF Reaped > 0 /\ Reaped < Len(cq) THEN "resignal" ELSE "idle"
           /\ UNCHANGED <<event, error, refs, cerr, slot, cur, todo, perr, broken>>
<1>1. Reaped \in 0..Len(cq) /\ Len(cq) \in Nat /\ cq \in Seq(Completion)
  BY AioAssumption DEF Reaped, IInv, TypeOK
<1>2. /\ cq' = SubSeq(cq, Reaped + 1, Len(cq))
      /\ inflight' = inflight - Reaped
      /\ cpc = "reap" /\ error = 0
      /\ cpc' = IF Reaped > 0 /\ Reaped < Len(cq) THEN "resignal" ELSE "idle"
      /\ UNCHANGED <<event, error, refs, cerr, slot, cur, todo, perr, broken>>
  BY DEF Completions, HaveMore, Reaped
<1>3. owner' = [u \in Updates |->
                  IF u \in {cq[i].user_data : i \in 1..Reaped}
                  THEN "application" ELSE owner[u]]
  BY DEF Completions, Reaped
<1>. HIDE DEF Reaped
<1>4. owner' = [u \in Updates |->
                  IF \E i \in 1..Reaped : cq[i].user_data = u
                  THEN "application" ELSE owner[u]]
  BY <1>3
<1>5. /\ Len(cq') = Len(cq) - Reaped
      /\ DOMAIN cq = 1..Len(cq) /\ DOMAIN cq' = 1..(Len(cq) - Reaped)
      /\ \A i \in DOMAIN cq' : cq'[i] = cq[i + Reaped]
  BY <1>1, <1>2
<1>. QED BY Zenon, <1>1, <1>2, <1>4, <1>5

\* The completions that are left and those that are reaped.
LEMMA ReapsSome ==
    ASSUME IInv, Completions, NEW u \in Updates
    PROVE  /\ Queued(u) <=> \/ Queued(u)'
                            \/ \E i \in 1..Reaped : cq[i].user_data = u
           /\ Queued(u)' => ~\E i \in 1..Reaped : cq[i].user_data = u
<1>. USE DEF Queued
<1>0. PICK r \in Nat : r = Reaped
  BY ReapsQueue
<1>1. /\ r <= Len(cq) /\ Len(cq) \in Nat
      /\ DOMAIN cq = 1..Len(cq) /\ DOMAIN cq' = 1..(Len(cq) - r)
      /\ \A i \in DOMAIN cq' : cq'[i] = cq[i + r]
  BY <1>0, ReapsQueue
<1>2. Queued(u)' => \E j \in DOMAIN cq : j > r /\ cq[j].user_data = u
  <2>. SUFFICES ASSUME NEW i \in DOMAIN cq', cq'[i].user_data = u
                PROVE  \E j \in DOMAIN cq : j > r /\ cq[j].user_data = u
    OBVIOUS
  <2>1. i + r \in DOMAIN cq /\ i + r > r
    BY <1>1
  <2>. QED BY <1>1, <2>1
<1>3. ASSUME NEW j \in DOMAIN cq, j > r, cq[j].user_data = u
      PROVE  Queued(u)'
  <2>1. PICK i \in Int : i = j - r
    BY <1>1, <1>3
  <2>2. i \in DOMAIN cq' /\ i + r = j
    BY <1>1, <1>3, <2>1
  <2>3. cq'[i] = cq[j]
    BY <1>1, <2>2
  <2>. QED BY <1>3, <2>2, <2>3
<1>4. ASSUME NEW i \in DOMAIN cq, NEW j \in DOMAIN cq,
             cq[i].user_data = cq[j].user_data
      PROVE  i = j
  BY <1>4 DEF IInv, NotTwice
<1>5. \A i \in 1..r : i \in DOMAIN cq /\ ~(i > r)
  BY <1>1
<1>6. \A j \in DOMAIN cq : j > r \/ j \in 1..r
  BY <1>1
<1>. QED BY Zenon, <1>0, <1>2, <1>3, <1>4, <1>5, <1>6

\* Dropping a reference moves the update on only if it was the last one.
LEMMA UnrefCounts ==
    ASSUME IInv, NEW u \in Updates, Unref(u), refs[u] > 0
    PROVE  /\ \A v \in Updates : refs'[v] = IF v = u THEN refs[v] - 1 ELSE refs[v]
           /\ AfterUnref(u) = "append" => refs'[u] = 0
           /\ AfterUnref(u) # "append" => AfterUnref(u) = "end" /\ refs'[u] > 0
           /\ ~Appending(u) /\ ~Queued(u) /\ owner[u] = "library"
BY RefsOfHolders DEF IInv, TypeOK, Unref, AfterUnref, Where

\* An update moves from the holders of references to the one that dropped the
\* last, from there to the queue, and back to the application.
LEMMA NextWhere == IInv /\ [Next]_vars => NotTwice' /\ Where'
<1>. SUFFICES ASSUME IInv, [Next]_vars PROVE NotTwice' /\ Where'
  BY Zenon
<1>. USE DEF IInv, libVars, callerVars
<1>1. ASSUME NEW u \in Updates, NEW n \in 0..MaxBlocks, StartUpdate(u, n)
      PROVE  NotTwice' /\ Where'
  <2>1. /\ UNCHANGED <<cq, slot>> /\ cpc = "idle" /\ cpc' = "submit"
        /\ \A v \in Updates : /\ refs'[v] = IF v = u THEN 1 ELSE refs[v]
                              /\ owner'[v] = IF v = u THEN "library" ELSE owner[v]
        /\ owner[u] = "application"
    BY Zenon, <1>1 DEF StartUpdate, TypeOK
  <2>2. \A v \in Updates : /\ Queued(v)' <=> Queued(v)
                           /\ Appending(v)' <=> Appending(v)
                           /\ \A s \in Slots : SlotAppends(s, v)' <=> SlotAppends(s, v)
                           /\ ~CallerAppends(v)'
    BY <2>1 DEF Queued, Appending, SlotAppends, CallerAppends
  <2>3. NotTwice'
    BY Zenon, <2>1, <2>2 DEF NotTwice
  <2>. QED BY <2>1, <2>2, <2>3 DEF Where
<1>2. ASSUME NEW s \in Slots, SubmitBlock(s) PROVE NotTwice' /\ Where'
  <2>1. cur \in Updates /\ refs[cur] > 0
    BY <1>2, RefsOfHolders DEF SubmitBlock, Busy, CallerHolding
  <2>2. /\ UNCHANGED <<cq, owner>> /\ cpc = "submit" /\ cpc' = "collect"
        /\ \A v \in Updates : refs'[v] = IF v = cur THEN refs[v] + 1 ELSE refs[v]
        /\ \A t \in Slots \ {s} : slot'[t] = slot[t]
        /\ slot[s].stage = "free" /\ slot'[s].stage = "work"
    BY <1>2 DEF SubmitBlock, completion_ref, TypeOK
  <2>3. \A v \in Updates : refs[v] \in Int
    BY DEF TypeOK
  <2>4. \A v \in Updates : /\ Queued(v)' <=> Queued(v)
                           /\ Appending(v)' <=> Appending(v)
                           /\ \A t \in Slots : SlotAppends(t, v)' <=> SlotAppends(t, v)
                           /\ ~CallerAppends(v)'
    BY <2>2 DEF Queued, Appending, SlotAppends, CallerAppends
  <2>5. NotTwice'
    BY Zenon, <2>2, <2>4 DEF NotTwice
  <2>6. \A v \in Updates : refs'[v] > 0 <=> refs[v] > 0
    BY <2>1, <2>2, <2>3
  <2>. QED BY Zenon, <2>2, <2>4, <2>5, <2>6 DEF Where
<1>3. CASE CallerUnref
  <2>1. cur \in Updates /\ refs[cur] > 0
    BY <1>3, RefsOfHolders DEF CallerUnref, Busy, CallerHolding
  <2>2. /\ UNCHANGED <<cq, owner, slot, cur>> /\ cpc = "unref"
        /\ cpc' = AfterUnref(cur) /\ Unref(cur)
    BY <1>3 DEF CallerUnref
  <2>3. \A v \in Updates :
          /\ Queued(v)' <=> Queued(v)
          /\ \A t \in Slots : SlotAppends(t, v)' <=> SlotAppends(t, v)
          /\ CallerAppends(v)' <=> v = cur /\ AfterUnref(cur) = "append"
          /\ ~CallerAppends(v)
    BY Zenon, <2>2 DEF Queued, SlotAppends, CallerAppends
  <2>4. NotTwice'
    BY <2>1, <2>2, <2>3, UnrefCounts DEF NotTwice, Appending
  <2>5. \A v \in Updates :
          Appending(v)' <=> Appending(v) \/ (v = cur /\ AfterUnref(cur) = "append")
    BY <2>3 DEF Appending
  <2>6. /\ \A v \in Updates : v # cur => refs'[v] = refs[v]
        /\ AfterUnref(cur) = "append" => refs'[cur] = 0
        /\ AfterUnref(cur) # "append" => refs'[cur] > 0
        /\ ~Appending(cur) /\ ~Queued(cur) /\ owner[cur] = "library"
    BY Zenon, <2>1, <2>2, UnrefCounts
  <2>7. AfterUnref(cur) = "append" => ~(refs'[cur] > 0)
    BY <2>6
  <2>. QED BY Zenon, <2>1, <2>2, <2>3, <2>4, <2>5, <2>6, <2>7 DEF Where
<1>4. ASSUME NEW s \in Slots, WorkerUnref(s) PROVE NotTwice' /\ Where'
  <2>. DEFINE u == slot[s].update
  <2>1. u \in Updates /\ refs[u] > 0
    <3>1. u \in Updates /\ s \in SlotsOf(u, SlotHolding)
      BY Zenon, <1>4 DEF WorkerUnref, Busy, SlotHolding, SlotsOf
    <3>. QED BY <3>1, RefsOfHolders
  <2>2. /\ UNCHANGED <<cq, owner, callerVars>>
        /\ Unref(u) /\ SetStage(s, AfterUnref(u))
        /\ slot[s].stage = "unref"
    BY <1>4 DEF WorkerUnref
  <2>3. /\ \A t \in Slots \ {s} : slot'[t] = slot[t]
        /\ slot'[s].stage = AfterUnref(u) /\ slot'[s].update = u
    BY <2>2, StageType, SetStageMoves DEF Stages
  <2>. HIDE DEF u
  <2>4. \A v \in Updates :
          /\ Queued(v)' <=> Queued(v)
          /\ \A t \in Slots :
                SlotAppends(t, v)' <=>
                    \/ SlotAppends(t, v)
                    \/ t = s /\ v = u /\ AfterUnref(u) = "append"
          /\ CallerAppends(v)' <=> CallerAppends(v)
    BY <2>2, <2>3 DEF Queued, SlotAppends, CallerAppends
  <2>a. /\ \A v \in Updates : refs'[v] = IF v = u THEN refs[v] - 1 ELSE refs[v]
        /\ AfterUnref(u) = "append" => refs'[u] = 0
        /\ AfterUnref(u) # "append" => refs'[u] > 0
        /\ ~Appending(u) /\ ~Queued(u) /\ owner[u] = "library"
    BY <2>1, <2>2, UnrefCounts
  <2>5. NotTwice'
    <3>1. \A i, j \in DOMAIN cq' : cq'[i].user_data = cq'[j].user_data => i = j
      BY <2>2 DEF NotTwice
    <3>2. \A t \in Slots : ~SlotAppends(t, u) /\ ~CallerAppends(u)
      BY <2>a DEF Appending
    <3>3. \A v \in Updates : \A t, r \in Slots :
            SlotAppends(t, v)' =>
                /\ SlotAppends(r, v)' => t = r
                /\ ~CallerAppends(v)'
      BY <2>4, <3>2 DEF NotTwice
    <3>. QED BY Zenon, <3>1, <3>3 DEF NotTwice
  <2>6. \A v \in Updates :
          Appending(v)' <=> Appending(v) \/ (v = u /\ AfterUnref(u) = "append")
    BY Zenon, <2>4 DEF Appending
  <2>7. ASSUME NEW v \in Updates, v # u
        PROVE  /\ refs'[v] > 0 => ~Appending(v)' /\ ~Queued(v)'
               /\ Appending(v)' => ~Queued(v)'
               /\ owner'[v] = "library" <=> refs'[v] > 0 \/ Appending(v)' \/ Queued(v)'
    BY Zenon, <2>2, <2>4, <2>6, <2>7, <2>a DEF Where
  <2>8. ASSUME NEW v \in Updates, v = u
        PROVE  /\ refs'[v] > 0 => ~Appending(v)' /\ ~Queued(v)'
               /\ Appending(v)' => ~Queued(v)'
               /\ owner'[v] = "library" <=> refs'[v] > 0 \/ Appending(v)' \/ Queued(v)'
    <3>1. (Appending(v)' <=> AfterUnref(u) = "append") /\ ~Queued(v)'
      BY Zenon, <2>4, <2>6, <2>8, <2>a
    <3>2. owner'[v] = "library" /\ (refs'[v] = 0 => ~(refs'[v] > 0))
      BY <2>2, <2>8, <2>a
    <3>. QED BY Zenon, <2>8, <2>a, <3>1, <3>2
  <2>9. \A v \in Updates :
          /\ refs'[v] > 0 => ~Appending(v)' /\ ~Queued(v)'
          /\ Appending(v)' => ~Queued(v)'
          /\ owner'[v] = "library" <=> refs'[v] > 0 \/ Appending(v)' \/ Queued(v)'
    BY Zenon, <2>7, <2>8
  <2>. QED BY <2>5, <2>9 DEF Where
<1>5. CASE CallerAppend
  <2>1. /\ cur \in Updates /\ CallerAppends(cur)
        /\ AppendCompletion(cur) /\ UNCHANGED <<owner, refs, slot, cur>>
        /\ cpc = "append" /\ cpc' # "append"
    BY <1>5, StageType DEF CallerAppend, Busy, CallerAppends
  <2>2. /\ \A v \in Updates : Queued(v)' <=> Queued(v) \/ v = cur
        /\ DOMAIN cq' = DOMAIN cq \cup {Len(cq) + 1}
        /\ \A i \in DOMAIN cq : cq'[i] = cq[i]
        /\ cq'[Len(cq) + 1].user_data = cur
    BY Zenon, <2>1, AppendQueues
  <2>3. Appending(cur) /\ ~Queued(cur)
    BY <2>1 DEF Appending, Where
  <2>4. \A v \in Updates :
          /\ \A t \in Slots : SlotAppends(t, v)' <=> SlotAppends(t, v)
          /\ CallerAppends(v) <=> v = cur
          /\ ~CallerAppends(v)'
    BY <2>1 DEF SlotAppends, CallerAppends
  <2>5. NotTwice'
    <3>1. \A i \in DOMAIN cq : cq[i].user_data # cur
      BY Zenon, <2>3 DEF Queued
    <3>2. \A i, j \in DOMAIN cq' : cq'[i].user_data = cq'[j].user_data => i = j
      BY <2>2, <3>1 DEF NotTwice
    <3>3. \A v \in Updates : \A t, r \in Slots :
            SlotAppends(t, v)' =>
                /\ SlotAppends(r, v)' => t = r
                /\ ~CallerAppends(v)'
      BY <2>4 DEF NotTwice
    <3>. QED BY <3>2, <3>3 DEF NotTwice
  <2>6. \A v \in Updates : Appending(v)' <=> Appending(v) /\ v # cur
    BY Zenon, <2>1, <2>4 DEF Appending, NotTwice
  <2>. QED BY Zenon, <2>1, <2>2, <2>3, <2>5, <2>6 DEF Where
<1>6. ASSUME NEW s \in Slots, WorkerAppend(s) PROVE NotTwice' /\ Where'
  <2>. DEFINE u == slot[s].update
  <2>1. /\ u \in Updates /\ SlotAppends(s, u)
        /\ AppendCompletion(u) /\ UNCHANGED <<owner, refs, callerVars>>
    BY <1>6 DEF WorkerAppend, Busy, SlotAppends
  <2>2. /\ \A v \in Updates : Queued(v)' <=> Queued(v) \/ v = u
        /\ DOMAIN cq' = DOMAIN cq \cup {Len(cq) + 1}
        /\ \A i \in DOMAIN cq : cq'[i] = cq[i]
        /\ cq'[Len(cq) + 1].user_data = u
    BY Zenon, <2>1, AppendQueues
  <2>3. Appending(u) /\ ~Queued(u)
    BY <2>1 DEF Appending, Where
  <2>4. /\ \A t \in Slots \ {s} : slot'[t] = slot[t]
        /\ slot'[s].stage # "append"
    BY Zenon, <1>6, StageType, SetStageMoves DEF WorkerAppend, Stages
  <2>5. \A v \in Updates :
          /\ \A t \in Slots : SlotAppends(t, v)' <=> SlotAppends(t, v) /\ t # s
          /\ CallerAppends(v)' <=> CallerAppends(v)
          /\ SlotAppends(s, v) <=> v = u
    BY <2>1, <2>4 DEF SlotAppends, CallerAppends
  <2>. HIDE DEF u
  <2>6. NotTwice'
    <3>1. \A i \in DOMAIN cq : cq[i].user_data # u
      BY Zenon, <2>3 DEF Queued
    <3>2. \A i, j \in DOMAIN cq' : cq'[i].user_data = cq'[j].user_data => i = j
      BY <2>2, <3>1 DEF NotTwice
    <3>3. \A v \in Updates : \A t, r \in Slots :
            SlotAppends(t, v)' =>
                /\ SlotAppends(r, v)' => t = r
                /\ ~CallerAppends(v)'
      BY <2>5 DEF NotTwice
    <3>. QED BY <3>2, <3>3 DEF NotTwice
  <2>7. \A v \in Updates : Appending(v)' <=> Appending(v) /\ v # u
    BY Zenon, <2>1, <2>5 DEF Appending, NotTwice
  <2>. QED BY Zenon, <2>1, <2>2, <2>3, <2>6, <2>7 DEF Where
<1>7. CASE Completions
  <2>1. /\ UNCHANGED <<refs, slot, cur>> /\ cpc = "reap" /\ cpc' # "append"
        /\ \A v \in Updates :
              owner'[v] = IF \E i \in 1..Reaped : cq[i].user_data = v
                          THEN "application" ELSE owner[v]
    BY <1>7, ReapsQueue
  <2>2. \A v \in Updates :
          /\ \A t \in Slots : SlotAppends(t, v)' <=> SlotAppends(t, v)
          /\ ~CallerAppends(v)' /\ ~CallerAppends(v)
          /\ Appending(v)' <=> Appending(v)
    BY <2>1 DEF SlotAppends, CallerAppends, Appending
  <2>3. ASSUME NEW i \in DOMAIN cq', NEW j \in DOMAIN cq',
               cq'[i].user_data = cq'[j].user_data
        PROVE  i = j
    <3>0. PICK r \in Nat : r = Reaped
      BY <1>7, ReapsQueue
    <3>1. PICK k \in DOMAIN cq, l \in DOMAIN cq : k = i + r /\ l = j + r
      BY SMTT(30), <1>7, <3>0, ReapsQueue
    <3>2. cq'[i] = cq[k] /\ cq'[j] = cq[l] /\ i \in Int /\ j \in Int
      BY SMTT(30), <1>7, <3>0, <3>1, ReapsQueue
    <3>3. k = l
      BY <2>3, <3>2 DEF NotTwice
    <3>4. i + r = j + r
      BY <3>1, <3>3
    <3>5. r \in Int
      OBVIOUS
    <3>. QED BY Zenon, <3>2, <3>4, <3>5, SameShift
  <2>4. NotTwice'
    BY Zenon, <2>2, <2>3 DEF NotTwice
  <2>. QED BY <1>7, <2>1, <2>2, <2>4, ReapsSome DEF Where
<1>8. ASSUME PlacesKept PROVE NotTwice' /\ Where'
  <2>1. \A v \in Updates : /\ Queued(v)' <=> Queued(v)
                           /\ Appending(v)' <=> Appending(v)
    BY <1>8 DEF PlacesKept, Queued, Appending
  <2>2. NotTwice'
    BY <1>8 DEF PlacesKept, NotTwice
  <2>. QED BY Zenon, <1>8, <2>1, <2>2 DEF PlacesKept, Where
<1>. QED
  BY <1>1, <1>2, <1>3, <1>4, <1>5, <1>6, <1>7, <1>8, CallerKeepsPlaces,
     WorkerKeepsPlaces
  DEF Next, Caller, Worker, Complete

-----------------------------------------------------------------------------
(* Errors of an update *)

\* An update that failed is still referenced, so it is not in the queue.
LEMMA FailedUpdate ==
    ASSUME IInv, NEW err, NEW stored \in Int, FailUpdate(err, stored),
           cpc \in {"submit", "collect"}
    PROVE  FailureStored' /\ FailureReported'
<1>. USE DEF IInv
<1>1. /\ cur \in Updates /\ cur' = cur /\ cq' = cq /\ cpc' = "fail"
      /\ broken' = broken \cup {cur}
      /\ \A v \in Updates :
            cerr'[v] = IF v = cur THEN FirstError(cerr[v], stored) ELSE cerr[v]
  BY Zenon DEF FailUpdate, Busy, CallerHolding, TypeOK, completion_set_error, libVars
<1>2. ~Queued(cur)
  BY Zenon, <1>1, RefsOfHolders DEF Where, CallerHolding
<1>3. FailureStored'
  BY <1>1 DEF FailureStored
<1>4. FailureReported'
  BY <1>1, <1>2 DEF FailureReported, Queued
<1>. QED BY Zenon, <1>3, <1>4

\* A completion that is queued carries the error of its update.
LEMMA AppendedError ==
    ASSUME IInv, NEW u \in Updates, Appending(u), AppendCompletion(u),
           UNCHANGED broken
    PROVE  FailureReported'
<1>. USE DEF IInv
<1>1. /\ DOMAIN cq' = DOMAIN cq \cup {Len(cq) + 1}
      /\ \A i \in DOMAIN cq : cq'[i] = cq[i]
      /\ cq'[Len(cq) + 1].user_data = u
      /\ cq'[Len(cq) + 1].error = cerr[u]
  BY Zenon, AppendQueues
<1>2. ~(cpc = "fail" /\ cur = u)
  BY RefsOfHolders DEF Where, CallerHolding
<1>3. cerr[u] # 0 <=> u \in broken
  BY <1>2 DEF FailureStored
<1>. QED BY <1>1, <1>3 DEF FailureReported

\* The errors of an update reach its completion.
LEMMA NextFailure == IInv /\ [Next]_vars => FailureStored' /\ FailureReported'
<1>. SUFFICES ASSUME IInv, [Next]_vars PROVE FailureStored' /\ FailureReported'
  BY Zenon
<1>. USE DEF IInv, libVars, callerVars
<1>1. ASSUME NEW u \in Updates, NEW n \in 0..MaxBlocks, StartUpdate(u, n)
      PROVE  FailureStored' /\ FailureReported'
  <2>1. /\ cpc = "idle" /\ cpc' = "submit" /\ cq' = cq
        /\ broken' = broken \ {u} /\ owner[u] = "application"
        /\ \A v \in Updates : cerr'[v] = IF v = u THEN 0 ELSE cerr[v]
    BY <1>1 DEF StartUpdate, TypeOK
  <2>2. ~Queued(u)
    BY <2>1 DEF Where
  <2>. QED BY <2>1, <2>2 DEF FailureStored, FailureReported, Queued
<1>2. CASE SubmitFails
  BY <1>2, FailedUpdate DEF SubmitFails, TypeOK
<1>3. ASSUME NEW s \in Slots, CollectFailed(s)
      PROVE  FailureStored' /\ FailureReported'
  BY <1>3, FailedUpdate DEF CollectFailed
<1>4. CASE StoreError
  <2>1. UNCHANGED <<cq, broken, cur>> /\ cpc' # "fail"
    BY <1>4 DEF StoreError
  <2>2. CASE cpc = "fail"
    <3>1. error' # 0 /\ cur \in Updates
      BY <1>4, <2>2 DEF StoreError, SetErrorStored, Busy, CallerHolding
    <3>2. /\ \A v \in Updates \ {cur} : cerr'[v] = cerr[v]
          /\ cerr'[cur] # 0
      BY <1>4, <2>2, <3>1 DEF StoreError, completion_set_error, FirstError, TypeOK
    <3>. QED BY <2>1, <2>2, <3>2 DEF FailureStored, FailureReported
  <2>3. CASE cpc # "fail"
    BY <1>4, <2>1, <2>3 DEF StoreError, FailureStored, FailureReported
  <2>. QED BY <2>2, <2>3
<1>5. ASSUME NEW s \in Slots, HashBlock(s)
      PROVE  FailureStored' /\ FailureReported'
  <2>1. UNCHANGED <<cq, cpc, cur>>
    BY <1>5 DEF HashBlock
  <2>2. CASE UNCHANGED <<cerr, broken>>
    BY <2>1, <2>2 DEF FailureStored, FailureReported
  <2>3. CASE /\ completion_set_error(slot[s].update, ENOMEM)
             /\ broken' = broken \cup {slot[s].update}
    <3>. DEFINE u == slot[s].update
    <3>1. u \in Updates /\ s \in SlotsOf(u, SlotHolding)
      BY <1>5 DEF HashBlock, Busy, SlotHolding, SlotsOf
    <3>2. ~Queued(u)
      BY <3>1, RefsOfHolders DEF Where
    <3>3. /\ \A v \in Updates \ {u} : cerr'[v] = cerr[v]
          /\ cerr'[u] # 0
      BY <2>3, <3>1 DEF completion_set_error, FirstError, TypeOK, ENOMEM
    <3>. HIDE DEF u
    <3>4. broken' = broken \cup {u}
      BY <2>3 DEF u
    <3>5. FailureStored'
      BY Zenon, <2>1, <3>1, <3>3, <3>4 DEF FailureStored
    <3>6. FailureReported'
      BY <2>1, <3>2, <3>4 DEF FailureReported, Queued
    <3>. QED BY <3>5, <3>6
  <2>. QED BY <1>5, <2>2, <2>3 DEF HashBlock
<1>6. CASE CallerAppend
  <2>1. /\ cur \in Updates /\ Appending(cur) /\ AppendCompletion(cur)
        /\ UNCHANGED <<broken, cerr>> /\ cpc # "fail" /\ cpc' # "fail"
    BY <1>6, StageType DEF CallerAppend, Busy, Appending, CallerAppends
  <2>. QED BY <2>1, AppendedError DEF FailureStored
<1>7. ASSUME NEW s \in Slots, WorkerAppend(s)
      PROVE  FailureStored' /\ FailureReported'
  <2>1. /\ slot[s].update \in Updates /\ Appending(slot[s].update)
        /\ AppendCompletion(slot[s].update)
        /\ UNCHANGED <<broken, cerr, cpc, cur>>
    BY <1>7 DEF WorkerAppend, Busy, Appending, SlotAppends
  <2>. QED BY <2>1, AppendedError DEF FailureStored
<1>8. CASE Completions
  <2>1. /\ UNCHANGED <<broken, cerr>> /\ cpc # "fail" /\ cpc' # "fail"
        /\ \A i \in DOMAIN cq' : \E j \in DOMAIN cq : cq'[i] = cq[j]
    <3>1. \A i \in DOMAIN cq' : i + Reaped \in DOMAIN cq
      BY <1>8, ReapsQueue
    <3>. QED BY <1>8, <3>1, ReapsQueue
  <2>. QED BY <2>1 DEF FailureStored, FailureReported
<1>9. ASSUME UNCHANGED <<cq, broken, cerr, cur>>, cpc # "fail", cpc' # "fail"
      PROVE  FailureStored' /\ FailureReported'
  BY <1>9 DEF FailureStored, FailureReported
<1>10. ASSUME NEW u \in Updates, CompletionFails(u) \/ RefuseUpdate(u)
       PROVE  FailureStored' /\ FailureReported'
  BY Zenon, <1>9, <1>10 DEF CompletionFails, RefuseUpdate
<1>11. CASE \/ \E s \in Slots : SubmitBlock(s)
            \/ Collected \/ Submitted \/ CallerUnref \/ CallerSignal
            \/ ReadEvent \/ CompletionsFail \/ Resignal
  <2>1. CASE \E s \in Slots : SubmitBlock(s)
    BY <1>9, <2>1 DEF SubmitBlock
  <2>2. CASE Collected \/ Submitted \/ CallerUnref
    BY <1>9, <2>2, StageType DEF Collected, Submitted, CallerUnref
  <2>3. CASE CallerSignal \/ ReadEvent \/ CompletionsFail \/ Resignal
    BY Zenon, <1>9, <2>3 DEF CallerSignal, ReadEvent, CompletionsFail, Resignal
  <2>. QED BY Zenon, <1>11, <2>1, <2>2, <2>3
<1>12. CASE UpdateReturns
  BY Zenon, <1>12 DEF UpdateReturns, FailureStored, FailureReported
<1>13. ASSUME NEW s \in Slots,
              WorkerUnref(s) \/ WorkerSignal(s) \/ WorkerStore(s) \/ WorkerEnd(s)
       PROVE  FailureStored' /\ FailureReported'
  BY <1>13 DEF WorkerUnref, WorkerSignal, WorkerStore, WorkerEnd, FailureStored,
     FailureReported
<1>14. CASE WorkerNotStarted \/ UNCHANGED vars
  BY <1>14 DEF WorkerNotStarted, vars, FailureStored, FailureReported
<1>. QED
  BY Zenon, <1>1, <1>2, <1>3, <1>4, <1>5, <1>6, <1>7, <1>8, <1>10, <1>11, <1>12,
     <1>13, <1>14
  DEF Next, Caller, Worker, Complete

-----------------------------------------------------------------------------
(* What inflight counts *)

\* The updates the library owns are finitely many.
LEMMA OwnedFinite ==
    /\ IsFiniteSet(Owned) /\ Cardinality(Owned) \in Nat
    /\ \A S \in SUBSET Owned : IsFiniteSet(S) /\ Cardinality(S) \in Nat
                               /\ Cardinality(S) <= Cardinality(Owned)
<1>1. Owned \subseteq Updates
  BY DEF Owned
<1>. QED BY <1>1, AioAssumption, FS_Subset, FS_CardinalityType

\* The first completions of the queue are of as many updates.
FirstUpdates(n) == {cq[i].user_data : i \in 1..n}

\* The queue holds one completion for each of its updates, and the library owns
\* them all.
LEMMA FirstUpdatesCount ==
    ASSUME IInv, NEW n \in 0..Len(cq)
    PROVE  /\ FirstUpdates(n) \subseteq Owned
           /\ Cardinality(FirstUpdates(n)) = n
<1>. USE DEF IInv
<1>1. DOMAIN cq = 1..Len(cq) /\ Len(cq) \in Nat /\ 1..n \subseteq DOMAIN cq
  BY DEF TypeOK
<1>2. \A i \in DOMAIN cq : cq[i].user_data \in Updates
  BY QueueOfCompletions
<1>3. FirstUpdates(n) \subseteq Owned
  BY <1>1, <1>2 DEF FirstUpdates, Owned, Where, Queued
<1>. DEFINE f == [i \in 1..n |-> cq[i].user_data]
<1>4. f \in Surjection(1..n, FirstUpdates(n))
  BY DEF Surjection, FirstUpdates
<1>5. f \in Injection(1..n, FirstUpdates(n))
  <2>1. \A i, j \in 1..n : f[i] = f[j] => i = j
    BY <1>1 DEF NotTwice
  <2>. QED BY <1>4, <2>1 DEF Injection, IsInjective, Surjection
<1>6. IsFiniteSet(1..n) /\ Cardinality(1..n) = n
  BY FS_Interval
<1>. HIDE DEF f
<1>. QED BY <1>3, <1>4, <1>5, <1>6, FS_Surjection

\* While an update is being appended, the queue is shorter than the number of
\* the updates the library owns.
LEMMA RoomForAppending ==
    ASSUME IInv, NEW u \in Updates, Appending(u)
    PROVE  Len(cq) < QueueDepth
<1>. USE DEF IInv
<1>0. Len(cq) \in Nat
  BY DEF TypeOK
<1>. DEFINE Q == FirstUpdates(Len(cq))
<1>1. Q \subseteq Owned /\ Cardinality(Q) = Len(cq) /\ IsFiniteSet(Q)
  BY <1>0, FirstUpdatesCount, OwnedFinite
<1>2. u \in Owned /\ u \notin Q
  BY DEF Where, Owned, Queued, FirstUpdates, TypeOK
<1>. HIDE DEF Q
<1>3. Cardinality(Q \cup {u}) = Len(cq) + 1 /\ Q \cup {u} \in SUBSET Owned
  BY Zenon, <1>1, <1>2, FS_AddElement
<1>4. Len(cq) + 1 <= Cardinality(Owned)
  BY <1>3, OwnedFinite
<1>. QED BY <1>0, <1>4, OwnedFinite, AioAssumption DEF InflightCounts, TypeOK

\* A queue that is not empty was given a depth.
LEMMA DepthOfQueue == IInv /\ cq # <<>> => QueueDepth > 0
<1>. SUFFICES ASSUME IInv, cq # <<>> PROVE QueueDepth > 0
  OBVIOUS
<1>1. Len(cq) \in Nat \ {0}
  BY DEF IInv, TypeOK
<1>2. Len(cq) <= Cardinality(Owned)
  BY <1>1, FirstUpdatesCount, OwnedFinite
<1>. QED
  BY <1>1, <1>2, OwnedFinite, AioAssumption DEF IInv, InflightCounts, TypeOK

\* A hash that failed stays failed, and a refused update leaves it failed.
LEMMA ErrorStays ==
    ASSUME IInv, [Next]_vars
    PROVE  /\ error # 0 => error' # 0
           /\ cpc = "refuse" => cpc' = "refuse" \/ error' # 0
<1>. USE DEF IInv, libVars, callerVars
<1>1. CASE StoreError
  BY <1>1 DEF StoreError, SetErrorStored, Busy
<1>2. ASSUME NEW s \in Slots, Worker(s)
      PROVE  cpc' = cpc /\ (error # 0 => error' # 0)
  BY <1>2 DEF Worker, Complete, HashBlock, WorkerUnref, WorkerAppend, WorkerSignal,
     WorkerStore, WorkerEnd, SetErrorStored, EBADF
<1>3. CASE \/ \E u \in Updates, n \in 0..MaxBlocks : StartUpdate(u, n)
           \/ \E u \in Updates : CompletionFails(u) \/ RefuseUpdate(u)
           \/ SubmitFails
           \/ \E s \in Slots : SubmitBlock(s) \/ CollectFailed(s)
           \/ Collected \/ Submitted \/ CallerUnref \/ CallerAppend
           \/ CallerSignal \/ UpdateReturns \/ ReadEvent \/ CompletionsFail
           \/ Completions \/ Resignal \/ WorkerNotStarted \/ UNCHANGED vars
  <2>1. error' = error
    BY Zenon, <1>3 DEF StartUpdate, CompletionFails, RefuseUpdate, SubmitFails,
       SubmitBlock, CollectFailed, FailUpdate, Collected, Submitted, CallerUnref,
       CallerAppend, CallerSignal, UpdateReturns, ReadEvent, CompletionsFail,
       Completions, Resignal, WorkerNotStarted, vars
  <2>2. cpc = "refuse" => cpc' = "refuse"
    BY Zenon, <1>3 DEF StartUpdate, CompletionFails, RefuseUpdate, SubmitFails,
       SubmitBlock, CollectFailed, FailUpdate, Collected, Submitted, CallerUnref,
       CallerAppend, CallerSignal, UpdateReturns, ReadEvent, CompletionsFail,
       Completions, Resignal, WorkerNotStarted, vars
  <2>. QED BY Zenon, <2>1, <2>2
<1>. QED BY <1>1, <1>2, <1>3 DEF Next, Caller

\* inflight is incremented and decremented with the updates the library owns.
LEMMA NextInflightCounts == IInv /\ [Next]_vars => InflightCounts'
<1>. SUFFICES ASSUME IInv, [Next]_vars PROVE InflightCounts'
  OBVIOUS
<1>. USE AioAssumption DEF IInv, libVars, callerVars
<1>0. ASSUME UNCHANGED <<inflight, owner>> PROVE InflightCounts'
  <2>1. Owned' = Owned
    BY <1>0 DEF Owned
  <2>2. Cardinality(Owned)' = Cardinality(Owned)
    BY <2>1
  <2>3. \/ inflight = Cardinality(Owned)
        \/ inflight = Cardinality(Owned) + 1 /\ (error # 0 \/ cpc = "refuse")
    BY OwnedFinite DEF InflightCounts
  <2>. QED BY <1>0, <2>2, <2>3, ErrorStays DEF InflightCounts
<1>1. ASSUME error = 0, cpc # "refuse" PROVE inflight = Cardinality(Owned)
  BY <1>1, OwnedFinite DEF InflightCounts
<1>2. ASSUME NEW u \in Updates, NEW n \in 0..MaxBlocks, StartUpdate(u, n)
      PROVE  InflightCounts'
  <2>0. /\ error = 0 /\ cpc = "idle" /\ ~(inflight >= QueueDepth)
        /\ inflight' = inflight + 1
    BY Zenon, <1>2 DEF StartUpdate, MayStart, DepthReached
  <2>1. PICK k \in Nat : k = Cardinality(Owned) /\ k = inflight
    BY Zenon, <1>1, <2>0, OwnedFinite
  <2>2. Owned' = Owned \cup {u} /\ u \notin Owned
    BY <1>2 DEF StartUpdate, Owned, TypeOK
  <2>3. Cardinality(Owned)' = Cardinality(Owned) + 1
    BY <2>2, OwnedFinite, FS_AddElement
  <2>4. inflight' = k + 1 /\ k + 1 <= QueueDepth
    BY <2>0, <2>1
  <2>. QED BY Zenon, <2>1, <2>3, <2>4 DEF InflightCounts
<1>3. ASSUME NEW u \in Updates, CompletionFails(u) PROVE InflightCounts'
  <2>0. /\ error = 0 /\ cpc = "idle" /\ ~(inflight >= QueueDepth)
        /\ inflight' = inflight + 1 /\ cpc' = "refuse"
    BY Zenon, <1>3 DEF CompletionFails, DepthReached
  <2>1. PICK k \in Nat : k = Cardinality(Owned) /\ k = inflight
    BY Zenon, <1>1, <2>0, OwnedFinite
  <2>2. Owned' = Owned
    BY <1>3 DEF CompletionFails, Owned
  <2>3. Cardinality(Owned)' = Cardinality(Owned)
    BY <2>2
  <2>4. inflight' = k + 1 /\ k + 1 <= QueueDepth
    BY <2>0, <2>1
  <2>. QED BY Zenon, <2>0, <2>1, <2>3, <2>4 DEF InflightCounts
<1>4. CASE Completions
  <2>0. PICK r \in 0..Len(cq) : r = Reaped
    BY <1>4, ReapsQueue
  <2>1. /\ inflight = Cardinality(Owned) /\ inflight' = inflight - r
    BY <1>1, <1>4, <2>0, ReapsQueue
  <2>2. /\ FirstUpdates(r) \subseteq Owned
        /\ Cardinality(FirstUpdates(r)) = r
        /\ IsFiniteSet(FirstUpdates(r))
    BY <2>0, FirstUpdatesCount, OwnedFinite
  <2>3. Owned' = Owned \ FirstUpdates(r)
    BY <1>4, <2>0, ReapsQueue DEF Owned, FirstUpdates
  <2>4. Owned \cap FirstUpdates(r) = FirstUpdates(r)
    BY <2>2
  <2>5. Cardinality(Owned)' = Cardinality(Owned) - r
    <3>1. Cardinality(Owned \ FirstUpdates(r))
            = Cardinality(Owned) - Cardinality(Owned \cap FirstUpdates(r))
      BY Zenon, <2>2, OwnedFinite, FS_Difference
    <3>. QED BY Zenon, <2>2, <2>3, <2>4, <3>1
  <2>6. r \in Nat /\ inflight <= QueueDepth /\ QueueDepth \in Nat
    BY SMTT(30), <1>4, <2>0, ReapsQueue DEF InflightCounts
  <2>. QED BY SMTT(30), <2>1, <2>5, <2>6, OwnedFinite DEF InflightCounts
<1>5. CASE \/ \E u \in Updates : RefuseUpdate(u)
           \/ SubmitFails
           \/ \E s \in Slots : SubmitBlock(s) \/ CollectFailed(s)
           \/ Collected \/ Submitted \/ StoreError \/ CallerUnref \/ CallerAppend
           \/ CallerSignal \/ UpdateReturns \/ ReadEvent \/ CompletionsFail
           \/ Resignal \/ WorkerNotStarted \/ UNCHANGED vars
  BY <1>0, <1>5 DEF RefuseUpdate, SubmitFails, SubmitBlock, CollectFailed,
     FailUpdate, Collected, Submitted, StoreError, CallerUnref, CallerAppend,
     CallerSignal, UpdateReturns, ReadEvent, CompletionsFail, Resignal, WorkerNotStarted, vars
<1>6. ASSUME NEW s \in Slots, Worker(s) PROVE InflightCounts'
  BY <1>0, <1>6 DEF Worker, Complete, HashBlock, WorkerUnref, WorkerAppend, WorkerSignal,
     WorkerStore, WorkerEnd
<1>. QED BY <1>2, <1>3, <1>4, <1>5, <1>6 DEF Next, Caller

-----------------------------------------------------------------------------
(* Notifications *)

SlotsAt(stage) == {s \in Slots : slot[s].stage = stage}

CallerNotifies ==
    IF cpc \in {"signal", "resignal", "store", "restore", "reap"} THEN 1 ELSE 0

\* The submissions at a stage are finitely many.
LEMMA SlotsAtFinite ==
    ASSUME NEW stage
    PROVE  /\ IsFiniteSet(SlotsAt(stage)) /\ Cardinality(SlotsAt(stage)) \in Nat
           /\ \A s \in SlotsAt(stage) : Cardinality(SlotsAt(stage)) > 0
<1>1. SlotsAt(stage) \subseteq Slots
  BY DEF SlotsAt
<1>. QED BY <1>1, AioAssumption, FS_Subset, FS_CardinalityType, FS_EmptySet

\* In particular those that notify.
LEMMA NotifyingFinite == /\ Cardinality(SlotsAt("signal")) \in Nat
                         /\ Cardinality(SlotsAt("store")) \in Nat
BY SlotsAtFinite

\* The notifications as a sum of what the actions change.
LEMMA NotificationsSum ==
    ASSUME TypeOK
    PROVE  /\ Notifications = event + Cardinality(SlotsAt("signal"))
                                + Cardinality(SlotsAt("store")) + CallerNotifies
           /\ Notifications \in Nat
<1>1. /\ Cardinality(SlotsAt("signal")) \in Nat
      /\ Cardinality(SlotsAt("store")) \in Nat
  BY SlotsAtFinite
<1>2. /\ Signalling = Cardinality(SlotsAt("signal"))
                        + (IF cpc \in {"signal", "resignal"} THEN 1 ELSE 0)
      /\ Storing = Cardinality(SlotsAt("store"))
                     + (IF cpc \in {"store", "restore"} THEN 1 ELSE 0)
  BY DEF Signalling, Storing, SlotsAt
<1>3. event \in Nat
  BY Zenon DEF TypeOK
<1>. QED BY <1>1, <1>2, <1>3 DEF Notifications, CallerNotifies

\* A step of one submission changes the number of those at a stage by that one.
LEMMA SlotsAtMoves ==
    ASSUME NEW s \in Slots, \A t \in Slots \ {s} : slot'[t] = slot[t], NEW stage
    PROVE  Cardinality(SlotsAt(stage))'
             = Cardinality(SlotsAt(stage))
                 - (IF slot[s].stage = stage THEN 1 ELSE 0)
                 + (IF slot'[s].stage = stage THEN 1 ELSE 0)
<1>. DEFINE A == SlotsAt(stage) \ {s}
<1>1. /\ s \in SlotsAt(stage) <=> slot[s].stage = stage
      /\ s \in SlotsAt(stage)' <=> slot'[s].stage = stage
      /\ SlotsAt(stage)' = IF slot'[s].stage = stage THEN A \cup {s} ELSE A
  BY Zenon DEF SlotsAt
<1>2. /\ IsFiniteSet(SlotsAt(stage)) /\ Cardinality(SlotsAt(stage)) \in Nat
  BY Zenon, SlotsAtFinite
<1>3. /\ IsFiniteSet(A)
      /\ Cardinality(A) = IF slot[s].stage = stage
                          THEN Cardinality(SlotsAt(stage)) - 1
                          ELSE Cardinality(SlotsAt(stage))
  BY Zenon, <1>1, <1>2, FS_RemoveElement
<1>4. Cardinality(A \cup {s}) = Cardinality(A) + 1
  BY Zenon, <1>3, FS_AddElement
<1>. HIDE DEF A
<1>. QED BY SMTT(30), <1>1, <1>2, <1>3, <1>4

\* Whoever queues the first completion notifies, and nobody else.
LEMMA NextAtMostOne == IInv /\ [Next]_vars => AtMostOne'
<1>. SUFFICES ASSUME IInv, [Next]_vars PROVE AtMostOne'
  OBVIOUS
<1>. USE DEF libVars, callerVars
<1>. DEFINE S == Cardinality(SlotsAt("signal"))
            T == Cardinality(SlotsAt("store"))
            C == CallerNotifies
<1>0. /\ Notifications = event + S + T + C
      /\ Notifications' = event' + S' + T' + C'
  <2>1. TypeOK /\ TypeOK'
    BY NextType DEF IInv
  <2>2. (TypeOK => Notifications = event + S + T + C)'
    BY NotificationsSum, PTL
  <2>. QED BY <2>1, <2>2, NotificationsSum
<1>a. /\ event \in Nat /\ S \in Nat /\ T \in Nat /\ C \in {0, 1}
      /\ event' \in Nat /\ S' \in Nat /\ T' \in Nat /\ C' \in {0, 1}
  <2>1. event \in Nat /\ event' \in Nat
    BY NextType DEF IInv, TypeOK
  <2>2. S \in Nat /\ T \in Nat
    BY SlotsAtFinite
  <2>3. (S \in Nat /\ T \in Nat)'
    BY NotifyingFinite, PTL
  <2>. QED BY <2>1, <2>2, <2>3 DEF CallerNotifies
<1>h. PICK ev \in Nat, si \in Nat, st \in Nat, ca \in Nat,
           ev1 \in Nat, si1 \in Nat, st1 \in Nat, ca1 \in Nat :
        /\ ev = event /\ si = S /\ st = T /\ ca = C
        /\ ev1 = event' /\ si1 = S' /\ st1 = T' /\ ca1 = C'
  BY <1>a, Zenon
<1>b. slot' = slot => si1 = si /\ st1 = st
  BY Zenon, <1>h DEF SlotsAt
<1>c. ASSUME NEW s \in Slots, \A t \in Slots \ {s} : slot'[t] = slot[t]
      PROVE  /\ si1 = si - (IF slot[s].stage = "signal" THEN 1 ELSE 0)
                       + (IF slot'[s].stage = "signal" THEN 1 ELSE 0)
             /\ st1 = st - (IF slot[s].stage = "store" THEN 1 ELSE 0)
                       + (IF slot'[s].stage = "store" THEN 1 ELSE 0)
  BY Zenon, <1>h, <1>c, SlotsAtMoves
<1>d. ASSUME NEW s \in Slots
      PROVE  /\ slot[s].stage = "signal" => si > 0
             /\ slot[s].stage = "store" => st > 0
  BY Zenon, <1>h, SlotsAtFinite DEF SlotsAt
<1>e. /\ ev + si + st + ca <= 1
      /\ cq = <<>> => ev + si + st + ca = 0
      /\ error = 0 /\ cq # <<>> => ev + si + st + ca = 1
  BY <1>h, <1>0 DEF IInv, AtMostOne
<1>f. error # 0 => error' # 0
  BY ErrorStays
<1>g. AtMostOne' <=> /\ ev1 + si1 + st1 + ca1 <= 1
                     /\ cq' = <<>> => ev1 + si1 + st1 + ca1 = 0
                     /\ error' = 0 /\ cq' # <<>> => ev1 + si1 + st1 + ca1 = 1
  BY <1>h, <1>0 DEF AtMostOne
<1>. HIDE DEF S, T, C
<1>1. CASE CallerAppend
  <2>1. /\ cq' # <<>> /\ slot' = slot /\ ev1 = ev /\ error' = error
        /\ ca = 0 /\ ca1 = IF cq = <<>> THEN 1 ELSE 0
    <3>1. cur \in Updates /\ AppendCompletion(cur)
      BY <1>h, <1>1 DEF CallerAppend, IInv, Busy
    <3>2. cq' # <<>>
      BY <1>h, <3>1, AppendQueues DEF IInv
    <3>. QED BY Zenon, <1>h, <1>1, <3>2 DEF CallerAppend, AfterAppend, C, CallerNotifies
  <2>. QED BY <2>1, <1>b, <1>e, <1>g
<1>2. ASSUME NEW s \in Slots, WorkerAppend(s) PROVE AtMostOne'
  <2>1. /\ cq' # <<>> /\ ca1 = ca /\ ev1 = ev /\ error' = error
        /\ slot[s].stage = "append"
        /\ slot'[s].stage = IF cq = <<>> THEN "signal" ELSE "end"
        /\ \A t \in Slots \ {s} : slot'[t] = slot[t]
    <3>1. slot[s].update \in Updates /\ AppendCompletion(slot[s].update)
      BY Zenon, <1>h, <1>2 DEF WorkerAppend, IInv, Busy
    <3>2. cq' # <<>>
      BY SMTT(30), <1>h, <3>1, AppendQueues DEF IInv
    <3>3. SetStage(s, AfterAppend) /\ AfterAppend \in Stages
      BY Zenon, <1>h, <1>2, StageType DEF WorkerAppend, Stages
    <3>. QED
      BY Zenon, <1>h, <1>2, <3>2, <3>3, SetStageMoves
      DEF WorkerAppend, AfterAppend, C, CallerNotifies, IInv
  <2>2. si1 = si + (IF cq = <<>> THEN 1 ELSE 0) /\ st1 = st
    BY <1>h, <2>1, <1>a, <1>c
  <2>. QED BY SMTT(30), <2>1, <2>2, <1>e, <1>g
<1>3. CASE CallerSignal \/ Resignal
  <2>1. /\ UNCHANGED <<cq, slot, error>> /\ ca = 1
        /\ \/ ev1 = ev + 1 /\ ca1 = 0
           \/ ev1 = ev /\ ca1 = 1
    <3>1. CASE CallerSignal
      BY <1>h, <3>1 DEF CallerSignal, event_signal, event_signal_fails, C,
         CallerNotifies
    <3>2. CASE Resignal
      BY <1>h, <3>2 DEF Resignal, event_signal, event_signal_fails, C, CallerNotifies
    <3>. QED BY Zenon, <1>h, <1>3, <3>1, <3>2
  <2>2. si1 = si /\ st1 = st
    BY <1>h, <2>1, <1>b
  <2>. QED BY <2>1, <2>2, <1>e, <1>g
<1>4. ASSUME NEW s \in Slots, WorkerSignal(s) PROVE AtMostOne'
  <2>1. /\ UNCHANGED <<cq, error>> /\ ca1 = ca /\ slot[s].stage = "signal"
        /\ \A t \in Slots \ {s} : slot'[t] = slot[t]
        /\ \/ ev1 = ev + 1 /\ slot'[s].stage = "end"
           \/ ev1 = ev /\ slot'[s].stage = "store"
           \/ ev1 = ev /\ slot'[s].stage = "end" /\ error # 0
    BY SMTT(30), <1>h, <1>4, SetStageMoves DEF WorkerSignal, event_signal, event_signal_fails,
       SetErrorChecked, EBADF, Stages, C, CallerNotifies, IInv
  <2>2. /\ si1 = si - 1 /\ si > 0
        /\ \/ ev1 = ev + 1 /\ st1 = st
           \/ ev1 = ev /\ st1 = st + 1
           \/ ev1 = ev /\ st1 = st /\ error # 0
    BY <1>h, <2>1, <1>a, <1>c, <1>d
  <2>. QED BY SMTT(30), <2>1, <2>2, <1>e, <1>g
<1>5. CASE StoreError
  <2>1. /\ UNCHANGED <<cq, slot>> /\ ev1 = ev /\ ca1 = 0 /\ error' # 0
    BY <1>h, <1>5 DEF StoreError, SetErrorStored, IInv, Busy, C, CallerNotifies
  <2>. QED BY <2>1, <1>b, <1>e, <1>g
<1>6. ASSUME NEW s \in Slots, WorkerStore(s) PROVE AtMostOne'
  <2>1. /\ UNCHANGED cq /\ ev1 = ev /\ ca1 = ca /\ error' # 0
        /\ slot[s].stage = "store" /\ slot'[s].stage = "end"
        /\ \A t \in Slots \ {s} : slot'[t] = slot[t]
    BY <1>h, <1>6, SetStageMoves DEF WorkerStore, SetErrorStored, EBADF, Stages, C,
       CallerNotifies, IInv
  <2>2. si1 = si /\ st1 = st - 1 /\ st > 0
    BY <1>h, <2>1, <1>a, <1>c, <1>d
  <2>. QED BY <2>1, <2>2, <1>e, <1>g
<1>7. CASE ReadEvent
  <2>1. /\ UNCHANGED <<cq, slot, error>> /\ ev > 0 /\ ev1 = Unread
        /\ ca1 = 1
    BY <1>h, <1>7 DEF ReadEvent, C, CallerNotifies
  <2>2. Unread = 0 /\ ev = 1
    <3>1. ev = 1 /\ cq # <<>>
      BY <1>h, <2>1, <1>a, <1>e
    <3>2. QueueDepth \in Nat /\ QueueDepth > 0
      BY <1>h, <3>1, DepthOfQueue, AioAssumption
    <3>. QED BY <1>h, <3>1, <3>2 DEF Unread
  <2>. QED BY <2>1, <2>2, <1>b, <1>e, <1>g
<1>8. CASE CompletionsFail
  <2>1. /\ UNCHANGED <<cq, slot>> /\ ev1 = ev /\ ca1 = 0 /\ error # 0
    BY <1>h, <1>8 DEF CompletionsFail, C, CallerNotifies
  <2>. QED BY <2>1, <1>b, <1>e, <1>f, <1>g
<1>9. CASE Completions
  <2>1. /\ UNCHANGED slot /\ ev1 = ev /\ error = 0 /\ ca = 1
        /\ ca1 = IF Reaped > 0 /\ Reaped < Len(cq) THEN 1 ELSE 0
    BY <1>h, <1>9, ReapsQueue DEF C, CallerNotifies
  <2>2. /\ Reaped \in 0..Len(cq) /\ Len(cq) \in Nat
        /\ cq' = <<>> <=> Reaped = Len(cq)
        /\ cq = <<>> <=> Len(cq) = 0
        /\ cq # <<>> => Reaped > 0
    <3>1. cq' \in Seq(Completion) /\ cq \in Seq(Completion)
      BY NextType DEF IInv, TypeOK
    <3>2. /\ Reaped \in 0..Len(cq) /\ Len(cq) \in Nat
          /\ Len(cq') = Len(cq) - Reaped
      BY <1>h, <1>9, ReapsQueue
    <3>3. Len(cq) # 0 => Reaped > 0
      BY <1>h, <3>2, AioAssumption DEF Reaped
    <3>4. /\ cq' = <<>> <=> Len(cq') = 0
          /\ cq = <<>> <=> Len(cq) = 0
      BY <1>h, <3>1
    <3>. QED BY <1>h, <3>2, <3>3, <3>4
  <2>. QED BY <2>1, <2>2, <1>b, <1>e, <1>g
<1>10. ASSUME UNCHANGED <<cq, error>>, ev1 = ev, ca1 = ca, si1 = si, st1 = st
       PROVE  AtMostOne'
  BY Zenon, <1>h, <1>10, <1>a, <1>e, <1>g
<1>11. ASSUME NEW s \in Slots, HashBlock(s) \/ WorkerUnref(s) \/ WorkerEnd(s)
       PROVE  AtMostOne'
  <2>1. UNCHANGED <<cq, error>> /\ ev1 = ev /\ ca1 = ca
    BY Zenon, <1>h, <1>11 DEF HashBlock, WorkerUnref, WorkerEnd, C, CallerNotifies
  <2>2. /\ slot[s].stage \notin {"signal", "store"}
        /\ slot'[s].stage \notin {"signal", "store"}
        /\ \A t \in Slots \ {s} : slot'[t] = slot[t]
    <3>1. CASE HashBlock(s)
      BY Zenon, <1>h, <3>1, HashBlockMoves DEF IInv
    <3>2. CASE WorkerUnref(s)
      BY Zenon, <1>h, <3>2, StageType, SetStageMoves DEF WorkerUnref, Stages, IInv
    <3>3. CASE WorkerEnd(s)
      BY <1>h, <3>3 DEF WorkerEnd, Released, FreeSlot, IInv, TypeOK
    <3>. QED BY Zenon, <1>h, <1>11, <3>1, <3>2, <3>3
  <2>3. si1 = si /\ st1 = st
    BY SMTT(30), <1>h, <2>2, <1>a, <1>c
  <2>. QED BY <2>1, <2>3, <1>10
<1>12. ASSUME NEW s \in Slots, SubmitBlock(s) \/ CollectFailed(s)
       PROVE  AtMostOne'
  <2>1. UNCHANGED <<cq, error>> /\ ev1 = ev /\ ca1 = ca
    BY Zenon, <1>h, <1>12 DEF SubmitBlock, CollectFailed, FailUpdate, C, CallerNotifies
  <2>2. /\ slot[s].stage \notin {"signal", "store"}
        /\ slot'[s].stage \notin {"signal", "store"}
        /\ \A t \in Slots \ {s} : slot'[t] = slot[t]
    BY <1>h, <1>12 DEF SubmitBlock, CollectFailed, FreeSlot, IInv, TypeOK
  <2>3. si1 = si /\ st1 = st
    BY <1>h, <2>2, <1>a, <1>c
  <2>. QED BY <2>1, <2>3, <1>10
<1>13. CASE \/ \E u \in Updates, n \in 0..MaxBlocks : StartUpdate(u, n)
            \/ \E u \in Updates : CompletionFails(u) \/ RefuseUpdate(u)
            \/ SubmitFails \/ Collected \/ Submitted \/ CallerUnref
            \/ UpdateReturns \/ WorkerNotStarted \/ UNCHANGED vars
  <2>1. UNCHANGED <<cq, error, slot>> /\ ev1 = ev
    BY Zenon, <1>h, <1>13 DEF StartUpdate, CompletionFails, RefuseUpdate, SubmitFails,
       FailUpdate, Collected, Submitted, CallerUnref, UpdateReturns, WorkerNotStarted, vars
  <2>2. ca1 = ca
    BY Zenon, <1>h, <1>13, StageType DEF StartUpdate, CompletionFails, RefuseUpdate,
       SubmitFails, FailUpdate, Collected, Submitted, CallerUnref, UpdateReturns,
       WorkerNotStarted, vars, C, CallerNotifies
  <2>. QED BY Zenon, <2>1, <2>2, <1>b, <1>10
<1>. QED
  BY Zenon, <1>h, <1>1, <1>2, <1>3, <1>4, <1>5, <1>6, <1>7, <1>8, <1>9, <1>11, <1>12, <1>13
  DEF Next, Caller, Worker, Complete

-----------------------------------------------------------------------------
(* The theorems *)

\* Before the first update nothing is referenced, queued or signalled.
LEMMA InitIInv == Init => IInv
<1>. SUFFICES ASSUME Init PROVE IInv
  OBVIOUS
<1>1. TypeOK
  BY DEF Init, TypeOK, CallerStages, Submission, Stages, FreeSlot
<1>2. \A s \in Slots : slot[s].stage = "free"
  BY DEF Init, FreeSlot
<1>3. Busy
  BY <1>2 DEF Init, Busy, SlotHolding, CallerHolding
<1>4. \A u \in Updates : /\ SlotsOf(u, SlotHolding) = {}
                         /\ CallerAt(u, CallerHolding) = 0
                         /\ refs[u] = 0 /\ owner[u] = "application"
                         /\ cerr[u] = 0
                         /\ ~Queued(u) /\ ~Appending(u)
  BY <1>2 DEF Init, SlotsOf, SlotHolding, CallerAt, CallerHolding, Queued,
     Appending, SlotAppends, CallerAppends
<1>5. RefsCounted
  BY SMTT(30), <1>4, FS_EmptySet DEF RefsCounted
<1>6. Where
  <2>1. \A u \in Updates : ~(refs[u] > 0) /\ owner[u] # "library"
    BY <1>4
  <2>. QED BY Zenon, <1>4, <2>1 DEF Where
<1>7. NotTwice
  BY SMTT(30), <1>2 DEF Init, NotTwice, SlotAppends
<1>8. Owned = {}
  BY Zenon, <1>4 DEF Owned
<1>9. InflightCounts
  BY <1>8, FS_EmptySet, AioAssumption DEF Init, InflightCounts
<1>10. FailureStored /\ FailureReported
  BY <1>4 DEF Init, FailureStored, FailureReported
<1>11. AtMostOne
  <2>1. SlotsAt("signal") = {} /\ SlotsAt("store") = {}
    BY <1>2 DEF SlotsAt
  <2>2. event = 0 /\ CallerNotifies = 0
    BY DEF Init, CallerNotifies
  <2>3. Notifications = 0
    BY <1>1, <2>1, <2>2, FS_EmptySet, NotificationsSum
  <2>. QED BY SMTT(30), <2>3 DEF AtMostOne, Init
<1>. QED
  BY <1>1, <1>3, <1>5, <1>6, <1>7, <1>9, <1>10, <1>11 DEF IInv

\* The inductive invariant holds in every state of the queue.
LEMMA Invariance == Spec => []IInv
<1>1. IInv /\ [Next]_vars => IInv'
  BY NextType, NextBusy, NextRefsCounted, NextWhere, NextFailure,
     NextInflightCounts, NextAtMostOne
  DEF IInv
<1>. QED
  BY <1>1, InitIInv, PTL DEF Spec

\* Every update is reported exactly once, whichever thread drops the last
\* reference.
THEOREM ReportsOnce == Spec => []ReportedOnce
<1>1. IInv => ReportedOnce
  <2>. SUFFICES ASSUME IInv, NEW u \in Updates
                PROVE  (IF refs[u] > 0 THEN 1 ELSE 0)
                         + Cardinality(SlotsOf(u, {"append"}))
                         + CallerAt(u, {"append"})
                         + Cardinality({i \in DOMAIN cq : cq[i].user_data = u})
                           = IF owner[u] = "library" THEN 1 ELSE 0
    BY DEF ReportedOnce
  <2>. USE DEF IInv
  <2>. DEFINE A == SlotsOf(u, {"append"})
              Q == {i \in DOMAIN cq : cq[i].user_data = u}
  <2>1. A # {} => \E s : A = {s}
    <3>. SUFFICES ASSUME NEW s \in A PROVE A = {s}
      OBVIOUS
    <3>. QED BY DEF SlotsOf, NotTwice, SlotAppends
  <2>2. Q # {} => \E i : Q = {i}
    <3>. SUFFICES ASSUME NEW i \in Q PROVE Q = {i}
      OBVIOUS
    <3>. QED BY DEF NotTwice
  <2>3. /\ Q # {} <=> Queued(u)
        /\ Appending(u) <=> A # {} \/ CallerAt(u, {"append"}) = 1
        /\ A = {} \/ CallerAt(u, {"append"}) = 0
        /\ CallerAt(u, {"append"}) \in {0, 1}
    BY DEF Queued, Appending, SlotsOf, SlotAppends, CallerAppends, CallerAt,
           NotTwice
  <2>4. /\ Cardinality(A) = IF A = {} THEN 0 ELSE 1
        /\ Cardinality(Q) = IF Q = {} THEN 0 ELSE 1
    BY Zenon, <2>1, <2>2, FS_EmptySet, FS_Singleton
  <2>. HIDE DEF A, Q
  <2>5. (IF refs[u] > 0 THEN 1 ELSE 0) + Cardinality(A)
          + CallerAt(u, {"append"}) + Cardinality(Q)
            = IF owner[u] = "library" THEN 1 ELSE 0
    BY <2>3, <2>4 DEF Where
  <2>. QED BY Zenon, <2>5 DEF A, Q
<1>. QED
  BY <1>1, Invariance, PTL

\* The asserts on the completion queue and on inflight hold.
THEOREM QueueNeverOverflows == Spec => []QueueHasRoom
<1>1. IInv => QueueHasRoom
  <2>. SUFFICES ASSUME IInv PROVE QueueHasRoom
    OBVIOUS
  <2>1. ASSUME NEW u \in Updates,
               SlotsOf(u, {"append"}) # {} \/ CallerAt(u, {"append"}) = 1
        PROVE  Len(cq) < QueueDepth
    <3>1. Appending(u)
      BY <2>1 DEF Appending, SlotAppends, CallerAppends, SlotsOf, CallerAt
    <3>. QED BY <3>1, RoomForAppending
  <2>. QED BY <2>1 DEF QueueHasRoom, IInv, InflightCounts
<1>. QED
  BY <1>1, Invariance, PTL

\* No worker reads the buffer of an update after its completion was queued.
THEOREM BufferIsReleased == Spec => []BufferReleased
<1>1. IInv => BufferReleased
  <2>. SUFFICES ASSUME IInv, NEW u \in Updates,
                       owner[u] = "application" \/ Queued(u)
                PROVE  SlotsOf(u, {"work"}) = {}
    BY Zenon DEF BufferReleased, Queued
  <2>1. refs[u] = 0
    BY RefsOfHolders DEF IInv, Where
  <2>2. SlotsOf(u, SlotHolding) = {}
    BY <2>1, RefsOfHolders DEF IInv
  <2>. QED BY <2>2 DEF SlotsOf, SlotHolding
<1>. QED
  BY <1>1, Invariance, PTL

\* A completion carries an error exactly when a block of its update failed.
THEOREM FailureIsReported == Spec => []FailureReported
<1>1. IInv => FailureReported
  BY DEF IInv
<1>. QED
  BY <1>1, Invariance, PTL

\* Until the hash fails there is one notification for a queue with
\* completions and none for an empty queue.
THEOREM NotifiesOnce == Spec => []OneNotification
<1>1. IInv => OneNotification
  BY DEF IInv, AtMostOne, OneNotification, Notifications
<1>. QED
  BY <1>1, Invariance, PTL

\* While the application waits in poll() and the hash did not fail, every update
\* the library has is with a worker that is going to drop a reference or append
\* its completion, or is in the queue and a worker is going to signal the event,
\* or to fail the hash because it could not, or has a block with the pool.  A
\* block with the pool is in its queue or with a worker; HashPool shows that
\* somebody is going to take it from the queue if all the workers started, and
\* nobody may be if pool_error is set.
WaitsForWorker ==
    cpc = "idle" /\ event = 0 /\ error = 0 =>
        \A u \in Owned :
            \/ SlotsOf(u, {"unref", "append"}) # {}
            \/ Queued(u) /\ \E s \in Slots : slot[s].stage \in {"signal", "store"}
            \/ SlotsOf(u, {"work"}) # {}

\* An application that waits for its updates never waits for an event that
\* nobody is going to signal, as long as the pool hashes what is submitted to
\* it, which it does unless a worker did not start: the safety part of
\* EventuallyReported, for any number of updates and workers, any queue depth and
\* reap count.
THEOREM ApplicationMissesNoEvent == Spec => []WaitsForWorker
<1>1. IInv => WaitsForWorker
  <2>. SUFFICES ASSUME IInv, cpc = "idle", event = 0, error = 0,
                       NEW u \in Updates, owner[u] = "library"
                PROVE  \/ SlotsOf(u, {"unref", "append"}) # {}
                       \/ /\ Queued(u)
                          /\ \E s \in Slots : slot[s].stage \in {"signal", "store"}
                       \/ SlotsOf(u, {"work"}) # {}
    BY Zenon DEF WaitsForWorker, Owned
  <2>0. TypeOK /\ RefsCounted /\ AtMostOne
    BY Zenon DEF IInv
  <2>1. refs[u] > 0 \/ Appending(u) \/ Queued(u)
    BY Zenon DEF IInv, Where
  <2>2. CASE refs[u] > 0
    <3>1. refs[u] = Cardinality(SlotsOf(u, SlotHolding))
      <4>1. /\ refs[u] = Cardinality(SlotsOf(u, SlotHolding))
                           + CallerAt(u, CallerHolding)
            /\ CallerAt(u, CallerHolding) = 0
        BY <2>0 DEF RefsCounted, CallerAt, CallerHolding
      <4>. QED BY <4>1, SlotsFinite
    <3>2. SlotsOf(u, SlotHolding) # {}
      BY <2>2, <3>1, SlotsFinite
    <3>. QED BY Zenon, <3>2 DEF SlotsOf, SlotHolding
  <2>3. CASE Appending(u)
    BY Zenon, <2>3 DEF Appending, CallerAppends, SlotAppends, SlotsOf
  <2>4. CASE Queued(u)
    <3>1. cq # <<>>
      BY <2>0, <2>4 DEF Queued
    <3>2. Notifications = 1
      BY Zenon, <2>0, <3>1 DEF AtMostOne
    <3>3. CallerNotifies = 0
      BY Zenon DEF CallerNotifies
    <3>4. Cardinality(SlotsAt("signal")) + Cardinality(SlotsAt("store")) = 1
      BY <2>0, <3>2, <3>3, NotificationsSum, NotifyingFinite
    <3>5. SlotsAt("signal") # {} \/ SlotsAt("store") # {}
      BY <3>4, FS_EmptySet
    <3>. QED BY Zenon, <2>4, <3>5 DEF SlotsAt
  <2>. QED BY Zenon, <2>1, <2>2, <2>3, <2>4
<1>. QED
  BY <1>1, Invariance, PTL
=============================================================================
