------------------------- MODULE AioQueueRefinement -------------------------
(***************************************************************************)
(* AioQueue implements AsyncHash: every step of the detailed queue is a    *)
(* step of the abstract one under the mapping Abstract of AioQueue, or     *)
(* changes nothing the application can see.                                *)
(*                                                                         *)
(* The proof uses the inductive invariant of AioQueueProofs: inflight      *)
(* counts the updates the abstract API counts, an update is appended at    *)
(* most once, its completion carries the error that the abstract API says, *)
(* and reading the event leaves nothing unread.                            *)
(***************************************************************************)
EXTENDS AioQueueProofs

\* The mapping of the variables of AsyncHash, as Abstract gives it.
updatingBar ==
    {u \in Updates : /\ owner[u] = "library"
                     /\ \A i \in DOMAIN cq : cq[i].user_data # u}

badBar ==
    {u \in Updates : /\ owner[u] = "library" /\ cerr[u] # 0
                     /\ \A i \in DOMAIN cq : cq[i].user_data # u}

cqBar == [i \in DOMAIN cq |-> [user_data |-> cq[i].user_data,
                               error |-> cq[i].error # 0]]

eventBar == event > 0

herrorBar == error # 0

BarCompletion == [user_data : Updates, error : BOOLEAN]

-----------------------------------------------------------------------------
(* Sequences *)

\* Two sequences are equal when their lengths and their elements are.
LEMMA SameSequence ==
    ASSUME NEW S, NEW s \in Seq(S), NEW t \in Seq(S),
           Len(s) = Len(t), \A i \in 1..Len(s) : s[i] = t[i]
    PROVE  s = t
OBVIOUS

-----------------------------------------------------------------------------
(* The actions of AsyncHash under the mapping *)

\* The mapping is the one of Abstract.
LEMMA AbstractVars ==
    Abstract!vars = <<updatingBar, badBar, cqBar, Signalling, eventBar, herrorBar>>
BY DEF Abstract!vars, updatingBar, badBar, cqBar, eventBar, herrorBar

\* A step that changes none of the mapped variables.
LEMMA BarStutters ==
    ASSUME UNCHANGED <<updatingBar, badBar, cqBar, Signalling, eventBar, herrorBar>>
    PROVE  UNCHANGED Abstract!vars
BY AbstractVars DEF Abstract!vars, updatingBar, badBar, cqBar, eventBar, herrorBar

\* An update is accepted.
LEMMA BarStart ==
    ASSUME NEW u \in Updates, ~herrorBar,
           ~(Cardinality(updatingBar) + Len(cqBar) >= QueueDepth),
           u \notin updatingBar, \A i \in DOMAIN cqBar : cqBar[i].user_data # u,
           updatingBar' = updatingBar \cup {u},
           UNCHANGED <<badBar, cqBar, Signalling, eventBar, herrorBar>>
    PROVE  Abstract!Next
<1>1. ~Abstract!DepthReached
  BY Zenon DEF Abstract!DepthReached, Abstract!Cardinality, Cardinality,
     updatingBar, cqBar
<1>2. Abstract!Start(u)
  BY <1>1 DEF Abstract!Start, updatingBar, badBar, cqBar, eventBar, herrorBar
<1>. QED BY <1>2 DEF Abstract!Next

\* A part of an update fails.
LEMMA BarFails ==
    ASSUME NEW u \in Updates, NEW call \in BOOLEAN, u \in updatingBar,
           badBar' = badBar \cup {u}, herrorBar' = (herrorBar \/ call),
           UNCHANGED <<updatingBar, cqBar, Signalling, eventBar>>
    PROVE  Abstract!Next
<1>1. Abstract!UpdateFails(u, call)
  BY DEF Abstract!UpdateFails, updatingBar, badBar, cqBar, eventBar, herrorBar
<1>. QED BY <1>1 DEF Abstract!Next

\* The hash fails.
LEMMA BarCallFails ==
    ASSUME herrorBar' = TRUE,
           UNCHANGED <<updatingBar, badBar, cqBar, Signalling, eventBar>>
    PROVE  Abstract!Next
<1>1. Abstract!CallFails
  BY DEF Abstract!CallFails, updatingBar, badBar, cqBar, eventBar, herrorBar
<1>. QED BY <1>1 DEF Abstract!Next

\* A completion is queued.
LEMMA BarDone ==
    ASSUME NEW u \in Updates, u \in updatingBar,
           updatingBar' = updatingBar \ {u}, badBar' = badBar \ {u},
           cqBar' = Append(cqBar, [user_data |-> u, error |-> u \in badBar]),
           Signalling' = IF cqBar = <<>> THEN Signalling + 1 ELSE Signalling,
           UNCHANGED <<eventBar, herrorBar>>
    PROVE  Abstract!Next
<1>1. Abstract!Done(u)
  BY Zenon DEF Abstract!Done, updatingBar, badBar, cqBar, eventBar, herrorBar
<1>. QED BY <1>1 DEF Abstract!Next

\* The completion fd is signalled, or cannot be.
LEMMA BarSignal ==
    ASSUME Signalling > 0, Signalling' = Signalling - 1,
           eventBar' = TRUE \/ eventBar' = eventBar,
           UNCHANGED <<updatingBar, badBar, cqBar, herrorBar>>
    PROVE  Abstract!Next
<1>1. CASE eventBar' = TRUE
  <2>1. Abstract!Signal
    BY <1>1 DEF Abstract!Signal, updatingBar, badBar, cqBar, eventBar, herrorBar
  <2>. QED BY <2>1 DEF Abstract!Next
<1>2. CASE eventBar' = eventBar
  <2>1. Abstract!SignalLost
    BY <1>2 DEF Abstract!SignalLost, updatingBar, badBar, cqBar, eventBar,
       herrorBar
  <2>. QED BY <2>1 DEF Abstract!Next
<1>. QED BY Zenon, <1>1, <1>2

\* The application reads the completion fd.
LEMMA BarRead ==
    ASSUME eventBar, eventBar' = FALSE,
           UNCHANGED <<updatingBar, badBar, cqBar, Signalling, herrorBar>>
    PROVE  Abstract!Next
<1>1. Abstract!Read
  BY DEF Abstract!Read, updatingBar, badBar, cqBar, eventBar, herrorBar
<1>. QED BY <1>1 DEF Abstract!Next

\* The application reaps completions.
LEMMA BarReap ==
    ASSUME NEW n \in 0..Len(cqBar), ~herrorBar,
           cqBar' = SubSeq(cqBar, n + 1, Len(cqBar)),
           Signalling' = IF n \in 1..Len(cqBar) - 1 THEN Signalling + 1
                         ELSE Signalling,
           UNCHANGED <<updatingBar, badBar, eventBar, herrorBar>>
    PROVE  Abstract!Next
<1>1. Abstract!Reap(n)
  BY Zenon DEF Abstract!Reap, updatingBar, badBar, cqBar, eventBar, herrorBar
<1>2. n \in 0..Len(cqBar)
  OBVIOUS
<1>. QED BY <1>1, <1>2 DEF Abstract!Next, cqBar

-----------------------------------------------------------------------------
(* The mapped variables *)

\* The mapped queue has the same length.
LEMMA BarQueue ==
    ASSUME TypeOK
    PROVE  /\ cqBar \in Seq(BarCompletion)
           /\ Len(cqBar) = Len(cq) /\ DOMAIN cqBar = DOMAIN cq
           /\ DOMAIN cq = 1..Len(cq) /\ Len(cq) \in Nat
           /\ \A i \in DOMAIN cq :
                 cqBar[i] = [user_data |-> cq[i].user_data,
                             error |-> cq[i].error # 0]
<1>1. DOMAIN cq = 1..Len(cq) /\ Len(cq) \in Nat
  BY DEF TypeOK
<1>2. \A i \in DOMAIN cq :
        [user_data |-> cq[i].user_data, error |-> cq[i].error # 0]
          \in BarCompletion
  BY QueueOfCompletions DEF BarCompletion
<1>3. cqBar \in [1..Len(cq) -> BarCompletion]
  BY <1>1, <1>2 DEF cqBar
<1>4. cqBar \in Seq(BarCompletion) /\ Len(cqBar) = Len(cq)
  BY <1>1, <1>3
<1>5. \A i \in DOMAIN cq :
        cqBar[i] = [user_data |-> cq[i].user_data, error |-> cq[i].error # 0]
  BY DEF cqBar
<1>. QED BY <1>1, <1>3, <1>4, <1>5

\* The abstract API counts what inflight counts.
LEMMA BarDepth ==
    ASSUME IInv
    PROVE  Cardinality(updatingBar) + Len(cqBar) = Cardinality(Owned)
<1>0. TypeOK /\ Len(cq) \in Nat /\ Len(cqBar) = Len(cq) /\ DOMAIN cq = 1..Len(cq)
  BY BarQueue DEF IInv
<1>. DEFINE Q == FirstUpdates(Len(cq))
<1>1. Q \subseteq Owned /\ Cardinality(Q) = Len(cq)
  BY <1>0, FirstUpdatesCount
<1>2. updatingBar = Owned \ Q
  BY <1>0 DEF updatingBar, Owned, FirstUpdates
<1>. HIDE DEF Q
<1>3. Owned \cap Q = Q
  BY <1>1
<1>4. Cardinality(Owned \ Q) = Cardinality(Owned) - Cardinality(Owned \cap Q)
  BY Zenon, OwnedFinite, FS_Difference
<1>5. PICK n \in Nat, m \in Nat : n = Cardinality(Owned) /\ m = Len(cq)
  BY <1>0, OwnedFinite
<1>6. Cardinality(updatingBar) = n - m /\ Len(cqBar) = m
  BY Zenon, <1>0, <1>1, <1>2, <1>3, <1>4, <1>5
<1>. QED BY <1>5, <1>6

\* The mapping keeps what the step keeps.
LEMMA BarUnchanged ==
    /\ UNCHANGED <<owner, cq>> => UNCHANGED <<updatingBar, cqBar>>
    /\ UNCHANGED <<owner, cq, cerr>> => UNCHANGED badBar
    /\ event' = event => UNCHANGED eventBar
    /\ error' = error => UNCHANGED herrorBar
BY DEF updatingBar, badBar, cqBar, eventBar, herrorBar

CallerSignals == IF cpc \in {"signal", "resignal"} THEN 1 ELSE 0

\* The threads that are about to signal after a step of the caller,
LEMMA SignallingCaller ==
    ASSUME slot' = slot
    PROVE  /\ Signalling' = Signalling - CallerSignals + CallerSignals'
           /\ Signalling \in Nat /\ Signalling >= CallerSignals
<1>1. SlotsAt("signal")' = SlotsAt("signal")
  BY DEF SlotsAt
<1>2. PICK n \in Nat : /\ n = Cardinality(SlotsAt("signal"))
                       /\ n = Cardinality(SlotsAt("signal"))'
  BY <1>1, SlotsAtFinite
<1>3. Signalling = n + CallerSignals /\ Signalling' = n + CallerSignals'
  BY <1>2 DEF Signalling, SlotsAt, CallerSignals
<1>. QED BY <1>3 DEF CallerSignals

\* and after a step of a worker.
LEMMA SignallingWorker ==
    ASSUME NEW s \in Slots, \A t \in Slots \ {s} : slot'[t] = slot[t], cpc' = cpc
    PROVE  /\ Signalling' = Signalling
                - (IF slot[s].stage = "signal" THEN 1 ELSE 0)
                + (IF slot'[s].stage = "signal" THEN 1 ELSE 0)
           /\ Signalling \in Nat
           /\ slot[s].stage = "signal" => Signalling > 0
<1>1. PICK n \in Nat : n = Cardinality(SlotsAt("signal"))
  BY SlotsAtFinite
<1>2. PICK m \in Int : m = Cardinality(SlotsAt("signal"))'
  BY <1>1, SlotsAtMoves
<1>3. m = n - (IF slot[s].stage = "signal" THEN 1 ELSE 0)
            + (IF slot'[s].stage = "signal" THEN 1 ELSE 0)
  BY <1>1, <1>2, SlotsAtMoves
<1>4. slot[s].stage = "signal" => n > 0
  BY Zenon, <1>1, SlotsAtFinite DEF SlotsAt
<1>5. PICK c \in Nat : c = CallerSignals
  BY DEF CallerSignals
<1>6. Signalling = n + c /\ Signalling' = m + c
  BY <1>1, <1>2, <1>5 DEF Signalling, SlotsAt, CallerSignals
<1>. QED BY <1>3, <1>4, <1>6

-----------------------------------------------------------------------------
(* Every step of AioQueue *)

\* An update is accepted when the abstract API accepts it.
LEMMA StartImplements ==
    ASSUME IInv, NEW u \in Updates, NEW n \in 0..MaxBlocks, StartUpdate(u, n)
    PROVE  Abstract!Next
<1>. USE DEF IInv
<1>1. /\ UNCHANGED <<cq, event, error, slot>> /\ error = 0
      /\ owner[u] = "application" /\ cpc = "idle" /\ cpc' = "submit"
      /\ \A v \in Updates : /\ owner'[v] = IF v = u THEN "library" ELSE owner[v]
                            /\ cerr'[v] = IF v = u THEN 0 ELSE cerr[v]
      /\ ~(inflight >= QueueDepth)
  BY DEF StartUpdate, MayStart, DepthReached, TypeOK
<1>2. ~Queued(u)
  BY <1>1 DEF Where
<1>3. /\ updatingBar' = updatingBar \cup {u} /\ u \notin updatingBar
      /\ badBar' = badBar
  BY <1>1, <1>2 DEF updatingBar, badBar, Queued
<1>4. \A i \in DOMAIN cqBar : cqBar[i].user_data # u
  BY <1>2, BarQueue DEF Queued
<1>5. ~(Cardinality(updatingBar) + Len(cqBar) >= QueueDepth)
  <2>1. inflight = Cardinality(Owned)
    BY <1>1, OwnedFinite DEF InflightCounts
  <2>. QED BY <1>1, <2>1, BarDepth
<1>6. Signalling' = Signalling
  BY <1>1, SignallingCaller DEF CallerSignals
<1>7. UNCHANGED <<cqBar, eventBar, herrorBar>> /\ ~herrorBar
  BY <1>1 DEF cqBar, eventBar, herrorBar
<1>. QED BY <1>3, <1>4, <1>5, <1>6, <1>7, BarStart

\* A failure is stored in the completion of an update that was not queued.
LEMMA FailImplements ==
    ASSUME IInv, NEW u \in Updates, refs[u] > 0, NEW err \in Int,
           completion_set_error(u, err),
           UNCHANGED <<owner, cq, Signalling, eventBar, herrorBar>>
    PROVE  Abstract!Next \/ UNCHANGED Abstract!vars
<1>. USE DEF IInv
<1>1. \A v \in Updates :
        cerr'[v] = IF v = u THEN FirstError(cerr[v], err) ELSE cerr[v]
  BY DEF completion_set_error, TypeOK
<1>2. ~Queued(u) /\ owner[u] = "library"
  BY DEF Where
<1>3. UNCHANGED <<updatingBar, cqBar>>
  BY BarUnchanged
<1>4. u \in updatingBar
  BY <1>2 DEF updatingBar, Queued
<1>5. CASE FirstError(cerr[u], err) = 0
  <2>1. cerr[u] = 0 /\ cerr'[u] = 0
    BY <1>1, <1>5 DEF FirstError, TypeOK
  <2>2. badBar' = badBar
    BY <1>1, <2>1 DEF badBar
  <2>. QED BY <1>3, <2>2, BarStutters
<1>6. CASE FirstError(cerr[u], err) # 0
  <2>1. badBar' = badBar \cup {u}
    BY <1>1, <1>2, <1>6 DEF badBar, Queued
  <2>. QED BY Zenon, <1>3, <1>4, <2>1, BarFails DEF herrorBar
<1>. QED BY <1>5, <1>6

\* do_update() fails.
LEMMA FailUpdateImplements ==
    ASSUME IInv, NEW err, NEW stored \in Int, FailUpdate(err, stored),
           cpc \in {"submit", "collect"}, Signalling' = Signalling
    PROVE  Abstract!Next \/ UNCHANGED Abstract!vars
<1>1. cur \in Updates /\ refs[cur] > 0
  BY RefsOfHolders DEF IInv, Busy, CallerHolding
<1>2. /\ completion_set_error(cur, stored)
      /\ UNCHANGED <<owner, cq, event, error>>
  BY DEF FailUpdate, libVars
<1>. QED BY <1>1, <1>2, FailImplements, BarUnchanged

\* The store of set_error() fails the hash, and the update it belongs to.
LEMMA StoreImplements == IInv /\ StoreError => Abstract!Next
<1>. SUFFICES ASSUME IInv, StoreError PROVE Abstract!Next
  OBVIOUS
<1>. USE DEF IInv, libVars
<1>1. /\ UNCHANGED <<owner, cq, event, slot, cur>> /\ error' # 0
      /\ cpc \notin {"signal", "resignal"} /\ cpc' \notin {"signal", "resignal"}
  BY DEF StoreError, SetErrorStored, Busy
<1>2. UNCHANGED <<updatingBar, cqBar, eventBar>> /\ herrorBar' = TRUE
  BY <1>1, BarUnchanged DEF herrorBar
<1>3. Signalling' = Signalling
  BY <1>1, SignallingCaller DEF CallerSignals
<1>4. CASE cpc = "fail"
  <2>1. cur \in Updates /\ refs[cur] > 0
    BY <1>4, RefsOfHolders DEF Busy, CallerHolding
  <2>2. ~Queued(cur) /\ owner[cur] = "library"
    BY <2>1 DEF Where
  <2>3. /\ \A v \in Updates \ {cur} : cerr'[v] = cerr[v]
        /\ cerr'[cur] # 0
    BY <1>1, <1>4, <2>1 DEF StoreError, completion_set_error, FirstError, TypeOK
  <2>4. badBar' = badBar \cup {cur}
    BY <1>1, <2>1, <2>2, <2>3 DEF badBar, Queued
  <2>5. cur \in updatingBar
    BY <2>1, <2>2 DEF updatingBar, Queued
  <2>. QED BY Zenon, <1>2, <1>3, <2>1, <2>4, <2>5, BarFails
<1>5. CASE cpc # "fail"
  <2>1. badBar' = badBar
    BY <1>1, <1>5, BarUnchanged DEF StoreError
  <2>. QED BY <1>2, <1>3, <2>1, BarCallFails
<1>. QED BY <1>4, <1>5

\* Whoever dropped the last reference queues the completion.
LEMMA AppendImplements ==
    ASSUME IInv, NEW u \in Updates, Appending(u), AppendCompletion(u),
           UNCHANGED <<owner, cerr, event, error>>,
           Signalling' = IF cq = <<>> THEN Signalling + 1 ELSE Signalling
    PROVE  Abstract!Next
<1>. USE DEF IInv
<1>1. ~Queued(u) /\ owner[u] = "library"
  BY DEF Where
<1>2. /\ DOMAIN cq' = DOMAIN cq \cup {Len(cq) + 1}
      /\ Len(cq) \in Nat /\ Len(cq') = Len(cq) + 1
      /\ \A i \in DOMAIN cq : cq'[i] = cq[i]
      /\ cq'[Len(cq) + 1].user_data = u
      /\ cq'[Len(cq) + 1].error = cerr[u]
  BY Zenon, AppendQueues
<1>3. /\ u \in updatingBar /\ updatingBar' = updatingBar \ {u}
      /\ badBar' = badBar \ {u} /\ (u \in badBar) = (cerr[u] # 0)
  BY <1>1, <1>2 DEF updatingBar, badBar, Queued
<1>. DEFINE c == [user_data |-> u, error |-> u \in badBar]
<1>4. c \in BarCompletion
  BY DEF BarCompletion
<1>5. cq' \in Seq(Completion)
  BY AppendType
<1>6. /\ cqBar' = [i \in DOMAIN cq' |-> [user_data |-> cq'[i].user_data,
                                         error |-> cq'[i].error # 0]]
      /\ cqBar \in Seq(BarCompletion) /\ Len(cqBar) = Len(cq)
      /\ DOMAIN cq = 1..Len(cq)
  BY BarQueue DEF cqBar
<1>7. cqBar' = Append(cqBar, c)
  <2>1. /\ Append(cqBar, c) \in Seq(BarCompletion)
        /\ DOMAIN Append(cqBar, c) = 1..(Len(cq) + 1)
        /\ Append(cqBar, c)[Len(cq) + 1] = c
        /\ \A i \in 1..Len(cq) : Append(cqBar, c)[i] = cqBar[i]
    <3>. HIDE DEF c
    <3>. QED BY <1>2, <1>4, <1>6
  <2>2. DOMAIN cqBar' = 1..(Len(cq) + 1)
    BY <1>2, <1>6
  <2>3. \A i \in 1..Len(cq) : cqBar'[i] = cqBar[i]
    BY <1>2, <1>6, BarQueue
  <2>4. cqBar'[Len(cq) + 1] = c
    BY <1>2, <1>3, <1>6
  <2>. HIDE DEF c
  <2>5. \A i \in 1..(Len(cq) + 1) : cqBar'[i] = Append(cqBar, c)[i]
    BY <1>2, <2>1, <2>3, <2>4
  <2>6. cqBar' \in Seq(BarCompletion) /\ Len(cqBar') = Len(cq) + 1
    <3>1. \A i \in 1..(Len(cq) + 1) : cqBar'[i] \in BarCompletion
      BY <2>1, <2>5
    <3>2. DOMAIN cq' = 1..(Len(cq) + 1)
      BY <1>2, <1>6, <2>2
    <3>3. cqBar' \in [1..(Len(cq) + 1) -> BarCompletion]
      BY <1>6, <3>1, <3>2
    <3>. QED BY <1>2, <3>3
  <2>7. Len(Append(cqBar, c)) = Len(cq) + 1
    BY <1>4, <1>6
  <2>. QED BY Zenon, <2>1, <2>5, <2>6, <2>7, SameSequence
<1>8. cqBar = <<>> <=> cq = <<>>
  BY <1>6 DEF TypeOK
<1>. QED BY <1>3, <1>7, <1>8, BarDone, BarUnchanged

\* The completion fd is signalled, by a thread that is going to.
LEMMA SignalImplements ==
    ASSUME IInv, Signalling > 0, Signalling' = Signalling - 1,
           event_signal \/ event_signal_fails, UNCHANGED <<owner, cq, cerr, error>>
    PROVE  Abstract!Next
<1>1. event' > 0 \/ event' = event
  BY DEF event_signal, event_signal_fails, IInv, TypeOK
<1>2. eventBar' = TRUE \/ eventBar' = eventBar
  BY <1>1 DEF eventBar
<1>. QED BY Zenon, <1>2, BarSignal, BarUnchanged

\* The application reads the event: there was one signal and none is left.
LEMMA ReadImplements == IInv /\ ReadEvent => Abstract!Next
<1>. SUFFICES ASSUME IInv, ReadEvent PROVE Abstract!Next
  OBVIOUS
<1>1. /\ UNCHANGED <<owner, cq, cerr, error, slot>> /\ event > 0 /\ event' = Unread
      /\ cpc = "idle" /\ cpc' = "reap"
  BY DEF ReadEvent
<1>2. event = 1 /\ cq # <<>>
  <2>1. PICK si \in Nat, st \in Nat :
          si = Cardinality(SlotsAt("signal")) /\ st = Cardinality(SlotsAt("store"))
    BY SlotsAtFinite, Zenon
  <2>2. CallerNotifies = 0 /\ event \in Nat
    BY <1>1 DEF CallerNotifies, IInv, TypeOK
  <2>3. Notifications = event + si + st
    BY <2>1, <2>2, NotificationsSum DEF IInv
  <2>. QED BY <1>1, <2>1, <2>2, <2>3 DEF IInv, AtMostOne
<1>3. event' = 0
  BY <1>1, <1>2, DepthOfQueue, AioAssumption DEF Unread
<1>4. Signalling' = Signalling
  BY <1>1, SignallingCaller DEF CallerSignals
<1>5. eventBar /\ eventBar' = FALSE
  BY <1>1, <1>3 DEF eventBar
<1>. QED BY Zenon, <1>1, <1>4, <1>5, BarRead, BarUnchanged

\* The application reaps the oldest completions, and owns their buffers.
LEMMA ReapImplements == IInv /\ Completions => Abstract!Next
<1>. SUFFICES ASSUME IInv, Completions PROVE Abstract!Next
  OBVIOUS
<1>. USE DEF IInv
<1>0. PICK r \in Nat, k \in Nat : r = Reaped /\ k = Len(cq)
  <2>1. Reaped \in Nat /\ Len(cq) \in Nat
    BY ReapsQueue
  <2>. QED BY <2>1, Zenon
<1>1. /\ r <= k
      /\ DOMAIN cq = 1..k /\ DOMAIN cq' = 1..(k - r)
      /\ \A i \in DOMAIN cq' : cq'[i] = cq[i + r]
      /\ UNCHANGED <<event, error, cerr, slot>> /\ error = 0
      /\ cpc = "reap"
      /\ cpc' = IF r > 0 /\ r < k THEN "resignal" ELSE "idle"
  BY <1>0, ReapsQueue
<1>2. cqBar \in Seq(BarCompletion) /\ Len(cqBar) = k /\ DOMAIN cqBar = 1..k
  BY <1>0, <1>1, BarQueue
<1>3. cqBar' = SubSeq(cqBar, r + 1, Len(cqBar))
  <2>1. cqBar' = [i \in 1..(k - r) |-> cqBar[i + r]]
    <3>1. cqBar' = [i \in 1..(k - r) |-> [user_data |-> cq'[i].user_data,
                                          error |-> cq'[i].error # 0]]
      BY <1>1 DEF cqBar
    <3>2. ASSUME NEW i \in 1..(k - r)
          PROVE  cqBar[i + r] = [user_data |-> cq'[i].user_data,
                                 error |-> cq'[i].error # 0]
      <4>1. i + r \in DOMAIN cq /\ cq'[i] = cq[i + r]
        BY <1>1
      <4>. QED BY <4>1, BarQueue
    <3>. QED BY <3>1, <3>2
  <2>2. SubSeq(cqBar, r + 1, k) = [i \in 1..(k - r) |-> cqBar[i + r]]
    <3>. DEFINE q == SubSeq(cqBar, r + 1, k)
    <3>1. /\ q \in Seq(BarCompletion) /\ Len(q) = k - r
          /\ \A i \in 1..(k - r) : q[i] = cqBar[i + r]
      BY <1>1, <1>2
    <3>2. DOMAIN q = 1..(k - r)
      BY <3>1
    <3>. HIDE DEF q
    <3>3. q = [i \in DOMAIN q |-> q[i]]
      BY <3>1
    <3>. QED BY <3>1, <3>2, <3>3 DEF q
  <2>. QED BY <1>2, <2>1, <2>2
<1>4. UNCHANGED <<updatingBar, badBar>>
  <2>. SUFFICES ASSUME NEW u \in Updates
                PROVE  owner'[u] = "library" /\ ~Queued(u)'
                         <=> owner[u] = "library" /\ ~Queued(u)
    BY <1>1 DEF updatingBar, badBar, Queued
  <2>1. owner'[u] = IF \E i \in 1..Reaped : cq[i].user_data = u
                    THEN "application" ELSE owner[u]
    BY ReapsQueue
  <2>. QED BY <2>1, ReapsSome
<1>5. Signalling' = IF r \in 1..Len(cqBar) - 1 THEN Signalling + 1 ELSE Signalling
  BY <1>0, <1>1, <1>2, SignallingCaller DEF CallerSignals
<1>6. UNCHANGED <<eventBar, herrorBar>> /\ ~herrorBar
  BY <1>1 DEF eventBar, herrorBar
<1>7. r \in 0..Len(cqBar)
  BY <1>1, <1>2
<1>. QED BY <1>3, <1>4, <1>5, <1>6, <1>7, BarReap

\* A submission moves to another stage, and no thread starts or stops signalling.
LEMMA WorkerQuiet ==
    ASSUME IInv, NEW s \in Slots, \A t \in Slots \ {s} : slot'[t] = slot[t],
           slot[s].stage # "signal", slot'[s].stage # "signal", cpc' = cpc
    PROVE  Signalling' = Signalling
BY SignallingWorker

\* Steps the application does not see.
LEMMA CallerStutters ==
    ASSUME IInv,
           \/ \E u \in Updates : CompletionFails(u) \/ RefuseUpdate(u)
           \/ Collected \/ Submitted \/ CallerUnref \/ UpdateReturns
           \/ CompletionsFail \/ WorkerNotStarted \/ UNCHANGED vars
    PROVE  UNCHANGED Abstract!vars
<1>1. UNCHANGED <<owner, cq, cerr, event, error, slot>>
  BY DEF CompletionFails, RefuseUpdate, Collected, Submitted, CallerUnref,
         UpdateReturns, CompletionsFail, WorkerNotStarted, vars, libVars
<1>2. CallerSignals' = CallerSignals
  BY StageType DEF CompletionFails, RefuseUpdate, Collected, Submitted,
         CallerUnref, UpdateReturns, CompletionsFail, WorkerNotStarted, vars, libVars,
         callerVars, CallerSignals
<1>3. Signalling' = Signalling
  BY <1>1, <1>2, SignallingCaller DEF CallerSignals
<1>. QED BY <1>1, <1>3, BarUnchanged, BarStutters

\* Submitting a block, and a worker that lets go of one.
LEMMA WorkerStutters ==
    ASSUME IInv, NEW s \in Slots, SubmitBlock(s) \/ WorkerUnref(s) \/ WorkerEnd(s)
    PROVE  UNCHANGED Abstract!vars
<1>. USE DEF IInv
<1>1. UNCHANGED <<owner, cq, cerr, event, error>>
  BY Zenon DEF SubmitBlock, WorkerUnref, WorkerEnd, libVars
<1>2. Signalling' = Signalling
  <2>1. CASE SubmitBlock(s)
    <3>1. slot[s].stage = "free" /\ slot'[s].stage = "work"
      BY <2>1 DEF SubmitBlock, TypeOK
    <3>2. \A t \in Slots \ {s} : slot'[t] = slot[t]
      BY <2>1 DEF SubmitBlock, TypeOK
    <3>3. SlotsAt("signal")' = SlotsAt("signal")
      BY <3>1, <3>2 DEF SlotsAt
    <3>4. cpc = "submit" /\ cpc' = "collect"
      BY <2>1 DEF SubmitBlock
    <3>. QED BY <3>3, <3>4 DEF Signalling, SlotsAt
  <2>2. CASE WorkerUnref(s)
    <3>1. AfterUnref(slot[s].update) \in Stages
      BY StageType DEF Stages
    <3>. QED BY <2>2, <3>1, StageType, SetStageMoves, WorkerQuiet
             DEF WorkerUnref, callerVars
  <2>3. CASE WorkerEnd(s)
    <3>1. /\ \A t \in Slots \ {s} : slot'[t] = slot[t]
          /\ slot'[s].stage \in {"free", "failed"}
      BY <2>3 DEF WorkerEnd, Released, FreeSlot, TypeOK
    <3>. QED BY <2>3, <3>1, WorkerQuiet DEF WorkerEnd, callerVars
  <2>. QED BY <2>1, <2>2, <2>3
<1>. QED BY <1>1, <1>2, BarUnchanged, BarStutters

\* The steps in which a block fails or may fail.
LEMMA BlocksImplement ==
    ASSUME IInv, SubmitFails \/ \E s \in Slots : CollectFailed(s) \/ HashBlock(s)
    PROVE  Abstract!Next \/ UNCHANGED Abstract!vars
<1>. USE DEF IInv
<1>1. CASE SubmitFails
  <2>1. cpc = "submit" /\ cpc' = "fail" /\ slot' = slot
    BY <1>1 DEF SubmitFails, FailUpdate
  <2>2. Signalling' = Signalling
    BY <2>1, SignallingCaller DEF CallerSignals
  <2>3. FailUpdate(ENOMEM, 0) \/ FailUpdate(pool_error, pool_error)
    BY <1>1 DEF SubmitFails
  <2>4. pool_error \in Int
    BY DEF TypeOK
  <2>. QED BY <2>1, <2>2, <2>3, <2>4, FailUpdateImplements
<1>2. ASSUME NEW s \in Slots, CollectFailed(s)
      PROVE  Abstract!Next \/ UNCHANGED Abstract!vars
  <2>1. /\ cpc \in {"submit", "collect"} /\ cpc' = "fail"
        /\ FailUpdate(slot[s].error, 0)
        /\ slot[s].stage = "failed" /\ slot'[s].stage = "free"
        /\ \A t \in Slots \ {s} : slot'[t] = slot[t]
    BY <1>2 DEF CollectFailed, FailUpdate, FreeSlot, TypeOK
  <2>2. SlotsAt("signal")' = SlotsAt("signal")
    BY <2>1 DEF SlotsAt
  <2>3. Signalling' = Signalling
    BY Zenon, <2>1, <2>2 DEF Signalling, SlotsAt
  <2>. QED BY <2>1, <2>3, FailUpdateImplements
<1>3. ASSUME NEW s \in Slots, HashBlock(s)
      PROVE  Abstract!Next \/ UNCHANGED Abstract!vars
  <2>1. UNCHANGED <<owner, cq, event, error, cpc>>
    BY <1>3 DEF HashBlock, libVars, callerVars
  <2>2. Signalling' = Signalling
    BY <1>3, <2>1, HashBlockMoves, WorkerQuiet
  <2>3. CASE UNCHANGED cerr
    BY <2>1, <2>2, <2>3, BarUnchanged, BarStutters
  <2>4. CASE completion_set_error(slot[s].update, ENOMEM)
    <3>1. slot[s].update \in Updates /\ refs[slot[s].update] > 0
      <4>1. slot[s].stage \in SlotHolding
        BY <1>3 DEF HashBlock, SlotHolding
      <4>2. slot[s].update \in Updates
        BY <4>1 DEF Busy
      <4>. QED BY <4>1, <4>2, RefsOfHolders DEF SlotsOf
    <3>2. ENOMEM \in Int
      BY DEF ENOMEM
    <3>. QED BY Zenon, <2>1, <2>2, <2>4, <3>1, <3>2, FailImplements, BarUnchanged
  <2>. QED BY <1>3, <2>3, <2>4 DEF HashBlock
<1>. QED BY <1>1, <1>2, <1>3

\* A worker queues a completion, signals or fails the hash.
LEMMA WorkerImplements ==
    ASSUME IInv, NEW s \in Slots,
           WorkerAppend(s) \/ WorkerSignal(s) \/ WorkerStore(s)
    PROVE  Abstract!Next
<1>. USE DEF IInv
<1>1. CASE WorkerAppend(s)
  <2>1. AfterAppend \in Stages
    BY Zenon, StageType DEF Stages
  <2>2. /\ \A t \in Slots \ {s} : slot'[t] = slot[t]
        /\ slot'[s].stage = AfterAppend /\ slot[s].stage = "append" /\ cpc' = cpc
    BY Zenon, <1>1, <2>1, SetStageMoves DEF WorkerAppend, callerVars
  <2>3. Signalling' = IF cq = <<>> THEN Signalling + 1 ELSE Signalling
    BY <2>2, SignallingWorker DEF AfterAppend
  <2>4. slot[s].update \in Updates
    BY <2>2 DEF Busy
  <2>5. Appending(slot[s].update)
    BY <2>2 DEF Appending, SlotAppends
  <2>6. AppendCompletion(slot[s].update) /\ UNCHANGED <<owner, cerr, event, error>>
    BY <1>1 DEF WorkerAppend
  <2>. QED BY <2>3, <2>4, <2>5, <2>6, AppendImplements
<1>2. CASE WorkerSignal(s)
  <2>1. PICK stage \in {"end", "store"} : SetStage(s, stage)
    BY <1>2 DEF WorkerSignal
  <2>2. /\ \A t \in Slots \ {s} : slot'[t] = slot[t]
        /\ slot'[s].stage # "signal" /\ slot[s].stage = "signal" /\ cpc' = cpc
    BY <1>2, <2>1, SetStageMoves DEF WorkerSignal, callerVars, Stages
  <2>3. Signalling > 0 /\ Signalling' = Signalling - 1
    BY <2>2, SignallingWorker
  <2>. QED BY <1>2, <2>3, SignalImplements DEF WorkerSignal
<1>3. CASE WorkerStore(s)
  <2>1. /\ \A t \in Slots \ {s} : slot'[t] = slot[t]
        /\ slot'[s].stage # "signal" /\ slot[s].stage # "signal" /\ cpc' = cpc
    BY <1>3, SetStageMoves DEF WorkerStore, callerVars, Stages
  <2>2. /\ UNCHANGED <<owner, cq, cerr, event>> /\ error' # 0
    BY <1>3 DEF WorkerStore, libVars, SetErrorStored, EBADF
  <2>3. herrorBar' = TRUE
    BY <2>2 DEF herrorBar
  <2>. QED BY Zenon, <2>1, <2>2, <2>3, WorkerQuiet, BarCallFails, BarUnchanged
<1>. QED BY <1>1, <1>2, <1>3

\* The caller queues a completion, or signals.
LEMMA CallerImplements ==
    ASSUME IInv, CallerAppend \/ CallerSignal \/ Resignal
    PROVE  Abstract!Next
<1>. USE DEF IInv
<1>1. CASE CallerAppend
  <2>1. cpc = "append" /\ cpc' = AfterAppend /\ slot' = slot
    BY <1>1 DEF CallerAppend
  <2>2. Signalling' = IF cq = <<>> THEN Signalling + 1 ELSE Signalling
    BY <2>1, SignallingCaller DEF CallerSignals, AfterAppend
  <2>3. cur \in Updates /\ Appending(cur)
    BY <2>1 DEF Busy, Appending, CallerAppends
  <2>4. AppendCompletion(cur) /\ UNCHANGED <<owner, cerr, event, error>>
    BY <1>1 DEF CallerAppend
  <2>. QED BY <2>2, <2>3, <2>4, AppendImplements
<1>2. CASE CallerSignal \/ Resignal
  <2>1. /\ cpc \in {"signal", "resignal"} /\ cpc' \notin {"signal", "resignal"}
        /\ slot' = slot /\ UNCHANGED <<owner, cq, cerr, error>>
        /\ event_signal \/ event_signal_fails
    BY <1>2 DEF CallerSignal, Resignal
  <2>2. Signalling > 0 /\ Signalling' = Signalling - 1
    BY <2>1, SignallingCaller DEF CallerSignals
  <2>. QED BY <2>1, <2>2, SignalImplements
<1>. QED BY <1>1, <1>2

-----------------------------------------------------------------------------
(* The refinement *)

\* The queue starts as the abstract one.
LEMMA InitImplements == Init => Abstract!Init
<1>. SUFFICES ASSUME Init PROVE Abstract!Init
  OBVIOUS
<1>1. /\ updatingBar = {} /\ badBar = {} /\ cqBar = <<>>
      /\ eventBar = FALSE /\ herrorBar = FALSE
  BY DEF Init, updatingBar, badBar, cqBar, eventBar, herrorBar
<1>2. Signalling = 0
  <2>1. {s \in Slots : slot[s].stage = "signal"} = {}
    BY DEF Init, FreeSlot
  <2>2. Cardinality({s \in Slots : slot[s].stage = "signal"}) = 0
    BY <2>1, FS_EmptySet, Zenon
  <2>. QED BY <2>2 DEF Signalling, Init
<1>. QED BY <1>1, <1>2
         DEF Abstract!Init, updatingBar, badBar, cqBar, eventBar, herrorBar

\* Every step is one of the abstract queue, or is not visible.
LEMMA NextImplements ==
    IInv /\ [Next]_vars => [Abstract!Next]_(Abstract!vars)
<1>. SUFFICES ASSUME IInv, [Next]_vars
              PROVE  Abstract!Next \/ UNCHANGED Abstract!vars
  OBVIOUS
<1>1. CASE \E u \in Updates, n \in 0..MaxBlocks : StartUpdate(u, n)
  BY <1>1, StartImplements
<1>2. CASE \/ \E u \in Updates : CompletionFails(u) \/ RefuseUpdate(u)
           \/ Collected \/ Submitted \/ CallerUnref \/ UpdateReturns
           \/ CompletionsFail \/ WorkerNotStarted \/ UNCHANGED vars
  BY <1>2, CallerStutters
<1>3. CASE SubmitFails \/ \E s \in Slots : CollectFailed(s) \/ HashBlock(s)
  BY <1>3, BlocksImplement
<1>4. CASE \E s \in Slots : SubmitBlock(s) \/ WorkerUnref(s) \/ WorkerEnd(s)
  BY <1>4, WorkerStutters
<1>5. CASE \E s \in Slots : WorkerAppend(s) \/ WorkerSignal(s) \/ WorkerStore(s)
  BY <1>5, WorkerImplements
<1>6. CASE CallerAppend \/ CallerSignal \/ Resignal
  BY <1>6, CallerImplements
<1>7. CASE StoreError
  BY <1>7, StoreImplements
<1>8. CASE ReadEvent
  BY <1>8, ReadImplements
<1>9. CASE Completions
  BY <1>9, ReapImplements
<1>. QED BY Zenon, <1>1, <1>2, <1>3, <1>4, <1>5, <1>6, <1>7, <1>8, <1>9
         DEF Next, Caller, Worker, Complete

\* blkhash_aio_update(), blkhash_aio_completions() and the workers that call
\* update_completed() behave as the abstract async API, for any number of
\* updates, submissions and blocks and any queue depth, whatever fails.
THEOREM ImplementsAsyncAPI == Spec => ImplementsAsync
BY InitImplements, NextImplements, Invariance, PTL
   DEF Spec, ImplementsAsync, Abstract!Spec
=============================================================================
