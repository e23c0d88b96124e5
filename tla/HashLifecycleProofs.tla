------------------------ MODULE HashLifecycleProofs -------------------------
(***************************************************************************)
(* Proofs about HashLifecycle, for any number of workers and submissions   *)
(* and any queue size.                                                     *)
(*                                                                         *)
(* The pool inside a hash takes the steps of HashPool, and one more: after *)
(* hash_pool_init() failed it may be stopped again.  The lemmas of         *)
(* HashPoolProofs hold of that step too.  The submission queue of its      *)
(* owner is a ring, and a ring is a FIFO of any size: a push appends to    *)
(* what it stands for and a pop removes the head, wherever the indices     *)
(* are.                                                                    *)
(***************************************************************************)
EXTENDS HashLifecycle, HashPoolProofs

-----------------------------------------------------------------------------
(* Sequences *)

\* Two sequences are equal when their lengths and their elements are.
LEMMA SameSequence ==
    ASSUME NEW S, NEW s \in Seq(S), NEW t \in Seq(S),
           Len(s) = Len(t), \A i \in 1..Len(s) : s[i] = t[i]
    PROVE  s = t
OBVIOUS

\* A part of a sequence.
LEMMA PartOfSequence ==
    ASSUME NEW S, NEW s, NEW m \in Int, NEW n \in Int, \A i \in m..n : s[i] \in S
    PROVE  /\ SubSeq(s, m, n) \in Seq(S)
           /\ Len(SubSeq(s, m, n)) = IF m <= n THEN n - m + 1 ELSE 0
           /\ \A i \in 1..n - m + 1 : SubSeq(s, m, n)[i] = s[m + i - 1]
OBVIOUS

-----------------------------------------------------------------------------
(* The ring *)

\* A quotient and a remainder are the ones of the division.
LEMMA Division ==
    ASSUME NEW n \in Nat \ {0}, NEW a \in Nat, NEW q \in Nat, NEW r \in 0..n - 1,
           a = q * n + r
    PROVE  a % n = r
  OBVIOUS

\* The index of an entry: the modulo of the code wraps around at most once.
LEMMA Wraps ==
    ASSUME NEW n \in Nat \ {0}, NEW h \in 0..n - 1, NEW k \in 0..n
    PROVE  /\ h + k < n => (h + k) % n = h + k
           /\ n <= h + k => (h + k) % n = h + k - n
  <1>1. PICK a \in Nat : a = h + k /\ a < n + n
    OBVIOUS
  <1>2. ASSUME a < n PROVE a % n = a
    <2>1. a = 0 * n + a
      OBVIOUS
    <2>2. QED
      BY <1>2, <2>1, Division
  <1>3. ASSUME n <= a PROVE a % n = a - n
    <2>1. a = 1 * n + (a - n) /\ a - n \in 0..n - 1
      BY <1>1, <1>3
    <2>2. QED
      BY <2>1, Division
  <1>4. QED
    BY <1>1, <1>2, <1>3

\* An entry stays where it is when the head moves past another one, and the
\* tail moves to the entry behind the last.
LEMMA Moves ==
    ASSUME NEW n \in Nat \ {0}, NEW h \in 0..n - 1, NEW k \in 0..n - 1
    PROVE  /\ (((h + 1) % n) + k) % n = (h + (k + 1)) % n
           /\ (((h + k) % n) + 1) % n = (h + (k + 1)) % n
  <1>1. PICK m \in 0..n, one \in 0..n : m = k + 1 /\ one = 1
    OBVIOUS
  <1> k \in 0..n
    OBVIOUS
  <1>2. /\ h + m < n => (h + m) % n = h + m
        /\ n <= h + m => (h + m) % n = h + m - n
    BY Zenon, Wraps
  <1>3. PICK a \in 0..n - 1 : a = (h + one) % n /\ a = IF h + one < n THEN h + one ELSE h + one - n
    <2>1. /\ h + one < n => (h + one) % n = h + one
          /\ n <= h + one => (h + one) % n = h + one - n
      BY Zenon, Wraps
    <2>2. (IF h + one < n THEN h + one ELSE h + one - n) \in 0..n - 1
      BY <1>1
    <2>3. QED
      BY <2>1, <2>2
  <1>4. PICK b \in 0..n - 1 : b = (h + k) % n /\ b = IF h + k < n THEN h + k ELSE h + k - n
    <2>1. /\ h + k < n => (h + k) % n = h + k
          /\ n <= h + k => (h + k) % n = h + k - n
      BY Zenon, Wraps
    <2>2. (IF h + k < n THEN h + k ELSE h + k - n) \in 0..n - 1
      OBVIOUS
    <2>3. QED
      BY <2>1, <2>2
  <1>5. /\ a + k < n => (a + k) % n = a + k
        /\ n <= a + k => (a + k) % n = a + k - n
    BY Zenon, Wraps
  <1>6. /\ b + one < n => (b + one) % n = b + one
        /\ n <= b + one => (b + one) % n = b + one - n
    BY Zenon, Wraps
  <1>7. (a + k) % n = (h + m) % n
    BY <1>1, <1>2, <1>3, <1>5
  <1>8. (b + one) % n = (h + m) % n
    BY <1>1, <1>2, <1>4, <1>6
  <1>9. QED
    BY <1>1, <1>3, <1>4, <1>7, <1>8

\* In a ring that is not full no entry is at the tail.
LEMMA TailIsFree ==
    ASSUME NEW n \in Nat \ {0}, NEW h \in 0..n - 1, NEW l \in 0..n - 1, NEW k \in 0..l - 1
    PROVE  (h + k) % n # (h + l) % n
  <1>1. PICK j \in 0..n : j = k
    OBVIOUS
  <1> l \in 0..n
    OBVIOUS
  <1>2. /\ h + j < n => (h + j) % n = h + j
        /\ n <= h + j => (h + j) % n = h + j - n
    BY Zenon, Wraps
  <1>3. /\ h + l < n => (h + l) % n = h + l
        /\ n <= h + l => (h + l) % n = h + l - n
    BY Zenon, Wraps
  <1>4. QED
    BY <1>1, <1>2, <1>3

\* The ring starts empty.
THEOREM InitIsEmpty ==
    ASSUME NEW S, NEW any \in S, NEW n \in Nat \ {0}
    PROVE  WellFormed(RingInit(n, any), S) /\ Contents(RingInit(n, any)) = <<>>
  <1> DEFINE r == RingInit(n, any)
  <1>1. r.size = n /\ r.len = 0 /\ r.head = 0 /\ r.tail = 0
    BY DEF RingInit
  <1>2. (0 + 0) % n = 0
    BY Wraps
  <1>3. r \in [ring : [0..n - 1 -> S], size : Nat, len : 0..n,
               head : 0..n - 1, tail : 0..n - 1]
    BY DEF RingInit
  <1>4. WellFormed(r, S)
    BY <1>1, <1>2, <1>3 DEF WellFormed
  <1>5. Contents(r) = <<>>
    BY <1>1 DEF Contents
  <1>6. QED
    BY <1>4, <1>5

\* What a well-formed ring is made of.
LEMMA Parts ==
    ASSUME NEW S, NEW r, WellFormed(r, S)
    PROVE  \E n \in Nat \ {0} : \E l \in 0..n, h, t \in 0..n - 1, f \in [0..n - 1 -> S] :
             /\ r = [ring |-> f, size |-> n, len |-> l, head |-> h, tail |-> t]
             /\ t = (h + l) % n
  <1>1. /\ r.size \in Nat \ {0} /\ r.len \in 0..r.size /\ r.head \in 0..r.size - 1
        /\ r.tail \in 0..r.size - 1 /\ r.ring \in [0..r.size - 1 -> S]
        /\ r.tail = (r.head + r.len) % r.size
    BY DEF WellFormed
  <1>2. r = [ring |-> r.ring, size |-> r.size, len |-> r.len, head |-> r.head,
             tail |-> r.tail]
    BY DEF WellFormed
  <1>3. QED
    BY <1>1, <1>2, Zenon

\* A ring made of such parts is well-formed.
LEMMA Made ==
    ASSUME NEW S, NEW n \in Nat \ {0}, NEW l \in 0..n, NEW h \in 0..n - 1,
           NEW f \in [0..n - 1 -> S]
    PROVE  WellFormed([ring |-> f, size |-> n, len |-> l, head |-> h,
                       tail |-> (h + l) % n], S)
  <1>1. (h + l) % n \in 0..n - 1
    OBVIOUS
  <1>2. QED
    BY <1>1 DEF WellFormed

\* What a ring stands for, entry by entry.
LEMMA Entries ==
    ASSUME NEW S, NEW r, WellFormed(r, S)
    PROVE  /\ Contents(r) \in Seq(S) /\ Len(Contents(r)) = r.len
           /\ \A k \in 0..r.len - 1 :
                /\ (r.head + k) % r.size \in 0..r.size - 1
                /\ Contents(r)[k + 1] = r.ring[(r.head + k) % r.size]
  <1>1. PICK n \in Nat \ {0} : \E l \in 0..n, h, t \in 0..n - 1, f \in [0..n - 1 -> S] :
          /\ r = [ring |-> f, size |-> n, len |-> l, head |-> h, tail |-> t]
          /\ t = (h + l) % n
    BY Parts
  <1>2. PICK l \in 0..n, h \in 0..n - 1, t \in 0..n - 1, f \in [0..n - 1 -> S] :
          r = [ring |-> f, size |-> n, len |-> l, head |-> h, tail |-> t]
    BY Zenon, <1>1
  <1>3. Contents(r) = [i \in 1..l |-> f[(h + i - 1) % n]]
    BY <1>2 DEF Contents
  <1>4. \A i \in 1..l : (h + i - 1) % n \in 0..n - 1
    OBVIOUS
  <1>5. \A i \in 1..l : f[(h + i - 1) % n] \in S
    BY <1>4
  <1>6. Contents(r) \in Seq(S) /\ Len(Contents(r)) = l
    BY <1>3, <1>5
  <1>7. ASSUME NEW k \in 0..l - 1
        PROVE  (h + k) % n \in 0..n - 1 /\ Contents(r)[k + 1] = f[(h + k) % n]
    <2>1. k + 1 \in 1..l /\ h + (k + 1) - 1 = h + k
      OBVIOUS
    <2>2. QED
      BY <1>3, <1>4, <2>1
  <1>8. QED
    BY <1>2, <1>6, <1>7

\* submission_queue_push() on a ring that is not full adds the submission
\* behind the others and moves none of them, wherever the tail is.
THEOREM PushAppends ==
    ASSUME NEW S, NEW r, WellFormed(r, S), ~RingFull(r), NEW x \in S
    PROVE  /\ WellFormed(RingPush(r, x), S)
           /\ Contents(RingPush(r, x)) = Append(Contents(r), x)
  <1>1. PICK n \in Nat \ {0} : \E l \in 0..n, h, t \in 0..n - 1, f \in [0..n - 1 -> S] :
          /\ r = [ring |-> f, size |-> n, len |-> l, head |-> h, tail |-> t]
          /\ t = (h + l) % n
    BY Parts
  <1>2. PICK l \in 0..n, h \in 0..n - 1, t \in 0..n - 1, f \in [0..n - 1 -> S] :
          /\ r = [ring |-> f, size |-> n, len |-> l, head |-> h, tail |-> t]
          /\ t = (h + l) % n
    BY Zenon, <1>1
  <1>3. l \in 0..n - 1 /\ l + 1 \in 0..n
    BY <1>2 DEF RingFull
  <1> DEFINE g == [f EXCEPT ![t] = x]
             p == RingPush(r, x)
  <1>4. p = [ring |-> g, size |-> n, len |-> l + 1, head |-> h, tail |-> (t + 1) % n]
    BY Zenon, <1>2 DEF RingPush, RingNext
  <1>5. (t + 1) % n = (h + (l + 1)) % n
    BY Zenon, <1>2, <1>3, Moves
  <1>6. g \in [0..n - 1 -> S]
    OBVIOUS
  <1>7. PICK m \in 0..n : m = l + 1
    BY <1>3
  <1>8. p = [ring |-> g, size |-> n, len |-> m, head |-> h, tail |-> (h + m) % n]
    BY <1>4, <1>5, <1>7
  <1> HIDE DEF g, p
  <1>9. WellFormed(p, S)
    BY <1>6, <1>8, Made
  <1>10. /\ Contents(r) \in Seq(S) /\ Len(Contents(r)) = l
         /\ \A k \in 0..l - 1 : /\ (h + k) % n \in 0..n - 1
                               /\ Contents(r)[k + 1] = f[(h + k) % n]
    <2>1. r.ring = f /\ r.size = n /\ r.len = l /\ r.head = h
      BY <1>2
    <2>2. QED
      BY Zenon, <2>1, Entries
  <1>11. /\ Contents(p) \in Seq(S) /\ Len(Contents(p)) = m
         /\ \A k \in 0..m - 1 : /\ (h + k) % n \in 0..n - 1
                               /\ Contents(p)[k + 1] = g[(h + k) % n]
    <2>1. p.ring = g /\ p.size = n /\ p.len = m /\ p.head = h
      BY <1>8
    <2>2. QED
      BY Zenon, <1>9, <2>1, Entries
  <1>12. ASSUME NEW i \in 1..l PROVE Contents(p)[i] = Contents(r)[i]
    <2>1. PICK k \in 0..l - 1 : i = k + 1
      <3>1. i - 1 \in 0..l - 1 /\ i = (i - 1) + 1
        OBVIOUS
      <3>2. QED
        BY <3>1
    <2>2. (h + k) % n # t
      BY Zenon, <1>2, <1>3, TailIsFree
    <2>3. g[(h + k) % n] = f[(h + k) % n]
      BY <1>10, <2>2 DEF g
    <2>4. k \in 0..m - 1
      BY <1>7
    <2>5. QED
      BY <1>10, <1>11, <2>1, <2>3, <2>4
  <1>13. Contents(p)[l + 1] = x
    <2>1. l \in 0..m - 1
      BY <1>3, <1>7
    <2>2. g[(h + l) % n] = x
      BY <1>2 DEF g
    <2>3. QED
      BY <1>11, <2>1, <2>2
  <1>14. Contents(p) = Append(Contents(r), x)
    BY <1>7, <1>10, <1>11, <1>12, <1>13
  <1>15. QED
    BY <1>9, <1>14 DEF p

\* submission_queue_pop() on a ring that is not empty takes the oldest
\* submission away, the one submission_queue_first() returns, and moves none of
\* the others, wherever the head is.
THEOREM PopIsTail ==
    ASSUME NEW S, NEW r, WellFormed(r, S), r.len # 0
    PROVE  /\ WellFormed(RingPop(r), S)
           /\ RingFirst(r) = Head(Contents(r))
           /\ Contents(RingPop(r)) = Tail(Contents(r))
  <1>1. PICK n \in Nat \ {0} : \E l \in 0..n, h, t \in 0..n - 1, f \in [0..n - 1 -> S] :
          /\ r = [ring |-> f, size |-> n, len |-> l, head |-> h, tail |-> t]
          /\ t = (h + l) % n
    BY Parts
  <1>2. PICK l \in 0..n, h \in 0..n - 1, t \in 0..n - 1, f \in [0..n - 1 -> S] :
          /\ r = [ring |-> f, size |-> n, len |-> l, head |-> h, tail |-> t]
          /\ t = (h + l) % n
    BY Zenon, <1>1
  <1>3. PICK m \in 0..n - 1 : l = m + 1
    <2>1. l # 0
      BY <1>2
    <2>2. l - 1 \in 0..n - 1 /\ l = (l - 1) + 1
      BY <2>1
    <2>3. QED
      BY <2>2
  <1>4. PICK b \in 0..n - 1 : b = (h + 1) % n
    OBVIOUS
  <1> DEFINE p == RingPop(r)
  <1>5. p = [ring |-> f, size |-> n, len |-> m, head |-> b, tail |-> t]
    <2>1. RingNext(r, r.head) = b /\ r.len - 1 = m
      BY <1>2, <1>3, <1>4 DEF RingNext
    <2>2. p = [r EXCEPT !.head = b, !.len = m]
      BY Zenon, <2>1 DEF RingPop
    <2>3. QED
      BY Zenon, <1>2, <2>2
  <1>6. \A k \in 0..n - 1 : (b + k) % n = (h + (k + 1)) % n
    BY <1>4, Moves
  <1>7. t = (b + m) % n
    BY <1>2, <1>3, <1>6
  <1>8. m \in 0..n
    OBVIOUS
  <1>9. WellFormed(p, S)
    BY <1>5, <1>7, <1>8, Made
  <1> HIDE DEF p
  <1>10. /\ Contents(r) \in Seq(S) /\ Len(Contents(r)) = l
         /\ \A k \in 0..l - 1 : /\ (h + k) % n \in 0..n - 1
                               /\ Contents(r)[k + 1] = f[(h + k) % n]
    <2>1. r.ring = f /\ r.size = n /\ r.len = l /\ r.head = h
      BY <1>2
    <2>2. QED
      BY Zenon, <2>1, Entries
  <1>11. /\ Contents(p) \in Seq(S) /\ Len(Contents(p)) = m
         /\ \A k \in 0..m - 1 : Contents(p)[k + 1] = f[(b + k) % n]
    <2>1. p.ring = f /\ p.size = n /\ p.len = m /\ p.head = b
      BY <1>5
    <2>2. QED
      BY Zenon, <1>9, <2>1, Entries
  <1>12. RingFirst(r) = Head(Contents(r))
    <2>1. (h + 0) % n = h
      <3>1. 0 \in 0..n
        OBVIOUS
      <3>2. PICK z \in 0..n : z = 0
        BY <3>1
      <3>3. h + z < n => (h + z) % n = h + z
        BY Zenon, Wraps
      <3>4. QED
        BY <3>2, <3>3
    <2>2. 0 \in 0..l - 1 /\ 0 + 1 = 1
      BY <1>3
    <2>3. Contents(r)[1] = f[h]
      BY Zenon, <1>10, <2>1, <2>2
    <2>4. QED
      BY <1>2, <1>3, <1>10, <2>3 DEF RingFirst
  <1>13. ASSUME NEW i \in 1..m PROVE Contents(p)[i] = Contents(r)[i + 1]
    <2>1. PICK k \in 0..m - 1 : i = k + 1
      <3>1. i - 1 \in 0..m - 1 /\ i = (i - 1) + 1
        OBVIOUS
      <3>2. QED
        BY <3>1
    <2>2. (b + k) % n = (h + (k + 1)) % n
      BY <1>6
    <2>3. k + 1 \in 0..l - 1
      BY <1>3
    <2>4. Contents(r)[(k + 1) + 1] = f[(h + (k + 1)) % n]
      BY Zenon, <1>10, <2>3
    <2>5. QED
      BY <1>11, <2>1, <2>2, <2>4
  <1>14. Contents(p) = Tail(Contents(r))
    BY <1>3, <1>10, <1>11, <1>13
  <1>15. QED
    BY <1>9, <1>12, <1>14 DEF p

-----------------------------------------------------------------------------
(* The pool of a hash *)

\* A step of the hash is one of the pool, or leaves the pool alone, or stops a
\* pool that was released.
LEMMA PoolStepOrStop == [NextHash]_allVars => [Next]_vars \/ StopAgain
<1>1. ASSUME NEW w \in Workers, CreateWorker(w) PROVE Next
  BY <1>1 DEF CreateWorker, Next
<1>2. InitFails => Next
  BY DEF InitFails, Next
<1>3. ASSUME NEW s \in Subs, SubmitBlock(s) PROVE Next
  BY <1>3 DEF SubmitBlock, Next
<1>4. FreePool => Next
  BY DEF FreePool, Next
<1>5. JoinWorkers => Next
  BY DEF JoinWorkers, Next
<1>6. ASSUME NEW w \in Workers, WorkerStep(w) \/ Wakeup(w) PROVE Next
  BY <1>6 DEF WorkerStep, Wakeup, Next
<1>7. Over \/ UNCHANGED allVars => UNCHANGED vars
  BY DEF Over, allVars
<1>8. Acquire \/ NewFails \/ StartSubmit \/ StartFinal \/ CreateFails \/ HashFirst
        \/ Collected \/ EndFinal \/ StartFree \/ FreeQueues
        => UNCHANGED vars
  BY DEF Acquire, NewFails, StartSubmit, StartFinal, CreateFails, HashFirst, Collected,
     EndFinal, StartFree, FreeQueues
<1>. QED BY <1>1, <1>2, <1>3, <1>4, <1>5, <1>6, <1>7, <1>8 DEF NextHash

LEMMA PoolStep == [NextHash]_allVars => [AnyNext]_vars
<1>1. StopAgain => [AnyNext]_vars
  BY Zenon DEF StopAgain, AnyNext
<1>. QED BY Zenon, <1>1, PoolStepOrStop DEF AnyNext

\* Inside a hash the pool behaves as HashPool, whatever the owner does, as long as
\* stop_workers() uses nothing of it that was released: all that is proved of
\* HashPool holds of the pool in blkhash_new_opts(), the calls and blkhash_free().
\* NothingUsedAfterFree tells when it uses something: if pthread_cond_init() or
\* pthread_create() failed in the constructor.
THEOREM ImplementsHashPool == SpecHash => ([](used = {}) => Spec)
<1>1. InitHash => Init
  BY DEF InitHash
<1>2. StopAgain => used' # {}
  BY Zenon DEF StopAgain
<1>3. [NextHash]_allVars /\ (used = {})' => [Next]_vars
  BY Zenon, <1>2, PoolStepOrStop
<1>. QED BY <1>1, <1>3, PTL DEF SpecHash, Spec

\* The inductive invariant of HashPool holds always.
LEMMA PoolInvariance == SpecHash => []IInv
<1>1. InitHash => IInv
  BY Zenon, InitIInv DEF InitHash
<1>2. IInv /\ [NextHash]_allVars => IInv'
  BY Zenon, PoolStep, NextIInv
<1>. QED BY <1>1, <1>2, PTL DEF SpecHash

-----------------------------------------------------------------------------
(* The constructor *)

Last == Len(Steps(async))

LEMMA StepsAre ==
    ASSUME async \in BOOLEAN
    PROVE  /\ Last \in Nat /\ Last > 8
           /\ Steps(async)[1] = "h" /\ Steps(async)[2] = "config"
           /\ Steps(async)[3] = "queue" /\ Steps(async)[4] = "workers"
           /\ Steps(async)[5] = "mutex" /\ Steps(async)[6] = "cond"
           /\ Steps(async)[7] = "threads"
           /\ \A i \in 8..Last : Steps(async)[i] \in HashResources \cup {"digest_init"}
<1>1. CASE async = TRUE
  BY <1>1 DEF Last, Steps, HashResources
<1>2. CASE async = FALSE
  BY <1>2 DEF Last, Steps, HashResources
<1>. QED BY Zenon, <1>1, <1>2

-----------------------------------------------------------------------------
(* The submission queue *)

\* The submissions in the queue, and that they are the last ones that were pushed.
InQueue == {Contents(sq)[i] : i \in 1..sq.len}

Fifo ==
    /\ WellFormed(sq, Subs \cup {None}) /\ sq.size = QueueSize
    /\ order \in Seq(Subs)
    /\ sq.len <= Len(order)
    /\ \A i \in 1..sq.len : Contents(sq)[i] = order[Len(order) - sq.len + i]

LEMMA QueueIs ==
    ASSUME Fifo
    PROVE  /\ sq.len \in Nat /\ Contents(sq) \in Seq(Subs \cup {None})
           /\ Len(Contents(sq)) = sq.len /\ Len(order) \in Nat
           /\ \A i \in 1..sq.len : Len(order) - sq.len + i \in DOMAIN order
           /\ InQueue \subseteq {order[i] : i \in DOMAIN order}
<1>0. WellFormed(sq, Subs \cup {None}) /\ order \in Seq(Subs) /\ sq.len <= Len(order)
  BY DEF Fifo
<1>1. sq.len \in Nat
  BY <1>0 DEF WellFormed
<1>2. Contents(sq) \in Seq(Subs \cup {None}) /\ Len(Contents(sq)) = sq.len
  BY <1>0, Entries
<1>3. Len(order) \in Nat /\ \A i \in 1..sq.len : Len(order) - sq.len + i \in DOMAIN order
  BY <1>0, <1>1
<1>4. InQueue \subseteq {order[i] : i \in DOMAIN order}
  BY <1>3 DEF InQueue, Fifo
<1>. QED BY <1>1, <1>2, <1>3, <1>4

\* submission_queue_push() of a submission.
LEMMA Pushed ==
    ASSUME Fifo, ~SqFull, NEW s \in Subs, sq' = RingPush(sq, s), order' = Append(order, s)
    PROVE  /\ Fifo' /\ InQueue' = InQueue \cup {s}
           /\ {order'[i] : i \in DOMAIN order'} = {order[i] : i \in DOMAIN order} \cup {s}
<1>. DEFINE S == Subs \cup {None}
<1>0. /\ WellFormed(sq, S) /\ ~RingFull(sq) /\ s \in S /\ sq.size = QueueSize
      /\ order \in Seq(Subs)
  BY DEF Fifo, SqFull
<1>1. /\ WellFormed(sq', S) /\ Contents(sq') = Append(Contents(sq), s)
  <2>1. /\ WellFormed(RingPush(sq, s), S)
        /\ Contents(RingPush(sq, s)) = Append(Contents(sq), s)
    BY <1>0, PushAppends
  <2>. QED BY <2>1
<1>2. PICK l \in Nat, n \in Nat : l = sq.len /\ n = Len(order) /\ l <= n
  BY QueueIs DEF Fifo
<1>3. sq'.len = l + 1 /\ sq'.size = QueueSize
  <2>1. sq \in [ring : [0..sq.size - 1 -> S], size : Nat, len : 0..sq.size,
                head : 0..sq.size - 1, tail : 0..sq.size - 1]
    BY <1>0 DEF WellFormed
  <2>. QED BY <1>0, <1>2, <2>1 DEF RingPush
<1>4. /\ Contents(sq) \in Seq(S) /\ Len(Contents(sq)) = l
  BY <1>2, QueueIs
<1>5. /\ \A i \in 1..l : Contents(sq')[i] = Contents(sq)[i]
      /\ Contents(sq')[l + 1] = s
  <2>. DEFINE c == Contents(sq)
  <2>1. c \in Seq(S) /\ Len(c) = l /\ s \in S
    BY <1>0, <1>4
  <2>. HIDE DEF c
  <2>2. /\ \A i \in 1..l : Append(c, s)[i] = c[i]
        /\ Append(c, s)[l + 1] = s
    BY <2>1
  <2>. QED BY Zenon, <1>1, <2>2 DEF c
<1>6. /\ order' \in Seq(Subs) /\ Len(order') = n + 1
      /\ \A i \in 1..n : order'[i] = order[i]
      /\ order'[n + 1] = s
  BY <1>0, <1>2
<1>7. \A i \in 1..l : Contents(sq)[i] = order[n - l + i]
  BY <1>2 DEF Fifo
<1>8. \A i \in 1..(l + 1) : Contents(sq')[i] = order'[(n + 1) - (l + 1) + i]
  <2>. SUFFICES ASSUME NEW i \in 1..(l + 1)
                PROVE  Contents(sq')[i] = order'[(n + 1) - (l + 1) + i]
    BY Zenon
  <2>1. (n + 1) - (l + 1) + i = n - l + i
    OBVIOUS
  <2>2. CASE i \in 1..l
    <3>1. n - l + i \in 1..n
      BY <1>2, <2>2
    <3>. QED BY <1>5, <1>6, <1>7, <2>1, <2>2, <3>1
  <2>3. CASE i = l + 1
    <3>1. n - l + i = n + 1
      BY <2>3
    <3>. QED BY Zenon, <1>5, <1>6, <2>1, <2>3, <3>1
  <2>4. i \in 1..l \/ i = l + 1
    OBVIOUS
  <2>. QED BY Zenon, <2>2, <2>3, <2>4
<1>9. Fifo'
  <2>1. l + 1 <= n + 1
    BY <1>2
  <2>. QED BY Zenon, <1>1, <1>3, <1>6, <1>8, <2>1 DEF Fifo
<1>10. InQueue' = InQueue \cup {s}
  <2>1. 1..(l + 1) = 1..l \cup {l + 1}
    OBVIOUS
  <2>. QED BY <1>2, <1>3, <1>5, <2>1 DEF InQueue
<1>11. {order'[i] : i \in DOMAIN order'} = {order[i] : i \in DOMAIN order} \cup {s}
  <2>1. 1..(n + 1) = 1..n \cup {n + 1} /\ DOMAIN order' = 1..(n + 1) /\ DOMAIN order = 1..n
    BY <1>0, <1>2, <1>6
  <2>. QED BY <1>6, <2>1
<1>. QED BY <1>9, <1>10, <1>11

\* submission_queue_pop() of a queue that is not empty.
LEMMA FirstPopped ==
    ASSUME Fifo, sq.len > 0, sq' = RingPop(sq), order' = order
    PROVE  /\ Fifo' /\ RingFirst(sq) \in InQueue
           /\ InQueue' \subseteq InQueue /\ InQueue \subseteq InQueue' \cup {RingFirst(sq)}
<1>. DEFINE S == Subs \cup {None}
<1>0. /\ WellFormed(sq, S) /\ sq.size = QueueSize /\ order \in Seq(Subs) /\ sq.len # 0
  BY QueueIs DEF Fifo
<1>1. /\ WellFormed(sq', S) /\ Contents(sq') = Tail(Contents(sq))
      /\ RingFirst(sq) = Head(Contents(sq))
  <2>1. /\ WellFormed(RingPop(sq), S) /\ RingFirst(sq) = Head(Contents(sq))
        /\ Contents(RingPop(sq)) = Tail(Contents(sq))
    BY <1>0, PopIsTail
  <2>. QED BY <2>1
<1>2. PICK l \in Nat, n \in Nat : l + 1 = sq.len /\ n = Len(order) /\ l + 1 <= n
  <2>1. sq.len \in Nat /\ sq.len > 0 /\ Len(order) \in Nat /\ sq.len <= Len(order)
    BY QueueIs DEF Fifo
  <2>2. sq.len - 1 \in Nat /\ (sq.len - 1) + 1 = sq.len
    BY <2>1
  <2>. QED BY <2>1, <2>2
<1>3. sq'.len = l /\ sq'.size = QueueSize
  <2>1. sq \in [ring : [0..sq.size - 1 -> S], size : Nat, len : 0..sq.size,
                head : 0..sq.size - 1, tail : 0..sq.size - 1]
    BY <1>0 DEF WellFormed
  <2>. QED BY <1>0, <1>2, <2>1 DEF RingPop
<1>4. /\ Contents(sq) \in Seq(S) /\ Len(Contents(sq)) = l + 1
  BY <1>2, QueueIs
<1>5. /\ \A i \in 1..l : Contents(sq')[i] = Contents(sq)[i + 1]
      /\ RingFirst(sq) = Contents(sq)[1]
  <2>. DEFINE c == Contents(sq)
  <2>1. c \in Seq(S) /\ Len(c) = l + 1
    BY <1>4
  <2>. HIDE DEF c
  <2>2. /\ \A i \in 1..l : Tail(c)[i] = c[i + 1]
        /\ Head(c) = c[1]
    BY <2>1
  <2>. QED BY Zenon, <1>1, <2>2 DEF c
<1>6. \A i \in 1..(l + 1) : Contents(sq)[i] = order[n - (l + 1) + i]
  BY Zenon, <1>2 DEF Fifo
<1>7. \A i \in 1..l : Contents(sq')[i] = order[n - l + i]
  <2>. SUFFICES ASSUME NEW i \in 1..l PROVE Contents(sq')[i] = order[n - l + i]
    OBVIOUS
  <2>1. i + 1 \in 1..(l + 1) /\ n - (l + 1) + (i + 1) = n - l + i
    OBVIOUS
  <2>. QED BY <1>5, <1>6, <2>1
<1>8. Fifo'
  <2>1. l <= n
    BY <1>2
  <2>. QED BY Zenon, <1>0, <1>1, <1>2, <1>3, <1>7, <2>1 DEF Fifo
<1>9. RingFirst(sq) \in InQueue
  <2>1. 1 \in 1..(l + 1)
    OBVIOUS
  <2>. QED BY <1>2, <1>5, <2>1 DEF InQueue
<1>10. InQueue' = {Contents(sq)[i + 1] : i \in 1..l}
  BY <1>3, <1>5 DEF InQueue
<1>11. InQueue = {Contents(sq)[i] : i \in 1..(l + 1)}
  BY <1>2 DEF InQueue
<1>12. /\ \A i \in 1..l : i + 1 \in 1..(l + 1)
       /\ \A i \in 1..(l + 1) : i = 1 \/ (i - 1 \in 1..l /\ (i - 1) + 1 = i)
  OBVIOUS
<1>13. InQueue' \subseteq InQueue
  BY <1>10, <1>11, <1>12
<1>14. InQueue \subseteq InQueue' \cup {RingFirst(sq)}
  BY <1>5, <1>10, <1>11, <1>12
<1>. QED BY <1>8, <1>9, <1>13, <1>14

LEMMA QueueSizePositive == QueueSize \in Nat \ {0}
<1>1. IsFiniteSet(Workers) /\ Workers # {}
  BY WorkersAssumption
<1>2. Cardinality(Workers) \in Nat /\ Cardinality(Workers) # 0
  BY <1>1, FS_CardinalityType, FS_EmptySet
<1>. QED BY <1>2, QueueSizeAssumption

\* submission_queue_init(), and a queue that was destroyed.
LEMMA Emptied ==
    ASSUME NEW q, q = RingInit(QueueSize, None)
    PROVE  WellFormed(q, Subs \cup {None}) /\ q.size = QueueSize /\ q.len = 0
<1>1. None \in Subs \cup {None}
  OBVIOUS
<1>2. WellFormed(q, Subs \cup {None})
  BY <1>1, QueueSizePositive, InitIsEmpty
<1>. QED BY <1>2 DEF RingInit

-----------------------------------------------------------------------------
(* The inductive invariant *)

\* The phases in which the owner may use the hash, and those of blkhash_free().
Live == {"open", "submit", "collect", "inflight", "failed", "done"}
Emptying == {"free_pool", "joining", "freed", "aborted", "stuck"}

TypeHash ==
    /\ async \in BOOLEAN /\ finalized \in BOOLEAN
    /\ step \in Nat \ {0}
    /\ phase \in Live \cup Emptying \cup {"new", "null", "unwind", "free"}
    /\ freed \subseteq Subs /\ dropped \subseteq Subs

\* What the phase says of the pool: the constructor has created its workers after step 7,
\* and there are none left once it or blkhash_free() joined them.
NoThreads == life = "creating" /\ threads = {}

LifeOfPhase ==
    /\ phase = "new" => /\ step <= Last
                        /\ step < 7 => NoThreads
                        /\ step = 7 => life = "creating"
                        /\ step > 7 => life = "ready"
    /\ phase \in Live => life = "ready"
    /\ phase \in {"unwind", "joining"} => life = "joining"
    /\ phase \in {"free", "free_pool"} => life \in {"ready", "destroyed"} \/ NoThreads
    /\ phase \in {"freed", "null"} => life = "destroyed" \/ NoThreads
    /\ life = "destroyed" => \A w \in threads : pc[w] = "done"

\* The resources that the phase says are held.
Acquired(k) == {Steps(async)[i] : i \in 1..k} \cap Resources

PoolMemory == PoolResources \cup {"h"}

\* A worker runs.
Busy == \E w \in threads : pc[w] # "done"

Held ==
    /\ phase = "new" => res = Acquired(step - 1)
    /\ phase \in Live => res = Acquired(Last)
    /\ res \subseteq Acquired(Last)
    /\ phase \in {"free_pool", "joining"} => res \subseteq PoolMemory
    /\ phase \in {"freed", "null"} => res = {}
    /\ Busy => PoolMemory \subseteq res

\* What hash_pool_init() released when it failed, and who may use it: the mutex
\* and the condition after it came to the condition, the arrays after it created
\* a thread.
UsedAgain ==
    /\ phase \in Live \cup {"new", "unwind"} => gone \cap PoolResources = {}
    /\ phase = "unwind" => NewStep = "threads"
    /\ phase \in {"free", "free_pool"} /\ StopUses # {} => NewStep \in {"cond", "threads"}
    /\ used # {} => NewStep \in {"cond", "threads"} /\ phase \in Emptying

\* The submissions, and where the owner keeps them: in the queue until they are
\* completed, and destroyed after it if they were hashed.
Owned ==
    /\ submitted = {order[i] : i \in DOMAIN order}
    /\ phase \in {"new", "unwind", "null"} => submitted = {}
    /\ phase \in Emptying \cup {"done"} => sq.len = 0
    /\ \A s \in submitted : s \in freed \/ s \in dropped \/ s \in InQueue
    /\ phase \notin Emptying => \A s \in submitted : completed[s] \/ s \in InQueue

\* Nothing the pool uses is destroyed by an owner that waits for the submissions.
FreedLate ==
    ~FreeEarly =>
        /\ \A s \in freed : completed[s]
        /\ phase \in Emptying \cup {"free"} => \A s \in submitted : completed[s]

\* The workers get their STOPs when the pool is stopped.
StopLate == ~stopped => \A i \in DOMAIN queue : queue[i] # STOP

\* hash_submission() fails at most once in the updates and once in
\* blkhash_final().
DroppedFew ==
    /\ IsFiniteSet(dropped)
    /\ ~finalized /\ phase \in {"new", "open"} \cup InCall => Cardinality(dropped) <= 0
    /\ ~finalized \/ phase \in InCall => Cardinality(dropped) <= 1
    /\ Cardinality(dropped) <= 2

HInv ==
    /\ TypeHash /\ LifeOfPhase /\ Held /\ UsedAgain /\ Fifo /\ Owned /\ DroppedFew
    /\ FreedLate /\ StopLate /\ PoolHasRoom

-----------------------------------------------------------------------------
(* The steps of the constructor *)

LEMMA AcquiredNext ==
    ASSUME NEW k \in Nat
    PROVE  Acquired(k + 1) = Acquired(k) \cup ({Steps(async)[k + 1]} \cap Resources)
<1>1. 1..(k + 1) = 1..k \cup {k + 1}
  OBVIOUS
<1>. QED BY <1>1 DEF Acquired

LEMMA AcquiredGrows ==
    ASSUME async \in BOOLEAN, NEW k \in 0..Last
    PROVE  /\ Acquired(0) = {} /\ Acquired(k) \subseteq Acquired(Last)
           /\ k >= 6 => PoolMemory \subseteq Acquired(k)
<1>0. Last \in Nat
  BY StepsAre
<1>1. Acquired(0) = {}
  BY DEF Acquired
<1>2. \A i \in 1..k : i \in 1..Last
  BY <1>0
<1>3. Acquired(k) \subseteq Acquired(Last)
  BY <1>2 DEF Acquired
<1>4. ASSUME k >= 6 PROVE PoolMemory \subseteq Acquired(k)
  <2>1. 1 \in 1..k /\ 3 \in 1..k /\ 4 \in 1..k /\ 5 \in 1..k /\ 6 \in 1..k
    BY <1>0, <1>4
  <2>2. {"h", "queue", "workers", "mutex", "cond"} \subseteq {Steps(async)[i] : i \in 1..k}
    BY <2>1, StepsAre
  <2>. QED BY <2>2 DEF Acquired, PoolMemory, PoolResources, Resources
<1>. QED BY <1>1, <1>3, <1>4

\* The mutex and the condition are the last that the pool acquires.
LEMMA AcquiredEarly ==
    ASSUME async \in BOOLEAN, NEW k \in 0..4
    PROVE  Acquired(k) \cap {"mutex", "cond"} = {}
<1>1. \A i \in 1..k : i = 1 \/ i = 2 \/ i = 3 \/ i = 4
  OBVIOUS
<1>2. \A i \in 1..k : Steps(async)[i] \notin {"mutex", "cond"}
  BY <1>1, StepsAre
<1>. QED BY <1>2 DEF Acquired

LEMMA StepKinds ==
    ASSUME async \in BOOLEAN, NEW i \in 1..Last
    PROVE  /\ Steps(async)[i] = "threads" <=> i = 7
           /\ Steps(async)[i] = "h" <=> i = 1
           /\ Steps(async)[i] \in PoolResources <=> i \in 3..6
           /\ Steps(async)[i] \in PoolMemory \cup HashResources
                                    \cup {"config", "threads", "digest_init"}
<1>0. Last \in Nat
  BY StepsAre
<1>1. CASE i \in 8..Last
  <2>1. Steps(async)[i] \in HashResources \cup {"digest_init"} /\ i # 7 /\ i # 1 /\ i \notin 3..6
    BY <1>0, <1>1, StepsAre
  <2>2. \A x \in HashResources \cup {"digest_init"} :
           x # "threads" /\ x # "h" /\ x \notin PoolResources
    BY DEF HashResources, PoolResources
  <2>. QED BY <2>1, <2>2
<1>2. CASE i \in 1..7
  <2>1. i = 1 \/ i = 2 \/ i = 3 \/ i = 4 \/ i = 5 \/ i = 6 \/ i = 7
    BY <1>2
  <2>. QED BY <2>1, StepsAre DEF PoolResources, PoolMemory
<1>3. i \in 1..7 \/ i \in 8..Last
  BY <1>0
<1>. QED BY <1>1, <1>2, <1>3

\* All that a hash holds.
LEMMA AllAcquired ==
    ASSUME async \in BOOLEAN
    PROVE  /\ Acquired(Last) \subseteq PoolMemory \cup HashResources
           /\ async => {"cq_array", "event"} \subseteq Acquired(Last)
           /\ HashResources \cap PoolMemory = {}
<1>1. Acquired(Last) \subseteq PoolMemory \cup HashResources
  <2>1. \A i \in 1..Last : Steps(async)[i] \in PoolMemory \cup HashResources
                                                  \cup {"config", "threads", "digest_init"}
    BY StepKinds
  <2>2. "config" \notin Resources /\ "threads" \notin Resources /\ "digest_init" \notin Resources
    BY DEF Resources, PoolResources
  <2>. QED BY <2>1, <2>2 DEF Acquired
<1>2. ASSUME async PROVE {"cq_array", "event"} \subseteq Acquired(Last)
  <2>1. /\ 10 \in 1..Last /\ 11 \in 1..Last
        /\ Steps(async)[10] = "cq_array" /\ Steps(async)[11] = "event"
    BY <1>2 DEF Last, Steps
  <2>. QED BY <2>1 DEF Acquired, Resources
<1>3. HashResources \cap PoolMemory = {}
  BY DEF HashResources, PoolMemory, PoolResources
<1>. QED BY <1>1, <1>2, <1>3

-----------------------------------------------------------------------------
(* The phases *)

LEMMA NextTypeHash ==
    ASSUME IInv, HInv, [NextHash]_allVars
    PROVE  TypeHash'
<1>0. TypeHash /\ Fifo /\ Owned
  BY DEF HInv
<1>. USE DEF TypeHash, subsVars
<1>1. CASE Acquire \/ \E w \in Workers : CreateWorker(w)
  BY <1>0, <1>1 DEF Acquire, CreateWorker, StepDone, Live, Emptying
<1>2. CASE NewFails \/ InitFails
  BY <1>0, <1>2 DEF NewFails, InitFails, Live, Emptying
<1>3. CASE StartSubmit \/ StartFinal \/ CreateFails \/ Collected \/ EndFinal \/ StartFree
  BY Zenon, <1>0, <1>3 DEF StartSubmit, StartFinal, CreateFails, Collected, EndFinal, StartFree,
     Live, Emptying
<1>4. ASSUME NEW s \in Subs, SubmitBlock(s) PROVE TypeHash'
  BY <1>0, <1>4 DEF SubmitBlock, Live, Emptying
<1>5. CASE HashFirst
  <2>1. sq.len > 0 /\ sq' = RingPop(sq) /\ order' = order
    BY <1>5 DEF HashFirst, FirstCompleted
  <2>2. RingFirst(sq) \in Subs
    BY <1>0, <2>1, FirstPopped, QueueIs DEF Fifo
  <2>. QED BY <1>0, <1>5, <2>2 DEF HashFirst, Live, Emptying
<1>6. CASE FreeQueues
  <2>1. \A i \in 1..sq.len : Contents(sq)[i] \in Subs
    BY <1>0, QueueIs DEF Fifo
  <2>. QED BY <1>0, <1>6, <2>1 DEF FreeQueues, Live, Emptying
<1>7. CASE FreePool \/ StopAgain \/ JoinWorkers
  BY <1>0, <1>7 DEF FreePool, StopAgain, JoinWorkers, Live, Emptying
<1>8. CASE UNCHANGED hashVars
  BY <1>0, <1>8 DEF hashVars
<1>. QED BY <1>1, <1>2, <1>3, <1>4, <1>5, <1>6, <1>7, <1>8
         DEF NextHash, WorkerStep, Wakeup, Over, allVars

\* A worker that was joined does nothing.
LEMMA WorkersEnded ==
    ASSUME IInv, NEW w \in Workers, Worker(w) \/ SpuriousWakeup(w)
    PROVE  w \in threads /\ pc[w] # "done" /\ life' = life /\ threads' = threads
<1>1. pc[w] # "none" /\ pc[w] # "done" /\ life' = life /\ threads' = threads
  BY DEF Worker, StartOk, StartFails, SetError, Sleep, TakeWork, Compute, Complete,
     SpuriousWakeup, ownerVars
<1>. QED BY <1>1 DEF IInv, PcOfThreads

LEMMA NextLife ==
    ASSUME IInv, HInv, [NextHash]_allVars
    PROVE  LifeOfPhase'
<1>0. /\ TypeHash /\ LifeOfPhase /\ async \in BOOLEAN /\ step \in Nat /\ Last \in Nat /\ Last > 8
  BY StepsAre DEF HInv, TypeHash
<1>. USE DEF Live, Emptying
<1>1. CASE Acquire
  <2>1. /\ phase = "new" /\ step' = step + 1 /\ Last' = Last
        /\ life' = life /\ threads' = threads /\ pc' = pc
        /\ phase' = IF step = Last THEN "open" ELSE "new"
    BY <1>1 DEF Acquire, StepDone, vars, Last
  <2>2. step # 7
    BY <1>0, <1>1, StepsAre DEF Acquire, NewStep
  <2>. QED BY <1>0, <2>1, <2>2 DEF LifeOfPhase, NoThreads
<1>2. ASSUME NEW w \in Workers, CreateWorker(w) PROVE LifeOfPhase'
  <2>1. phase = "new" /\ step = 7 /\ Last' = Last
    <3>1. phase = "new" /\ Steps(async)[step] = "threads" /\ Last' = Last
      BY <1>2 DEF CreateWorker, NewStep, Last
    <3>2. step \in 1..Last
      BY <1>0, <3>1 DEF LifeOfPhase, TypeHash
    <3>. QED BY <1>0, <3>1, <3>2, StepKinds
  <2>2. \/ life' = "ready" /\ step' = 8 /\ phase' = "new"
        \/ life' = "creating" /\ step' = 7 /\ phase' = "new"
    <3>1. Len(Steps(async)) = Last
      BY DEF Last
    <3>. QED BY <1>0, <1>2, <2>1, <3>1 DEF CreateWorker, CreateThread, StepDone
  <2>. QED BY <1>0, <2>1, <2>2 DEF LifeOfPhase
<1>3. CASE NewFails
  <2>1. /\ phase = "new" /\ Last' = Last /\ life' = life /\ threads' = threads /\ pc' = pc
        /\ phase' = IF NewStep = "h" THEN "null" ELSE "free"
        /\ NewStep \in HashFaults
    BY <1>3 DEF NewFails, vars, Last
  <2>2. step \in 1..Last
    BY <1>0, <2>1 DEF LifeOfPhase, TypeHash
  <2>3. NewStep # "threads"
    BY <2>1, LifecycleAssumption DEF Resources, PoolResources
  <2>4. step # 7 /\ (NewStep = "h" => step = 1)
    BY <1>0, <2>2, <2>3, StepKinds DEF NewStep
  <2>. QED BY <1>0, <2>1, <2>2, <2>4 DEF LifeOfPhase, NoThreads
<1>4. CASE InitFails
  BY <1>0, <1>4 DEF InitFails, CreateThreadFails, StopWorkers, LifeOfPhase
<1>5. CASE StartSubmit \/ StartFinal \/ CreateFails \/ HashFirst \/ Collected \/ EndFinal
             \/ StartFree
  <2>1. /\ phase \in Live /\ phase' \in Live \cup {"free"}
        /\ life' = life /\ threads' = threads /\ pc' = pc
    BY <1>5 DEF StartSubmit, StartFinal, CreateFails, HashFirst, Collected, EndFinal,
       StartFree, vars
  <2>. QED BY <1>0, <2>1 DEF LifeOfPhase, NoThreads
<1>6. ASSUME NEW s \in Subs, SubmitBlock(s) PROVE LifeOfPhase'
  <2>1. phase' \in Live /\ life' = life /\ life = "ready"
    BY <1>6 DEF SubmitBlock, Submit
  <2>. QED BY <2>1 DEF LifeOfPhase
<1>7. CASE FreeQueues \/ (StopAgain /\ phase' = "aborted" /\ UNCHANGED vars)
  <2>1. /\ life' = life /\ threads' = threads /\ pc' = pc
        /\ (phase = "free" /\ phase' = "free_pool") \/ phase' = "aborted"
    BY <1>7 DEF FreeQueues, vars
  <2>2. life' = "destroyed" => \A w \in threads' : pc'[w] = "done"
    BY Zenon, <1>0, <2>1 DEF LifeOfPhase
  <2>3. phase' = "free_pool" => life' \in {"ready", "destroyed"} \/ NoThreads'
    BY Zenon, <1>0, <2>1 DEF LifeOfPhase, NoThreads
  <2>. QED BY <2>1, <2>2, <2>3 DEF LifeOfPhase
<1>8. CASE FreePool \/ (StopAgain /\ ~(phase' = "aborted" /\ UNCHANGED vars))
  <2>1. life' = "joining" /\ phase' \in {"joining", "stuck"}
    BY <1>8 DEF FreePool, Destroy, StopWorkers, StopAgain
  <2>. QED BY <2>1 DEF LifeOfPhase
<1>9. CASE JoinWorkers
  BY <1>9 DEF JoinWorkers, Join, LifeOfPhase
<1>10. ASSUME NEW w \in Workers, WorkerStep(w) \/ Wakeup(w) PROVE LifeOfPhase'
  <2>1. /\ w \in threads /\ pc[w] # "done" /\ life' = life /\ threads' = threads
        /\ phase' = phase /\ step' = step /\ async' = async
    BY <1>10, WorkersEnded DEF WorkerStep, Wakeup, hashVars
  <2>2. life # "destroyed"
    BY <1>0, <2>1 DEF LifeOfPhase
  <2>. QED BY <1>0, <2>1, <2>2 DEF LifeOfPhase, NoThreads, Last
<1>11. CASE Over \/ UNCHANGED allVars
  BY <1>0, <1>11 DEF Over, allVars, vars, hashVars, LifeOfPhase, NoThreads, Last
<1>. QED BY <1>1, <1>2, <1>3, <1>4, <1>5, <1>6, <1>7, <1>8, <1>9, <1>10, <1>11 DEF NextHash

\* stop_workers() ends no worker.
LEMMA StopKeepsBusy ==
    ASSUME IInv, StopWorkers
    PROVE  Busy' => Busy
<1>1. threads' = threads /\ threads \subseteq Workers
  BY DEF StopWorkers, IInv, TypeOK
<1>2. \A w \in Workers : pc'[w] # "done" => pc[w] # "done"
  BY DEF StopWorkers
<1>. QED BY Zenon, <1>1, <1>2 DEF Busy

\* The resources.
LEMMA NextHeld ==
    ASSUME IInv, HInv, [NextHash]_allVars
    PROVE  Held'
<1>0. /\ TypeHash /\ LifeOfPhase /\ Held /\ async \in BOOLEAN /\ step \in Nat \ {0}
      /\ Last \in Nat /\ Last > 8
  BY StepsAre DEF HInv, TypeHash
<1>. USE DEF Live, Emptying
<1>1. CASE async' = async /\ res' = res /\ phase' = phase /\ step' = step
           /\ (Busy' => Busy)
  BY <1>0, <1>1 DEF Held, Acquired, Last
<1>2. CASE Acquire
  <2>1. /\ phase = "new" /\ step' = step + 1 /\ async' = async
        /\ Busy' = Busy
        /\ phase' = IF step = Last THEN "open" ELSE "new"
        /\ res' = res \cup ({Steps(async)[step]} \cap Resources)
    BY <1>2 DEF Acquire, StepDone, vars, Last, NewStep, Busy
  <2>2. PICK k \in Nat : step = k + 1 /\ k = step - 1
    <3>1. step - 1 \in Nat /\ step = (step - 1) + 1
      BY <1>0
    <3>. QED BY <3>1
  <2>3. res = Acquired(k) /\ step <= Last
    BY <1>0, <2>1, <2>2 DEF Held, LifeOfPhase
  <2>4. res' = Acquired(step)
    BY <2>1, <2>2, <2>3, AcquiredNext
  <2>5. Acquired(step) \subseteq Acquired(Last) /\ Last' = Last
        /\ \A n : Acquired(n)' = Acquired(n)
    <3>1. step \in 0..Last
      BY <1>0, <2>3
    <3>. QED BY <1>0, <2>1, <3>1, AcquiredGrows DEF Last, Acquired
  <2>6. step' - 1 = step
    BY <1>0, <2>1
  <2>7. Busy => PoolMemory \subseteq res'
    BY <1>0, <2>1 DEF Held
  <2>. QED BY <2>1, <2>4, <2>5, <2>6, <2>7 DEF Held
<1>3. ASSUME NEW w \in Workers, CreateWorker(w) PROVE Held'
  <2>1. /\ phase = "new" /\ Steps(async)[step] = "threads" /\ async' = async /\ res' = res
        /\ step \in 1..Last
    BY <1>0, <1>3 DEF CreateWorker, NewStep, resVars, LifeOfPhase
  <2>2. step = 7
    BY <1>0, <2>1, StepKinds
  <2>3. phase' = "new" /\ step' \in {7, 8}
    <3>1. Len(Steps(async)) = Last
      BY DEF Last
    <3>. QED BY <1>0, <1>3, <2>1, <2>2, <3>1 DEF CreateWorker, StepDone
  <2>4. res = Acquired(6) /\ 6 \in 0..Last
    BY <1>0, <2>1, <2>2 DEF Held
  <2>5. Acquired(7) = Acquired(6)
    <3>1. Acquired(6 + 1) = Acquired(6) \cup ({Steps(async)[6 + 1]} \cap Resources)
      BY AcquiredNext
    <3>2. Steps(async)[7] \notin Resources
      BY <2>1, <2>2 DEF Resources, PoolResources
    <3>. QED BY <3>1, <3>2
  <2>6. PoolMemory \subseteq res /\ res \subseteq Acquired(Last)
    BY <1>0, <2>4, AcquiredGrows
  <2>7. step' - 1 \in {6, 7} /\ res' = Acquired(step' - 1)
    BY <2>1, <2>3, <2>4, <2>5
  <2>8. Last' = Last /\ \A n : Acquired(n)' = Acquired(n)
    BY <2>1 DEF Last, Acquired
  <2>. QED BY <2>1, <2>3, <2>6, <2>7, <2>8 DEF Held
<1>4. CASE NewFails
  <2>1. /\ phase = "new" /\ async' = async /\ life' = life /\ threads' = threads
        /\ phase' = IF NewStep = "h" THEN "null" ELSE "free"
        /\ res' = res \ Unwound
        /\ step \in 1..Last /\ Busy' = Busy
    BY <1>0, <1>4 DEF NewFails, vars, Release, LifeOfPhase, Busy
  <2>2. NewStep = "h" => res = {}
    <3>. SUFFICES ASSUME NewStep = "h" PROVE res = {}
      OBVIOUS
    <3>1. step = 1
      BY <1>0, <2>1, StepKinds DEF NewStep
    <3>2. res = Acquired(0) /\ 0 \in 0..Last
      BY <1>0, <2>1, <3>1 DEF Held
    <3>. QED BY <1>0, <3>2, AcquiredGrows
  <2>3. threads # {} => res' = res
    <3>. SUFFICES ASSUME threads # {} PROVE Unwound = {}
      BY <2>1
    <3>1. step >= 7
      BY <1>0, <2>1 DEF LifeOfPhase, NoThreads
    <3>2. NewStep \notin PoolResources
      BY <1>0, <2>1, <3>1, StepKinds DEF NewStep
    <3>. QED BY <3>2 DEF Unwound
  <2>4. res' \subseteq res /\ Acquired(Last)' = Acquired(Last)
    BY <2>1 DEF Acquired, Last
  <2>5. Busy => threads # {}
    BY DEF Busy
  <2>. QED BY <1>0, <2>1, <2>2, <2>3, <2>4, <2>5 DEF Held
<1>5. CASE InitFails
  <2>1. /\ phase = "new" /\ phase' = "unwind" /\ async' = async /\ res' = res
        /\ (Busy' => Busy)
    BY <1>5, StopKeepsBusy DEF InitFails, CreateThreadFails, resVars
  <2>. QED BY <1>0, <2>1 DEF Held, Acquired, Last
<1>6. CASE StartSubmit \/ StartFinal \/ CreateFails \/ HashFirst \/ Collected \/ EndFinal
             \/ StartFree
  <2>1. /\ phase \in Live /\ phase' \in Live \cup {"free"} /\ async' = async /\ res' = res
        /\ Busy' = Busy
    BY <1>6 DEF StartSubmit, StartFinal, CreateFails, HashFirst, Collected, EndFinal,
       StartFree, vars, resVars, Busy
  <2>. QED BY Zenon, <1>0, <2>1 DEF Held, Acquired, Last
<1>7. ASSUME NEW s \in Subs, SubmitBlock(s) PROVE Held'
  <2>1. /\ phase \in Live /\ phase' \in Live /\ async' = async /\ res' = res
    BY <1>7 DEF SubmitBlock, Submit, resVars
  <2>2. Last \in 0..Last /\ Last >= 6
    BY <1>0
  <2>3. PoolMemory \subseteq res
    BY <1>0, <2>1, <2>2, AcquiredGrows DEF Held
  <2>. QED BY Zenon, <1>0, <2>1, <2>3 DEF Held, Acquired, Last
<1>8. CASE FreeQueues
  <2>1. /\ phase = "free" /\ phase' = "free_pool" /\ res' = res \ HashResources
        /\ async' = async /\ Busy' = Busy
    BY Zenon, <1>8 DEF FreeQueues, Release, vars, Busy
  <2>2. Acquired(Last)' = Acquired(Last)
    BY <2>1 DEF Acquired, Last
  <2>3. res' \subseteq PoolMemory
    BY Zenon, <1>0, <2>1, AllAcquired DEF Held
  <2>4. Busy => PoolMemory \subseteq res'
    BY Zenon, <1>0, <2>1, AllAcquired DEF Held
  <2>. QED BY <1>0, <2>1, <2>2, <2>3, <2>4 DEF Held
<1>9. CASE FreePool
  <2>1. /\ phase = "free_pool" /\ phase' = "joining" /\ res' = res /\ async' = async
        /\ (Busy' => Busy)
    BY <1>9, StopKeepsBusy DEF FreePool, Destroy, resVars
  <2>. QED BY <1>0, <2>1 DEF Held, Acquired, Last
<1>10. CASE StopAgain
  <2>1. /\ phase = "free_pool" /\ phase' \in {"joining", "aborted", "stuck"}
        /\ res' = res /\ async' = async
        /\ UNCHANGED vars \/ StopWorkers
    BY <1>10 DEF StopAgain
  <2>2. Busy' => Busy
    BY <2>1, StopKeepsBusy DEF vars, Busy
  <2>. QED BY <1>0, <2>1, <2>2 DEF Held, Acquired, Last
<1>11. CASE JoinWorkers
  <2>1. /\ async' = async /\ ~Busy'
        /\ \/ phase' \in {"free", "aborted"} /\ res' = res \ PoolResources
           \/ phase = "joining" /\ phase' = "freed" /\ res' = res \ PoolMemory
    BY <1>11 DEF JoinWorkers, Join, Release, PoolMemory, Busy
  <2>2. Acquired(Last)' = Acquired(Last)
    BY <2>1 DEF Acquired, Last
  <2>. QED BY <1>0, <2>1, <2>2 DEF Held
<1>12. ASSUME NEW w \in Workers, WorkerStep(w) \/ Wakeup(w) PROVE Held'
  <2>1. /\ Busy
        /\ phase' = phase /\ step' = step /\ async' = async /\ res' = res
    BY <1>12, WorkersEnded DEF WorkerStep, Wakeup, hashVars, resVars, Busy
  <2>. QED BY <1>1, <2>1
<1>13. CASE Over \/ UNCHANGED allVars
  BY <1>1, <1>13 DEF Over, allVars, vars, hashVars, resVars, Busy
<1>. QED BY Zenon, <1>2, <1>3, <1>4, <1>5, <1>6, <1>7, <1>8, <1>9, <1>10, <1>11, <1>12, <1>13 DEF NextHash

-----------------------------------------------------------------------------
(* The submissions *)

LEMMA NextStopLate == IInv /\ StopLate /\ [AnyNext]_vars => StopLate'
<1>. SUFFICES ASSUME IInv, StopLate, [AnyNext]_vars PROVE StopLate'
  OBVIOUS
<1>0. queue \in Seq(Subs \cup {STOP}) /\ STOP \notin Subs
  BY SubsAssumption DEF IInv, TypeOK
<1>1. CASE queue' = queue /\ stopped' = stopped
  BY <1>1 DEF StopLate
<1>2. CASE StopWorkers
  BY <1>2 DEF StopWorkers, StopLate
<1>3. ASSUME NEW s \in Subs, Submit(s) PROVE StopLate'
  <2>1. stopped' = stopped /\ (queue' = queue \/ queue' = Append(queue, s))
    BY <1>3 DEF Submit, SubmitAccepted, SubmitRejected
  <2>. QED BY <1>0, <1>1, <2>1 DEF StopLate
<1>4. ASSUME NEW w \in Workers, TakeWork(w) PROVE StopLate'
  <2>1. stopped' = stopped /\ queue # <<>> /\ queue' = Tail(queue)
    BY Zenon, <1>4 DEF TakeWork, Popped, ownerVars
  <2>. QED BY <1>0, <2>1 DEF StopLate
<1>5. ASSUME NEW w \in Workers,
             \/ CreateThread(w) \/ StartOk(w) \/ StartFails(w) \/ SetError(w) \/ Sleep(w)
             \/ Compute(w) \/ Complete(w) \/ SpuriousWakeup(w)
      PROVE  queue' = queue /\ stopped' = stopped
  BY <1>5 DEF CreateThread, StartOk, StartFails, SetError, Sleep, Compute, Complete,
     SpuriousWakeup, ownerVars
<1>6. CASE Join \/ Terminated \/ UNCHANGED vars
  BY Zenon, <1>1, <1>6 DEF Join, Terminated, vars
<1>. QED BY <1>1, <1>2, <1>3, <1>4, <1>5, <1>6
         DEF AnyNext, Next, Worker, CreateThreadFails, Destroy

\* The pool forgets no result.
LEMMA ResultsStay ==
    ASSUME IInv, [AnyNext]_vars, NEW s \in Subs
    PROVE  completed[s] => completed'[s]
<1>0. completed \in [Subs -> BOOLEAN] /\ held \in [Workers -> Subs \cup {None}]
  BY DEF IInv, TypeOK
<1>1. CASE completed' = completed
  BY <1>1
<1>2. CASE StopWorkers
  BY <1>0, <1>2 DEF StopWorkers
<1>3. ASSUME NEW r \in Subs, Submit(r)
      PROVE  completed[s] => completed'[s]
  <2>1. CASE UNCHANGED subVars
    BY <1>1, <2>1 DEF subVars
  <2>2. CASE SubmitRejected(r)
    BY <1>0, <2>2 DEF SubmitRejected
  <2>. QED BY <1>3, <2>1, <2>2 DEF Submit, SubmitAccepted
<1>4. ASSUME NEW w \in Workers, Compute(w) \/ Complete(w)
      PROVE  completed[s] => completed'[s]
  BY <1>0, <1>4 DEF Compute, Complete, subVars
<1>5. ASSUME NEW w \in Workers,
             \/ CreateThread(w) \/ StartOk(w) \/ StartFails(w) \/ SetError(w) \/ Sleep(w)
             \/ TakeWork(w) \/ SpuriousWakeup(w)
      PROVE  completed' = completed
  BY <1>5 DEF CreateThread, StartOk, StartFails, SetError, Sleep, TakeWork, SpuriousWakeup,
     subVars
<1>6. CASE Join \/ Terminated \/ UNCHANGED vars
  BY Zenon, <1>1, <1>6 DEF Join, Terminated, vars, subVars
<1>. QED BY Zenon, <1>1, <1>2, <1>3, <1>4, <1>5, <1>6
         DEF AnyNext, Next, Worker, CreateThreadFails, Destroy

\* The owner waits for room in its own queue, which has as much room as that of the pool
\* and holds all that is in the pool.
LEMMA RoomForOne ==
    ASSUME IInv, HInv, phase = "submit", ~SqFull
    PROVE  Len(queue) # QueueSize
<1>0. /\ TypeOK /\ StoppedLate /\ PlacesDiffer /\ Placed /\ queue \in Seq(Subs \cup {STOP})
      /\ LifeOfPhase /\ Fifo /\ Owned /\ StopLate
  BY DEF IInv, HInv, TypeOK
<1>1. ~stopped
  BY <1>0 DEF StoppedLate, LifeOfPhase, Live
<1>2. PICK n \in Nat : n = Len(queue) /\ DOMAIN queue = 1..n
  BY <1>0
<1>3. \A i \in 1..n : queue[i] \in Subs /\ queue[i] \in InQueue
  <2>. SUFFICES ASSUME NEW i \in 1..n PROVE queue[i] \in Subs /\ queue[i] \in InQueue
    OBVIOUS
  <2>1. queue[i] \in Subs
    BY <1>0, <1>1, <1>2 DEF StopLate
  <2>2. HasPlace(queue[i])
    BY Zenon, <1>2 DEF HasPlace, Cleared
  <2>3. queue[i] \in submitted /\ ~completed[queue[i]]
    BY <1>0, <2>1, <2>2 DEF Placed
  <2>. QED BY Zenon, <1>0, <2>1, <2>3 DEF Owned, Emptying
<1>4. queue \in [1..n -> InQueue]
  BY <1>0, <1>2, <1>3
<1>5. queue \in Injection(1..n, InQueue)
  <2>1. \A i, j \in 1..n : queue[i] = queue[j] => i = j
    BY <1>0, <1>2, <1>3, SubsAssumption DEF PlacesDiffer
  <2>. QED BY <1>4, <2>1 DEF Injection, IsInjective
<1>6. PICK l \in Nat : l = sq.len /\ l < QueueSize
  <2>1. sq.len \in Nat /\ sq.len \in 0..QueueSize /\ sq.len # QueueSize
    BY <1>0, QueueIs DEF Fifo, SqFull, RingFull, WellFormed
  <2>. QED BY <2>1, QueueSizePositive
<1>7. Contents(sq) \in Surjection(1..l, InQueue)
  <2>1. Contents(sq) \in Seq(Subs \cup {None}) /\ Len(Contents(sq)) = l
    BY <1>0, <1>6, QueueIs
  <2>2. Contents(sq) \in [1..l -> InQueue] /\ \A t \in InQueue : \E i \in 1..l : Contents(sq)[i] = t
    BY <1>6, <2>1 DEF InQueue
  <2>. QED BY <2>2 DEF Surjection
<1>8. IsFiniteSet(1..l) /\ Cardinality(1..l) = l /\ Cardinality(1..n) = n
  <2>1. \A k \in Nat : IsFiniteSet(1..k) /\ Cardinality(1..k) = k
    <3>. SUFFICES ASSUME NEW k \in Nat PROVE IsFiniteSet(1..k) /\ Cardinality(1..k) = k
      OBVIOUS
    <3>1. IsFiniteSet(1..k) /\ Cardinality(1..k) = IF 1 > k THEN 0 ELSE k - 1 + 1
      BY FS_Interval
    <3>. QED BY <3>1
  <2>. QED BY <2>1
<1>9. IsFiniteSet(InQueue) /\ Cardinality(InQueue) <= l
  BY <1>7, <1>8, FS_Surjection
<1>10. n <= Cardinality(InQueue)
  BY <1>5, <1>8, <1>9, FS_Injection
<1>11. Cardinality(InQueue) \in Nat
  BY <1>9, FS_CardinalityType
<1>. QED BY <1>2, <1>6, <1>9, <1>10, <1>11, QueueSizePositive

LEMMA NextRoom ==
    ASSUME IInv, HInv, [NextHash]_allVars
    PROVE  PoolHasRoom'
<1>0. /\ suberr \in [Subs -> Errors] /\ held \in [Workers -> Subs \cup {None}]
      /\ error \in {0, -ENOMEM} /\ PoolHasRoom
  BY DEF IInv, TypeOK, HInv
<1>1. CASE suberr' = suberr
  BY <1>0, <1>1 DEF PoolHasRoom
<1>2. CASE StopWorkers
  BY <1>0, <1>2 DEF StopWorkers, StopError, PoolHasRoom, EIO, ENOBUFS
<1>3. ASSUME NEW s \in Subs, SubmitBlock(s) PROVE PoolHasRoom'
  <2>1. phase = "submit" /\ ~SqFull /\ Submit(s)
    BY <1>3 DEF SubmitBlock
  <2>2. SubmitError # ENOBUFS
    BY <1>0, <2>1, RoomForOne DEF SubmitError, EPERM, ENOMEM, ENOBUFS
  <2>3. suberr' = suberr \/ suberr' = [suberr EXCEPT ![s] = SubmitError]
    BY <2>1 DEF Submit, SubmitAccepted, SubmitRejected, subVars
  <2>. QED BY <1>0, <1>1, <2>2, <2>3 DEF PoolHasRoom
<1>4. ASSUME NEW w \in Workers, Compute(w) PROVE PoolHasRoom'
  BY <1>0, <1>4 DEF Compute, PoolHasRoom, ENOMEM, ENOBUFS
<1>5. ASSUME NEW w \in Workers,
             \/ CreateThread(w) \/ StartOk(w) \/ StartFails(w) \/ SetError(w) \/ Sleep(w)
             \/ TakeWork(w) \/ Complete(w) \/ SpuriousWakeup(w)
      PROVE  suberr' = suberr
  BY <1>5 DEF CreateThread, StartOk, StartFails, SetError, Sleep, TakeWork, Complete,
     SpuriousWakeup, subVars
<1>6. CASE Join \/ UNCHANGED vars
  BY <1>1, <1>6 DEF Join, vars, subVars
<1>7. CASE \/ \E w \in Workers : CreateWorker(w) \/ WorkerStep(w) \/ Wakeup(w)
           \/ InitFails \/ FreePool \/ StopAgain \/ JoinWorkers
  BY Zenon, <1>1, <1>2, <1>4, <1>5, <1>6, <1>7 DEF CreateWorker, WorkerStep, Wakeup, Worker,
     InitFails, CreateThreadFails, FreePool, Destroy, StopAgain, JoinWorkers
<1>8. CASE Acquire \/ NewFails \/ StartSubmit \/ StartFinal \/ CreateFails \/ HashFirst
             \/ Collected \/ EndFinal \/ StartFree \/ FreeQueues
             \/ Over \/ UNCHANGED allVars
  BY <1>6, <1>8 DEF Acquire, NewFails, StartSubmit, StartFinal, CreateFails, HashFirst,
     Collected, EndFinal, StartFree, FreeQueues, Over, allVars
<1>. QED BY <1>3, <1>7, <1>8 DEF NextHash

\* The steps that leave the submissions of the owner alone, and what they do to the phase.
Quiet ==
    /\ submitted' = submitted /\ UNCHANGED subsVars
    /\ phase' \in {"new", "unwind", "null"} => phase \in {"new", "unwind", "null"}
    /\ phase' \in Emptying <=> phase \in Emptying
    /\ phase' = "done" => phase = "done" \/ sq.len = 0
    /\ phase' = "free" => phase \in {"free", "new", "unwind"} \/ StartFree

LEMMA QuietSteps ==
    ASSUME TypeHash, [NextHash]_allVars
    PROVE  Quiet \/ (\E s \in Subs : SubmitBlock(s)) \/ HashFirst \/ FreeQueues
<1>. USE DEF Live, Emptying
<1>1. CASE Acquire \/ (\E w \in Workers : CreateWorker(w)) \/ NewFails \/ InitFails
  <2>1. /\ submitted' = submitted /\ UNCHANGED subsVars
        /\ phase = "new" /\ phase' \in {"new", "open", "null", "free", "unwind"}
    BY <1>1 DEF Acquire, CreateWorker, CreateThread, StepDone, NewFails, InitFails,
       CreateThreadFails, StopWorkers, vars
  <2>. QED BY Zenon, <2>1 DEF Quiet
<1>2. CASE StartSubmit \/ StartFinal \/ CreateFails \/ Collected \/ EndFinal
  <2>1. /\ submitted' = submitted /\ UNCHANGED subsVars
        /\ phase \in Live /\ phase' \in Live /\ (phase' = "done" => sq.len = 0)
    BY <1>2 DEF StartSubmit, StartFinal, CreateFails, Collected, EndFinal, vars
  <2>. QED BY Zenon, <2>1 DEF Quiet
<1>3. CASE StartFree
  <2>1. /\ submitted' = submitted /\ UNCHANGED subsVars
        /\ phase \in Live /\ phase' = "free"
    BY <1>3 DEF StartFree, vars
  <2>. QED BY <1>3, <2>1 DEF Quiet
<1>4. CASE FreePool \/ StopAgain \/ JoinWorkers
  <2>1. /\ submitted' = submitted /\ UNCHANGED subsVars
        /\ \/ phase \in Emptying /\ phase' \in Emptying
           \/ phase = "unwind" /\ phase' = "free"
    BY <1>4 DEF FreePool, Destroy, StopWorkers, StopAgain, JoinWorkers, Join, vars
  <2>. QED BY <2>1 DEF Quiet
<1>5. ASSUME NEW w \in Workers, WorkerStep(w) \/ Wakeup(w) PROVE Quiet
  <2>1. UNCHANGED ownerVars
    BY <1>5 DEF WorkerStep, Wakeup, Worker, StartOk, StartFails, SetError, Sleep, TakeWork,
       Compute, Complete, SpuriousWakeup
  <2>2. /\ submitted' = submitted /\ UNCHANGED subsVars
        /\ phase' = phase
    BY <1>5, <2>1 DEF WorkerStep, Wakeup, ownerVars, hashVars
  <2>. QED BY Zenon, <2>2 DEF Quiet
<1>6. CASE Over \/ UNCHANGED allVars
  <2>1. /\ submitted' = submitted /\ UNCHANGED subsVars
        /\ phase' = phase
    BY <1>6 DEF Over, allVars, vars, hashVars
  <2>. QED BY <2>1 DEF Quiet
<1>. QED BY <1>1, <1>2, <1>3, <1>4, <1>5, <1>6 DEF NextHash

\* After FreeQueues the queue is empty.
LEMMA QueuesFreed ==
    ASSUME Fifo, FreeQueues
    PROVE  /\ Fifo' /\ sq'.len = 0 /\ InQueue' = {}
           /\ freed' = freed \cup InQueue /\ dropped' = dropped /\ submitted' = submitted
           /\ phase = "free" /\ phase' = "free_pool" /\ order' = order
           /\ completed' = completed /\ suberr' = suberr
<1>1. /\ sq' = RingInit(QueueSize, None) /\ order' = order /\ submitted' = submitted
      /\ freed' = freed \cup InQueue /\ dropped' = dropped
      /\ phase = "free" /\ phase' = "free_pool"
      /\ completed' = completed /\ suberr' = suberr
  BY DEF FreeQueues, InQueue, vars, subVars
<1>2. WellFormed(sq', Subs \cup {None}) /\ sq'.size = QueueSize /\ sq'.len = 0
  <2>. DEFINE q == RingInit(QueueSize, None)
  <2>1. WellFormed(q, Subs \cup {None}) /\ q.size = QueueSize /\ q.len = 0
    BY Emptied
  <2>. QED BY <1>1, <2>1
<1>3. 1..sq'.len = {}
  BY <1>2
<1>4. order \in Seq(Subs) /\ 0 <= Len(order)
  BY QueueIs DEF Fifo
<1>5. Fifo' /\ InQueue' = {}
  BY <1>1, <1>2, <1>3, <1>4 DEF Fifo, InQueue
<1>. QED BY <1>1, <1>2, <1>5

\* HashFirst pops a submission that is completed.
LEMMA FirstHashed ==
    ASSUME Fifo, HashFirst
    PROVE  /\ Fifo' /\ order' = order /\ submitted' = submitted
           /\ completed' = completed /\ suberr' = suberr
           /\ \E s \in InQueue :
                 /\ completed[s] /\ InQueue \subseteq InQueue' \cup {s}
                 /\ \/ freed' = freed \cup {s} /\ dropped' = dropped
                    \/ freed' = freed /\ dropped' = dropped \cup {s}
           /\ phase \in Live \ {"done"} /\ phase' \in Live \ {"done"}
<1>1. /\ sq.len > 0 /\ completed[RingFirst(sq)] /\ sq' = RingPop(sq) /\ order' = order
      /\ \/ freed' = freed \cup {RingFirst(sq)} /\ dropped' = dropped
         \/ freed' = freed /\ dropped' = dropped \cup {RingFirst(sq)}
      /\ submitted' = submitted /\ completed' = completed /\ suberr' = suberr
  BY DEF HashFirst, FirstCompleted, vars, subVars
<1>2. phase \in Live \ {"done"} /\ phase' \in Live \ {"done"}
  BY DEF HashFirst, Live
<1>3. /\ Fifo' /\ RingFirst(sq) \in InQueue /\ InQueue \subseteq InQueue' \cup {RingFirst(sq)}
  BY <1>1, FirstPopped
<1>. QED BY Zenon, <1>1, <1>2, <1>3

LEMMA NextFifo ==
    ASSUME IInv, HInv, [NextHash]_allVars
    PROVE  Fifo'
<1>0. Fifo /\ TypeHash
  BY DEF HInv
<1>1. CASE Quiet
  BY <1>0, <1>1 DEF Quiet, Fifo, subsVars
<1>2. ASSUME NEW s \in Subs, SubmitBlock(s) PROVE Fifo'
  <2>1. ~SqFull /\ sq' = RingPush(sq, s) /\ order' = Append(order, s)
    BY <1>2 DEF SubmitBlock
  <2>. QED BY <1>0, <2>1, Pushed
<1>. QED BY <1>0, <1>1, <1>2, QuietSteps, FirstHashed, QueuesFreed

LEMMA NextOwned ==
    ASSUME IInv, HInv, [NextHash]_allVars
    PROVE  Owned'
<1>0. /\ Fifo /\ TypeHash /\ Owned /\ submitted \subseteq Subs /\ [AnyNext]_vars
      /\ InQueue \subseteq submitted
  BY Zenon, PoolStep, QueueIs DEF HInv, IInv, TypeOK, Owned
<1>. USE DEF Emptying
<1>1. CASE Quiet
  <2>1. /\ submitted' = submitted /\ sq' = sq /\ order' = order /\ freed' = freed
        /\ dropped' = dropped /\ InQueue' = InQueue
    BY Zenon, <1>1 DEF Quiet, InQueue, subsVars
  <2>2. /\ phase' \in {"new", "unwind", "null"} => submitted' = {}
        /\ phase' \in Emptying \cup {"done"} => sq'.len = 0
    BY Zenon, <1>0, <1>1, <2>1 DEF Quiet, Owned
  <2>3. \A s \in submitted' : s \in freed' \/ s \in dropped' \/ s \in InQueue'
    BY Zenon, <1>0, <2>1, ResultsStay DEF Owned
  <2>4. phase' \notin Emptying => \A s \in submitted' : completed'[s] \/ s \in InQueue'
    BY Zenon, <1>0, <1>1, <2>1, ResultsStay DEF Owned, Quiet
  <2>. QED BY Zenon, <1>0, <2>1, <2>2, <2>3, <2>4 DEF Owned
<1>2. ASSUME NEW r \in Subs, SubmitBlock(r) PROVE Owned'
  <2>1. /\ ~SqFull /\ sq' = RingPush(sq, r) /\ order' = Append(order, r)
        /\ submitted' = submitted \cup {r} /\ freed' = freed /\ dropped' = dropped
        /\ phase = "submit" /\ phase' \in {"failed", "collect"}
    BY <1>2 DEF SubmitBlock, Submit
  <2>2. /\ InQueue' = InQueue \cup {r}
        /\ {order'[i] : i \in DOMAIN order'} = {order[i] : i \in DOMAIN order} \cup {r}
    BY Zenon, <1>0, <2>1, Pushed
  <2>3. \A s \in submitted' : s \in freed' \/ s \in dropped' \/ s \in InQueue'
    BY Zenon, <1>0, <2>1, <2>2, ResultsStay DEF Owned
  <2>4. \A s \in submitted' : completed'[s] \/ s \in InQueue'
    BY Zenon, <1>0, <2>1, <2>2, ResultsStay DEF Owned
  <2>. QED BY Zenon, <1>0, <2>1, <2>2, <2>3, <2>4 DEF Owned
<1>3. CASE HashFirst
  <2>1. PICK r \in InQueue :
          /\ completed[r] /\ InQueue \subseteq InQueue' \cup {r}
          /\ \/ freed' = freed \cup {r} /\ dropped' = dropped
             \/ freed' = freed /\ dropped' = dropped \cup {r}
    BY <1>0, <1>3, FirstHashed
  <2>2. /\ order' = order /\ submitted' = submitted
        /\ completed' = completed /\ suberr' = suberr
        /\ phase \in Live \ {"done"} /\ phase' \in Live \ {"done"}
    BY <1>0, <1>3, FirstHashed
  <2>. QED BY Zenon, <1>0, <2>1, <2>2 DEF Owned, Live
<1>4. CASE FreeQueues
  BY <1>0, <1>4, QueuesFreed DEF Owned
<1>. QED BY Zenon, <1>0, <1>1, <1>2, <1>3, <1>4, QuietSteps

\* An owner that waits: no submission is destroyed before it is completed, and all are
\* completed when blkhash_free() starts.
LEMMA NextFreedLate ==
    ASSUME IInv, HInv, [NextHash]_allVars
    PROVE  FreedLate'
<1>. SUFFICES ASSUME ~FreeEarly
              PROVE  /\ \A s \in freed' : completed'[s]
                     /\ phase' \in Emptying \cup {"free"} => \A s \in submitted' : completed'[s]
  BY Zenon DEF FreedLate
<1>0. /\ Fifo /\ TypeHash /\ Owned /\ Placed /\ submitted \subseteq Subs /\ freed \subseteq Subs
      /\ [AnyNext]_vars /\ InQueue \subseteq submitted
      /\ \A s \in freed : completed[s]
      /\ phase \in Emptying \cup {"free"} => \A s \in submitted : completed[s]
  BY PoolStep, QueueIs DEF HInv, IInv, TypeOK, Owned, FreedLate, TypeHash
<1>. USE DEF Emptying
<1>1. CASE Quiet
  <2>1. \A s \in freed' : completed'[s]
    BY <1>0, <1>1, ResultsStay DEF Quiet, subsVars
  <2>2. CASE phase \in Emptying \cup {"free"}
    BY Zenon, <1>0, <1>1, <2>1, <2>2, ResultsStay DEF Quiet, subsVars
  <2>3. CASE phase \in {"new", "unwind"}
    BY Zenon, <1>0, <1>1, <2>1, <2>3 DEF Quiet, subsVars, Owned
  <2>4. CASE StartFree
    <3>1. CASE phase = "done"
      <4>1. sq.len = 0
        BY <1>0, <3>1 DEF Owned
      <4>2. InQueue = {}
        BY <4>1 DEF InQueue
      <4>3. \A s \in submitted : completed[s]
        BY Zenon, <1>0, <3>1, <4>2 DEF Owned
      <4>. QED BY Zenon, <1>0, <1>1, <2>1, <4>3, ResultsStay DEF Quiet, subsVars
    <3>2. CASE ~Inflight
      <4>1. \A s \in Subs : ~HasPlace(s)
        BY <3>2, SubsAssumption DEF Inflight, Queued, HasPlace, Cleared
      <4>2. \A s \in submitted : completed[s]
        BY Zenon, <1>0, <4>1 DEF Placed
      <4>. QED BY <1>0, <1>1, <2>1, <4>2, ResultsStay DEF Quiet, subsVars
    <3>. QED BY Zenon, <2>4, <3>1, <3>2 DEF StartFree
  <2>. QED BY Zenon, <1>1, <2>1, <2>2, <2>3, <2>4 DEF Quiet, subsVars
<1>2. ASSUME NEW r \in Subs, SubmitBlock(r)
      PROVE  (\A s \in freed' : completed'[s]) /\ phase' \in {"failed", "collect"}
  BY <1>0, <1>2, ResultsStay DEF SubmitBlock
<1>3. CASE HashFirst
  <2>1. PICK r \in InQueue :
          completed[r] /\ (freed' = freed \cup {r} \/ freed' = freed)
    BY Zenon, <1>0, <1>3, FirstHashed
  <2>2. completed' = completed /\ phase' \in Live
    BY <1>0, <1>3, FirstHashed
  <2>. QED BY Zenon, <1>0, <2>1, <2>2 DEF Live
<1>4. CASE FreeQueues
  BY <1>0, <1>4, QueuesFreed
<1>. QED BY <1>0, <1>1, <1>2, <1>3, <1>4, QuietSteps

\* hash_pool_init() releases the mutex and the condition only when its step for the
\* condition or for a thread fails; before, they were never there.
LEMMA NextUsedAgain ==
    ASSUME IInv, HInv, [NextHash]_allVars
    PROVE  UsedAgain'
<1>0. /\ TypeHash /\ LifeOfPhase /\ Held /\ UsedAgain /\ async \in BOOLEAN
      /\ HashResources \cap PoolMemory = {} /\ Last \in Nat /\ Last > 8
  BY StepsAre, AllAcquired DEF HInv, TypeHash
<1>. USE DEF Live, Emptying
<1>1. CASE /\ gone' = gone /\ used' = used /\ phase \in Live \cup {"new"}
           /\ phase' \in Live \cup {"new", "free", "null"}
  <2>1. used' = {} /\ gone' \cap PoolResources = {}
    BY <1>0, <1>1 DEF UsedAgain
  <2>2. StopUses' = {}
    BY <2>1 DEF StopUses, PoolResources
  <2>. QED BY <1>1, <2>1, <2>2 DEF UsedAgain
<1>2. CASE Acquire \/ \E w \in Workers : CreateWorker(w)
  BY <1>1, <1>2 DEF Acquire, CreateWorker, StepDone, resVars
<1>3. CASE \/ StartSubmit \/ StartFinal \/ CreateFails \/ HashFirst \/ Collected \/ EndFinal
           \/ StartFree \/ \E s \in Subs : SubmitBlock(s)
  BY <1>1, <1>3 DEF StartSubmit, StartFinal, CreateFails, HashFirst, Collected, EndFinal,
     StartFree, SubmitBlock, resVars
<1>4. CASE NewFails
  <2>1. /\ phase = "new" /\ phase' \in {"free", "null"} /\ used' = used /\ threads' = threads
        /\ NewStep' = NewStep /\ gone' = gone \cup (Unwound \cap res)
    BY <1>4 DEF NewFails, Release, vars, NewStep
  <2>2. used = {} /\ gone \cap PoolResources = {} /\ step \in 1..Last
    BY <1>0, <2>1 DEF UsedAgain, LifeOfPhase, TypeHash
  <2>3. CASE step \notin 3..6
    <3>1. Unwound = {}
      BY <1>0, <2>2, <2>3, StepKinds DEF Unwound, NewStep
    <3>. QED BY <1>1, <2>1, <3>1
  <2>4. CASE step = 6
    <3>1. NewStep = "cond"
      BY <1>0, <2>4, StepsAre DEF NewStep
    <3>. QED BY <2>1, <2>2, <3>1 DEF UsedAgain
  <2>5. CASE step \in 3..5
    <3>1. threads = {} /\ res = Acquired(step - 1) /\ step - 1 \in 0..4
      BY <1>0, <2>1, <2>5 DEF LifeOfPhase, NoThreads, Held
    <3>2. res \cap {"mutex", "cond"} = {}
      BY <1>0, <3>1, AcquiredEarly
    <3>3. StopUses' = {}
      BY <2>1, <2>2, <3>1, <3>2 DEF StopUses, PoolResources
    <3>. QED BY <2>1, <2>2, <3>3 DEF UsedAgain
  <2>6. step \in 3..5 \/ step = 6 \/ step \notin 3..6
    BY <2>2
  <2>. QED BY <2>3, <2>4, <2>5, <2>6
<1>5. CASE InitFails
  <2>1. /\ phase = "new" /\ phase' = "unwind" /\ NewStep = "threads" /\ NewStep' = NewStep
        /\ gone' = gone /\ used' = used
    BY <1>5 DEF InitFails, NewStep, resVars
  <2>. QED BY <1>0, <2>1 DEF UsedAgain
<1>6. CASE FreeQueues
  <2>1. /\ phase = "free" /\ phase' = "free_pool" /\ NewStep' = NewStep /\ used' = used
        /\ threads' = threads /\ gone' = gone \cup (HashResources \cap res)
    BY <1>6 DEF FreeQueues, Release, vars, NewStep
  <2>2. StopUses' = StopUses
    BY <1>0, <2>1 DEF StopUses, PoolMemory, PoolResources
  <2>. QED BY <1>0, <2>1, <2>2 DEF UsedAgain
<1>7. CASE FreePool \/ StopAgain \/ JoinWorkers
  <2>1. /\ NewStep' = NewStep
        /\ used' = used \/ (phase = "free_pool" /\ StopUses # {})
        /\ \/ phase' \in {"joining", "freed", "aborted", "stuck"} /\ phase \in Emptying
           \/ phase = "unwind" /\ phase' = "free" /\ used' = used
    BY <1>7 DEF FreePool, StopAgain, JoinWorkers, Release, resVars, NewStep
  <2>. QED BY <1>0, <2>1 DEF UsedAgain
<1>8. CASE UNCHANGED hashVars /\ threads' = threads
  <2>1. /\ phase' = phase /\ used' = used /\ gone' = gone
        /\ NewStep' = NewStep /\ StopUses' = StopUses
    BY <1>8 DEF hashVars, resVars, NewStep, StopUses
  <2>. QED BY <1>0, <2>1 DEF UsedAgain
<1>9. CASE \/ \E w \in Workers : WorkerStep(w) \/ Wakeup(w)
           \/ Over \/ UNCHANGED allVars
  <2>1. UNCHANGED hashVars /\ threads' = threads
    BY <1>9, WorkersEnded DEF WorkerStep, Wakeup, Over, allVars, vars
  <2>. QED BY <1>8, <2>1
<1>. QED BY <1>2, <1>3, <1>4, <1>5, <1>6, <1>7, <1>9 DEF NextHash

\* A call in which hash_submission() fails ends, no update comes after it, and there is one
\* blkhash_final().
LEMMA NextDroppedFew ==
    ASSUME IInv, HInv, [NextHash]_allVars
    PROVE  DroppedFew'
<1>0. /\ DroppedFew /\ TypeHash /\ Fifo /\ finalized \in BOOLEAN
      /\ IsFiniteSet(dropped) /\ Cardinality(dropped) \in Nat
  BY FS_CardinalityType DEF HInv, DroppedFew, TypeHash
<1>. USE DEF InCall
<1>1. CASE /\ dropped' = dropped /\ finalized' = finalized
           /\ phase' \in {"new", "open"} \cup InCall => phase \in {"new", "open"} \cup InCall
           /\ phase' \in InCall => phase \in InCall \/ ~finalized
  BY <1>0, <1>1 DEF DroppedFew
<1>2. CASE StartFinal
  <2>1. dropped' = dropped /\ ~finalized /\ finalized'
    BY <1>2 DEF StartFinal, subsVars
  <2>. QED BY <1>0, <2>1 DEF DroppedFew
<1>3. CASE HashFirst
  <2>1. PICK s \in InQueue : dropped' = dropped \/ dropped' = dropped \cup {s}
    BY Zenon, <1>0, <1>3, FirstHashed
  <2>2. /\ finalized' = finalized /\ phase \in InCall
        /\ (dropped' = dropped /\ phase' = phase) \/ phase' = "failed"
    BY <1>3 DEF HashFirst
  <2>3. CASE dropped' = dropped
    BY <1>1, <2>2, <2>3
  <2>4. CASE dropped' = dropped \cup {s} /\ phase' = "failed"
    <3>1. IsFiniteSet(dropped') /\ Cardinality(dropped') <= Cardinality(dropped) + 1
      <4>1. CASE s \in dropped
        <5>1. dropped' = dropped
          BY Zenon, <2>4, <4>1
        <5>. QED BY <1>0, <5>1
      <4>2. CASE s \notin dropped
        <5>1. /\ IsFiniteSet(dropped \cup {s})
              /\ Cardinality(dropped \cup {s}) = Cardinality(dropped) + 1
          BY <1>0, <4>2, FS_AddElement
        <5>. QED BY <1>0, <2>4, <5>1
      <4>. QED BY <4>1, <4>2
    <3>2. Cardinality(dropped') \in Nat
      BY <3>1, FS_CardinalityType
    <3>. QED BY <1>0, <2>2, <2>4, <3>1, <3>2 DEF DroppedFew
  <2>. QED BY <2>1, <2>2, <2>3, <2>4
<1>4. CASE Acquire \/ (\E w \in Workers : CreateWorker(w)) \/ NewFails \/ InitFails
  BY <1>1, <1>4 DEF Acquire, CreateWorker, StepDone, NewFails, InitFails, subsVars
<1>5. CASE StartSubmit \/ CreateFails \/ Collected \/ EndFinal \/ StartFree
  BY <1>1, <1>5 DEF StartSubmit, CreateFails, Collected, EndFinal, StartFree, subsVars
<1>6. ASSUME NEW s \in Subs, SubmitBlock(s) PROVE DroppedFew'
  BY Zenon, <1>1, <1>6 DEF SubmitBlock
<1>7. CASE FreeQueues \/ FreePool \/ StopAgain \/ JoinWorkers
  BY Zenon, <1>1, <1>7 DEF FreeQueues, FreePool, StopAgain, JoinWorkers, subsVars
<1>8. CASE UNCHANGED hashVars
  BY <1>1, <1>8 DEF hashVars, subsVars
<1>. QED BY <1>2, <1>3, <1>4, <1>5, <1>6, <1>7, <1>8
         DEF NextHash, WorkerStep, Wakeup, Over, allVars

LEMMA InitHInv == InitHash => HInv
<1>. SUFFICES ASSUME InitHash PROVE HInv
  OBVIOUS
<1>1. /\ Init /\ async \in BOOLEAN /\ step = 1 /\ phase = "new" /\ finalized = FALSE
      /\ sq = RingInit(QueueSize, None) /\ freed = {} /\ dropped = {} /\ order = <<>>
      /\ res = {} /\ gone = {} /\ used = {}
  BY DEF InitHash
<1>2. TypeHash
  <2>1. async \in BOOLEAN /\ finalized \in BOOLEAN
    BY Zenon, <1>1
  <2>2. step \in Nat \ {0} /\ freed \subseteq Subs /\ dropped \subseteq Subs
    BY <1>1
  <2>. QED BY <1>1, <2>1, <2>2 DEF TypeHash
<1>3. LifeOfPhase
  <2>1. Last \in Nat /\ Last > 8
    BY <1>1, StepsAre
  <2>2. life = "creating" /\ threads = {}
    BY <1>1 DEF Init
  <2>. QED BY <1>1, <2>1, <2>2 DEF LifeOfPhase, NoThreads, Live
<1>4. Held
  <2>1. Acquired(0) = {} /\ step - 1 = 0 /\ threads = {}
    BY <1>1 DEF Acquired, Init
  <2>. QED BY <1>1, <2>1 DEF Held, Live, Busy
<1>5. Fifo /\ sq.len = 0
  <2>1. WellFormed(sq, Subs \cup {None}) /\ sq.size = QueueSize /\ sq.len = 0
    BY Zenon, <1>1, Emptied
  <2>2. order \in Seq(Subs) /\ Len(order) = 0
    BY <1>1
  <2>3. 1..sq.len = {} /\ sq.len <= Len(order)
    BY <2>1, <2>2
  <2>. QED BY <2>1, <2>2, <2>3 DEF Fifo
<1>6. Owned
  <2>1. submitted = {} /\ DOMAIN order = {}
    BY <1>1 DEF Init
  <2>. QED BY <1>1, <1>5, <2>1 DEF Owned, Emptying
<1>7. FreedLate
  BY <1>1 DEF FreedLate, Init
<1>8. StopLate
  BY <1>1 DEF StopLate, Init
<1>9. PoolHasRoom
  BY <1>1 DEF PoolHasRoom, Init, ENOBUFS
<1>10. UsedAgain
  BY <1>1 DEF UsedAgain
<1>11. DroppedFew
  BY <1>1, FS_EmptySet DEF DroppedFew
<1>. QED BY <1>2, <1>3, <1>4, <1>5, <1>6, <1>7, <1>8, <1>9, <1>10, <1>11 DEF HInv

-----------------------------------------------------------------------------
(* The theorems *)

\* The invariant of the owner, on top of the one of its pool.
THEOREM HashInvariance == SpecHash => [](IInv /\ HInv)
<1>1. InitHash => HInv
  BY InitHInv
<1>2. IInv /\ HInv /\ [NextHash]_allVars => HInv'
  <2>. SUFFICES ASSUME IInv, HInv, [NextHash]_allVars PROVE HInv'
    OBVIOUS
  <2>1. StopLate'
    BY PoolStep, NextStopLate DEF HInv
  <2>. QED BY <2>1, NextTypeHash, NextLife, NextHeld, NextUsedAgain, NextFifo, NextOwned,
          NextDroppedFew, NextFreedLate, NextRoom DEF HInv
<1>. QED BY <1>1, <1>2, PoolInvariance, PTL DEF SpecHash

\* submit_data_block() waits for room in the submission queue of the hash, and
\* hash_pool_submit() never returns ENOBUFS.
THEOREM PoolAlwaysHasRoom == SpecHash => []PoolHasRoom
<1>1. IInv /\ HInv => PoolHasRoom
  BY Zenon DEF HInv
<1>. QED BY <1>1, HashInvariance, PTL

\* The indices of the last l of n elements.
LEMMA LastOnes ==
    \A n, l \in Nat : l <= n =>
        /\ n - l + 1 \in Int /\ n - (n - l + 1) + 1 = l
        /\ n - l + 1 <= n <=> l # 0
        /\ \A i \in 1..l : (n - l + 1) + i - 1 = n - l + i
        /\ \A i \in (n - l + 1)..n : i \in 1..n
OBVIOUS

\* lib/submission.c: the ring is a FIFO of the submissions that were pushed last, for any
\* queue size, also when the indices wrapped around.
THEOREM QueueStaysInOrder == SpecHash => []QueueInOrder
<1>1. Fifo => QueueInOrder
  <2>. SUFFICES ASSUME Fifo
                PROVE  /\ WellFormed(sq, Subs \cup {None})
                       /\ Contents(sq) = SubSeq(order, Len(order) - sq.len + 1, Len(order))
    BY Zenon DEF QueueInOrder
  <2>. DEFINE c == Contents(sq)
  <2>1. /\ WellFormed(sq, Subs \cup {None}) /\ order \in Seq(Subs)
        /\ c \in Seq(Subs \cup {None}) /\ Len(c) = sq.len
        /\ \A i \in 1..sq.len : c[i] = order[Len(order) - sq.len + i]
    BY Zenon, QueueIs DEF Fifo
  <2>2. PICK l \in Nat, n \in Nat : l = sq.len /\ n = Len(order) /\ l <= n
    BY QueueIs DEF Fifo
  <2>. DEFINE t == SubSeq(order, n - l + 1, n)
  <2>3. /\ t \in Seq(Subs) /\ Len(t) = l
        /\ \A i \in 1..l : t[i] = order[n - l + i]
    <3>. DEFINE m == n - l + 1
    <3>1. /\ m \in Int /\ n - m + 1 = l /\ (m <= n <=> l # 0)
          /\ \A i \in 1..l : m + i - 1 = n - l + i
          /\ \A i \in m..n : i \in 1..n
      BY Zenon, <2>2, LastOnes
    <3>2. \A i \in m..n : order[i] \in Subs
      BY <2>1, <2>2, <3>1
    <3>. HIDE DEF m
    <3>3. /\ SubSeq(order, m, n) \in Seq(Subs)
          /\ Len(SubSeq(order, m, n)) = IF m <= n THEN n - m + 1 ELSE 0
          /\ \A i \in 1..(n - m + 1) : SubSeq(order, m, n)[i] = order[m + i - 1]
      BY <3>1, <3>2, PartOfSequence
    <3>4. SubSeq(order, m, n) = t
      BY DEF m
    <3>. QED BY <3>1, <3>3, <3>4
  <2>. HIDE DEF c, t
  <2>4. c = t
    <3>1. t \in Seq(Subs \cup {None}) /\ Len(c) = Len(t) /\ \A i \in 1..Len(c) : c[i] = t[i]
      BY <2>1, <2>2, <2>3
    <3>. QED BY <2>1, <3>1, SameSequence
  <2>. QED BY <2>1, <2>2, <2>4 DEF c, t
<1>2. IInv /\ HInv => QueueInOrder
  BY Zenon, <1>1 DEF HInv
<1>. QED BY <1>2, HashInvariance, PTL

\* blkhash_free(), and a constructor that fails at any step, release all that
\* blkhash_new_opts() acquired and destroy every submission but those for which
\* hash_submission() failed, since the submission failed or since the outer digest
\* did: these are at most two, whatever the number of calls and their failures.
THEOREM FreeLeaksNothing == SpecHash => []NothingLeaks
<1>1. IInv /\ HInv => NothingLeaks
  <2>. SUFFICES ASSUME HInv, phase \in {"freed", "null"}
                PROVE  /\ res = {} /\ submitted \subseteq freed \cup dropped
                       /\ Cardinality(dropped) <= 2
    BY DEF NothingLeaks
  <2>1. Held /\ Owned /\ DroppedFew
    BY DEF HInv
  <2>2. InQueue = {} \/ submitted = {}
    <3>1. CASE phase = "freed"
      <4>1. sq.len = 0
        BY <2>1, <3>1 DEF Owned, Emptying
      <4>. QED BY <4>1 DEF InQueue
    <3>. QED BY Zenon, <2>1, <3>1 DEF Owned
  <2>3. submitted \subseteq freed \cup dropped
    BY <2>1, <2>2 DEF Owned
  <2>. QED BY <2>1, <2>3 DEF Held, DroppedFew
<1>. QED BY <1>1, HashInvariance, PTL

\* When the owner frees a hash only after its submissions completed, as a caller of
\* blkhash_final() does, no worker uses a submission, a completion queue or a pool that
\* was released; and blkhash_free() itself uses nothing that was released, unless
\* hash_pool_init() failed in pthread_cond_init() or pthread_create(): then its
\* stop_workers() is called for a pool that it released.
THEOREM NothingUsedAfterFree ==
    ASSUME ~FreeEarly
    PROVE  SpecHash => []NoUseAfterFree
<1>1. ASSUME IInv, HInv PROVE NoUseAfterFree
  <2>0. /\ TypeHash /\ UsedAgain /\ Held /\ Owned /\ Placed /\ async \in BOOLEAN
        /\ held \in [Workers -> Subs \cup {None}] /\ queue \in Seq(Subs \cup {STOP})
        /\ threads \subseteq Workers /\ None \notin Subs
        /\ \A s \in freed : completed[s]
        /\ phase \in Emptying \cup {"free"} => \A s \in submitted : completed[s]
    BY <1>1, SubsAssumption DEF HInv, IInv, TypeOK, TypeHash, FreedLate
  <2>1. \A s \in Subs : HasPlace(s) => s \in submitted /\ s \notin freed /\ ~completed[s]
    BY <2>0 DEF Placed
  <2>2. \A w \in Workers : held[w] # None => held[w] \in Subs /\ HasPlace(held[w])
    BY <2>0 DEF HasPlace
  <2>3. \A s \in Queued : s \in Subs /\ HasPlace(s)
    BY <2>0 DEF HasPlace, Cleared, Queued
  <2>4. async /\ Inflight => {"cq_array", "event"} \subseteq res
    <3>. SUFFICES ASSUME async, Inflight PROVE {"cq_array", "event"} \subseteq res
      OBVIOUS
    <3>1. PICK s \in Subs : HasPlace(s)
      BY Zenon, <2>2, <2>3 DEF Inflight
    <3>2. phase \in Live
      BY Zenon, <2>0, <2>1, <3>1 DEF Owned, TypeHash
    <3>3. {"cq_array", "event"} \subseteq Acquired(Last)
      BY Zenon, <2>0, AllAcquired DEF HashResources
    <3>. QED BY <2>0, <3>2, <3>3 DEF Held
  <2>5. (\E w \in threads : pc[w] # "done") => PoolResources \cup {"h"} \subseteq res
    BY <2>0 DEF Busy, Held, PoolMemory
  <2>6. used # {} => NewStep \in {"cond", "threads"}
    BY Zenon, <2>0 DEF UsedAgain
  <2>. QED BY Zenon, <2>1, <2>2, <2>3, <2>4, <2>5, <2>6 DEF NoUseAfterFree
<1>2. IInv /\ HInv => NoUseAfterFree
  BY <1>1
<1>. QED BY <1>2, HashInvariance, PTL

\* When the owner of a hash waits in submission_wait() for the first submission
\* of a queue that is full, or of the last ones in blkhash_final(), that one has
\* a result or a worker can run, unless a worker could not start; and when
\* it joins the workers, in a constructor that failed or in blkhash_free(), each
\* of them ended or can run.
OwnerWaitsForWorker ==
    /\ (phase = "inflight" /\ sq.len > 0) \/ (phase = "submit" /\ SqFull) =>
          FirstCompleted \/ error # 0 \/ \E w \in threads : CanRun(w)
    /\ phase \in {"unwind", "joining"} =>
          \A w \in threads : pc[w] = "done" \/ CanRun(w)

\* No call of the owner waits for a submission or for a worker that nobody is
\* going to run: the safety part of CallReturnsIfStarted and FreeReturns, for
\* every number of workers and size of the queue.  The one join that may not
\* return is of workers that were joined before, by stop_workers() for a pool
\* that was released: the owner is stuck then, in no phase of this property.
THEOREM OwnerNeverStuck == SpecHash => []OwnerWaitsForWorker
<1>1. SpecHash => []NeverStuck
  <2>1. InitHash => WorkersEnd
    BY Zenon, InitWorkersEnd DEF InitHash
  <2>2. IInv /\ WorkersEnd /\ [NextHash]_allVars => WorkersEnd'
    BY Zenon, PoolStep, NextWorkersEnd
  <2>. QED BY <2>1, <2>2, EndMeansNeverStuck, PoolInvariance, PTL DEF SpecHash
<1>2. IInv /\ HInv /\ NeverStuck => OwnerWaitsForWorker
  <2>. SUFFICES ASSUME IInv, HInv, NeverStuck PROVE OwnerWaitsForWorker
    OBVIOUS
  <2>0. Fifo /\ Owned /\ LifeOfPhase
    BY Zenon DEF HInv
  <2>1. ASSUME sq.len > 0 PROVE RingFirst(sq) \in submitted
    <3>1. WellFormed(sq, Subs \cup {None})
      BY Zenon, <2>0 DEF Fifo
    <3>2. sq.len # 0 /\ 1 \in 1..sq.len /\ Len(Contents(sq)) = sq.len
          /\ Contents(sq) \in Seq(Subs \cup {None})
      BY <2>0, <2>1, QueueIs
    <3>3. RingFirst(sq) = Head(Contents(sq))
      BY Zenon, <3>1, <3>2, PopIsTail
    <3>4. Head(Contents(sq)) = Contents(sq)[1]
      BY <3>2
    <3>5. RingFirst(sq) \in InQueue
      BY Zenon, <3>2, <3>3, <3>4 DEF InQueue
    <3>. QED BY Zenon, <2>0, <3>5, QueueIs DEF Owned
  <2>2. SqFull => sq.len > 0
    BY <2>0, QueueSizePositive DEF SqFull, RingFull, Fifo
  <2>3. ASSUME sq.len > 0 PROVE FirstCompleted \/ error # 0 \/ \E w \in threads : CanRun(w)
    BY Zenon, <2>1, <2>3 DEF NeverStuck, FirstCompleted
  <2>4. phase \in {"unwind", "joining"} => life = "joining"
    BY Zenon, <2>0 DEF LifeOfPhase
  <2>. QED BY Zenon, <2>2, <2>3, <2>4 DEF NeverStuck, OwnerWaitsForWorker
<1>. QED BY <1>1, <1>2, HashInvariance, PTL
=============================================================================
