-------------------------- MODULE AioChecksumLemmas -------------------------
(***************************************************************************)
(* The inductive invariant of AioChecksum, what sums and queues of         *)
(* commands do, and the steps that keep the commands in their queues and   *)
(* the counter of the commands in flight.  AioChecksumProofs continues.    *)
(***************************************************************************)
EXTENDS AioChecksum, FiniteSetTheorems, TLAPS

-----------------------------------------------------------------------------
(* Sequences *)

\* The elements of a sequence and another after it.
LEMMA Concatenation ==
    ASSUME NEW S, NEW s \in Seq(S), NEW t \in Seq(S)
    PROVE  /\ s \o t \in Seq(S)
           /\ Len(s \o t) = Len(s) + Len(t)
           /\ \A i \in 1..Len(s) + Len(t) :
                 (s \o t)[i] = IF i <= Len(s) THEN s[i] ELSE t[i - Len(s)]
OBVIOUS

\* A sequence without its first element.
LEMMA HeadAndTail ==
    ASSUME NEW S, NEW s \in Seq(S), s # <<>>
    PROVE  /\ Head(s) \in S /\ Tail(s) \in Seq(S)
           /\ Len(Tail(s)) = Len(s) - 1
           /\ \A i \in 1..Len(Tail(s)) : Tail(s)[i] = s[i + 1]
OBVIOUS

-----------------------------------------------------------------------------
(* The inductive invariant *)

\* s holds the sums of the first terms of f.
PartialSums(s, f, n) ==
    /\ s \in [0..n -> Nat]
    /\ s[0] = 0
    /\ \A i \in 1..n : s[i] = s[i-1] + f[i]

\* The sum of f[1] to f[n].
Sum(f, n) == CHOOSE v \in Nat : \E s : PartialSums(s, f, n) /\ v = s[n]

Extent == [length : 1..ImageSize, zero : BOOLEAN]

Completion == [user_data : Commands, error : BOOLEAN]

Working == pc \notin {"exited", "spin"}

Holds(queue, c) == \E i \in DOMAIN queue : queue[i] = c

Distinct(queue) == \A i, j \in DOMAIN queue : queue[i] = queue[j] => i = j

\* A command is in one queue, once.
QueuesDiffer ==
    /\ Distinct(read_queue) /\ Distinct(hash_queue)
    /\ \A c \in Commands : ~(Holds(read_queue, c) /\ Holds(hash_queue, c))

Reported(c) == \E i \in DOMAIN cq : cq[i].user_data = c

\* The commands with an update that was not reaped.
Outstanding == {c \in Commands : c \in updating \/ Reported(c)}

\* Their reads completed and gave data, their buffers belong to the hash, and
\* they wait in the hash queue.
UpdatesPlaced ==
    /\ \A i, j \in DOMAIN cq : cq[i].user_data = cq[j].user_data => i = j
    /\ \A c \in updating : ~Reported(c)
    /\ \A c \in Outstanding :
          /\ ~cmd[c].completed /\ ~cmd[c].zero /\ cmd[c].length > 0
          /\ Holds(hash_queue, c)

InFlight == Cardinality(Reading) + Cardinality(updating) + Len(cq)

\* A read gets some bytes, and the extents end where the image ends.
ReadsFit ==
    /\ Working => \A i \in DOMAIN read_queue : cmd[read_queue[i]].length > 0
    /\ Total(extents) <= ImageSize - read_offset

\* The bytes of the updates that were not reaped.
OutstandingBytes ==
    [c \in Commands |-> IF c \in Outstanding THEN cmd[c].length ELSE 0]

\* w->bytes_hashed is what the hash was fed with, less what it did not report.
BytesCounted ==
    /\ pc # "exited" => bytes_hashed + Sum(OutstandingBytes, QueueDepth) = hashed
    /\ pc = "final" /\ running => bytes_hashed = ImageSize

\* A hash that failed is going to report it.
FailurePending ==
    pc # "exited" /\ herror =>
        bad # {} \/ \E i \in DOMAIN cq : cq[i].error

\* What the threads of blksum leave to the main thread.
EndsInOrder ==
    /\ digest => pc = "exited"
    /\ pc = "exited" /\ running => digest
    /\ mpc # "join" => pc = "exited"
    /\ mpc \notin {"join", "free_hash"} => updating = {} /\ cq = <<>>

IInv ==
    /\ TypeOK
    /\ QueuesDiffer
    /\ UpdatesPlaced
    /\ Working => commands_in_flight = InFlight
    /\ ImageInOrder
    /\ ReadsFit
    /\ BytesCounted
    /\ FailurePending
    /\ EndsInOrder
    /\ PrintedIsComplete

-----------------------------------------------------------------------------
(* Induction over the naturals, for sets *)

\* A set of natural numbers has a least element.
LEMMA LeastNatural ==
    ASSUME NEW T \in SUBSET Nat, T # {}
    PROVE  \E x \in T : \A y \in T : x <= y
<1>. DEFINE R == OpToRel(<, Nat)
<1>1. IsWellFoundedOn(R, Nat)
  BY Zenon, NatLessThanWellFounded
<1>2. \A x, y \in Nat : x < y => <<x, y>> \in R
  BY DEF OpToRel
<1>. HIDE DEF R
<1>3. PICK x \in T : \A y \in T : <<y, x>> \notin R
  BY Zenon, <1>1, WFMin
<1>4. \A y \in T : ~(y < x)
  BY Zenon, <1>2, <1>3
<1>5. x \in Nat /\ \A y \in T : y \in Nat
  OBVIOUS
<1>6. \A y \in T : x <= y
  BY <1>4, <1>5
<1>. QED BY <1>6

\* A set that holds 0 and the successor of each of its members holds them all.
LEMMA SetInduction ==
    ASSUME NEW S, 0 \in S, \A n \in Nat : n \in S => n + 1 \in S
    PROVE  \A n \in Nat : n \in S
<1>. SUFFICES ASSUME NEW k \in Nat, k \notin S PROVE FALSE
  OBVIOUS
<1>. DEFINE T == Nat \ S
<1>1. PICK x \in T : \A y \in T : x <= y
  <2>1. T \in SUBSET Nat /\ T # {}
    OBVIOUS
  <2>. HIDE DEF T
  <2>. QED BY <2>1, LeastNatural
<1>2. x # 0 /\ x \in Nat
  OBVIOUS
<1>3. x - 1 \in Nat /\ (x - 1) + 1 = x
  BY <1>2
<1>4. x - 1 \notin T
  BY <1>1, <1>3
<1>. QED BY <1>3, <1>4

-----------------------------------------------------------------------------
(* Sums *)

\* There are partial sums.
LEMMA SumsExist ==
    ASSUME NEW m \in Nat, NEW f, \A i \in 1..m : f[i] \in Nat
    PROVE  \A n \in Nat : n <= m => \E s : PartialSums(s, f, n)
<1>. DEFINE S == {n \in Nat : n <= m => \E s : PartialSums(s, f, n)}
<1>1. 0 \in S
  <2>. DEFINE s == [i \in 0..0 |-> 0]
  <2>1. PartialSums(s, f, 0)
    BY DEF PartialSums
  <2>. QED BY <2>1
<1>2. ASSUME NEW n \in Nat, n \in S PROVE n + 1 \in S
  <2>. SUFFICES ASSUME n + 1 <= m PROVE \E s : PartialSums(s, f, n + 1)
    OBVIOUS
  <2>1. PICK s : PartialSums(s, f, n)
    BY <1>2
  <2>. DEFINE t == [i \in 0..(n + 1) |-> IF i = n + 1 THEN s[n] + f[n + 1] ELSE s[i]]
  <2>2. s[n] \in Nat /\ f[n + 1] \in Nat /\ \A i \in 0..n : s[i] \in Nat
    BY <2>1 DEF PartialSums
  <2>3. t \in [0..(n + 1) -> Nat] /\ t[0] = 0
    BY <2>1, <2>2 DEF PartialSums
  <2>4. ASSUME NEW i \in 1..(n + 1) PROVE t[i] = t[i - 1] + f[i]
    <3>1. CASE i = n + 1
      BY <3>1
    <3>2. CASE i # n + 1
      <4>1. i \in 1..n /\ i - 1 \in 0..n /\ i - 1 \in 0..(n + 1) /\ i - 1 # n + 1
        BY <3>2
      <4>2. t[i] = s[i] /\ t[i - 1] = s[i - 1]
        BY <3>2, <4>1
      <4>. QED BY <2>1, <4>1, <4>2 DEF PartialSums
    <3>. QED BY <3>1, <3>2
  <2>. HIDE DEF t
  <2>5. PartialSums(t, f, n + 1)
    BY <2>3, <2>4 DEF PartialSums
  <2>. QED BY <2>5
<1>. HIDE DEF S
<1>3. \A n \in Nat : n \in S
  BY <1>1, <1>2, SetInduction
<1>. QED BY <1>3 DEF S

\* The partial sums of two functions that agree are the same.
LEMMA SumsUnique ==
    ASSUME NEW n \in Nat, NEW f, NEW g, \A i \in 1..n : f[i] = g[i],
           NEW s, PartialSums(s, f, n), NEW t, PartialSums(t, g, n)
    PROVE  \A k \in 0..n : s[k] = t[k]
<1>. DEFINE S == {k \in Nat : k <= n => s[k] = t[k]}
<1>1. 0 \in S
  BY DEF PartialSums
<1>2. ASSUME NEW k \in Nat, k \in S PROVE k + 1 \in S
  <2>. SUFFICES ASSUME k + 1 <= n PROVE s[k + 1] = t[k + 1]
    OBVIOUS
  <2>1. k + 1 \in 1..n /\ (k + 1) - 1 = k /\ s[k] = t[k]
    BY <1>2
  <2>. QED BY <2>1 DEF PartialSums
<1>. HIDE DEF S
<1>3. \A k \in Nat : k \in S
  BY <1>1, <1>2, SetInduction
<1>. QED BY <1>3 DEF S

\* A sum is the last of the partial sums.
LEMMA SumIs ==
    ASSUME NEW n \in Nat, NEW f, NEW s, PartialSums(s, f, n)
    PROVE  Sum(f, n) = s[n] /\ Sum(f, n) \in Nat
<1>1. s[n] \in Nat
  BY DEF PartialSums
<1>2. Sum(f, n) \in Nat /\ \E t : PartialSums(t, f, n) /\ Sum(f, n) = t[n]
  BY <1>1 DEF Sum
<1>3. PICK t : PartialSums(t, f, n) /\ Sum(f, n) = t[n]
  BY <1>2
<1>4. s[n] = t[n]
  BY <1>3, SumsUnique
<1>. QED BY <1>1, <1>3, <1>4

\* The recurrence of the sum.
LEMMA SumStep ==
    ASSUME NEW m \in Nat, NEW f, \A i \in 1..m : f[i] \in Nat
    PROVE  /\ Sum(f, 0) = 0
           /\ \A n \in 0..m : Sum(f, n) \in Nat
           /\ \A n \in 1..m : Sum(f, n) = Sum(f, n - 1) + f[n]
<1>1. Sum(f, 0) = 0
  <2>1. PICK s : PartialSums(s, f, 0)
    BY SumsExist
  <2>2. s[0] = 0
    BY <2>1 DEF PartialSums
  <2>. QED BY <2>1, <2>2, SumIs
<1>2. ASSUME NEW n \in 0..m PROVE Sum(f, n) \in Nat
  BY SumsExist, SumIs
<1>3. ASSUME NEW n \in 1..m PROVE Sum(f, n) = Sum(f, n - 1) + f[n]
  <2>1. PICK s : PartialSums(s, f, n)
    BY SumsExist
  <2>2. PICK k \in Nat : k = n - 1 /\ k <= m
    OBVIOUS
  <2>3. PICK t : PartialSums(t, f, k)
    BY <2>2, SumsExist
  <2>. DEFINE r == [i \in 0..k |-> s[i]]
  <2>4. PartialSums(r, f, k)
    <3>1. \A i \in 0..k : s[i] \in Nat
      BY <2>1, <2>2 DEF PartialSums
    <3>2. r \in [0..k -> Nat] /\ r[0] = 0
      BY <2>1, <2>2, <3>1 DEF PartialSums
    <3>3. ASSUME NEW i \in 1..k PROVE r[i] = r[i - 1] + f[i]
      <4>1. i \in 0..k /\ i - 1 \in 0..k /\ i \in 1..n
        BY <2>2
      <4>2. r[i] = s[i] /\ r[i - 1] = s[i - 1]
        BY <4>1
      <4>. QED BY <2>1, <4>1, <4>2 DEF PartialSums
    <3>. HIDE DEF r
    <3>. QED BY <3>2, <3>3 DEF PartialSums
  <2>5. r[k] = s[k] /\ s[n] = s[n - 1] + f[n]
    BY <2>1, <2>2 DEF PartialSums
  <2>. HIDE DEF r
  <2>6. Sum(f, k) = r[k] /\ Sum(f, n) = s[n]
    BY <2>1, <2>4, SumIs
  <2>. QED BY <2>2, <2>5, <2>6
<1>. QED BY <1>1, <1>2, <1>3

\* Functions that agree have the same sum.
LEMMA SumSame ==
    ASSUME NEW n \in Nat, NEW f, NEW g,
           \A i \in 1..n : f[i] \in Nat /\ g[i] = f[i]
    PROVE  Sum(f, n) = Sum(g, n)
<1>1. PICK s, t : PartialSums(s, f, n) /\ PartialSums(t, g, n)
  BY SumsExist
<1>2. s[n] = t[n]
  BY <1>1, SumsUnique
<1>. QED BY <1>1, <1>2, SumIs

\* When one term changes the sum changes by the difference.
LEMMA SumChange ==
    ASSUME NEW n \in Nat, NEW f, NEW g, NEW c \in 1..n,
           \A i \in 1..n : f[i] \in Nat /\ g[i] \in Nat,
           \A i \in 1..n \ {c} : g[i] = f[i]
    PROVE  Sum(g, n) + f[c] = Sum(f, n) + g[c]
<1>. DEFINE S == {k \in Nat : k <= n =>
                    Sum(g, k) + (IF c <= k THEN f[c] ELSE 0)
                      = Sum(f, k) + (IF c <= k THEN g[c] ELSE 0)}
<1>1. 0 \in S
  <2>1. Sum(f, 0) = 0 /\ Sum(g, 0) = 0
    BY SumStep
  <2>. QED BY <2>1
<1>2. ASSUME NEW k \in Nat, k \in S PROVE k + 1 \in S
  <2>. SUFFICES ASSUME k + 1 <= n
                PROVE  Sum(g, k + 1) + (IF c <= k + 1 THEN f[c] ELSE 0)
                         = Sum(f, k + 1) + (IF c <= k + 1 THEN g[c] ELSE 0)
    OBVIOUS
  <2>0. k + 1 \in 1..n /\ k \in 0..n /\ (k + 1) - 1 = k
    OBVIOUS
  <2>1. PICK a \in Nat, b \in Nat, a1 \in Nat, b1 \in Nat,
             fk \in Nat, gk \in Nat, fc \in Nat, gc \in Nat :
          /\ a = Sum(f, k) /\ b = Sum(g, k)
          /\ a1 = Sum(f, k + 1) /\ b1 = Sum(g, k + 1)
          /\ fk = f[k + 1] /\ gk = g[k + 1] /\ fc = f[c] /\ gc = g[c]
    <3>1. /\ Sum(f, k) \in Nat /\ Sum(g, k) \in Nat
          /\ Sum(f, k + 1) \in Nat /\ Sum(g, k + 1) \in Nat
      BY <2>0, SumStep
    <3>2. f[k + 1] \in Nat /\ g[k + 1] \in Nat /\ f[c] \in Nat /\ g[c] \in Nat
      BY <2>0
    <3>. QED BY <3>1, <3>2, Zenon
  <2>2. a1 = a + fk /\ b1 = b + gk
    BY <2>0, <2>1, SumStep
  <2>3. b + (IF c <= k THEN fc ELSE 0) = a + (IF c <= k THEN gc ELSE 0)
    BY <1>2, <2>0, <2>1
  <2>4. /\ c = k + 1 => fk = fc /\ gk = gc
        /\ c # k + 1 => gk = fk
    BY <2>0, <2>1
  <2>5. b1 + (IF c <= k + 1 THEN fc ELSE 0) = a1 + (IF c <= k + 1 THEN gc ELSE 0)
    BY <2>2, <2>3, <2>4
  <2>. QED BY <2>1, <2>5
<1>. HIDE DEF S
<1>3. n \in S
  BY <1>1, <1>2, SetInduction
<1>. QED BY <1>3 DEF S

\* A sum is at least each of its terms.
LEMMA SumBounds ==
    ASSUME NEW n \in Nat, NEW f, \A i \in 1..n : f[i] \in Nat, NEW c \in 1..n
    PROVE  f[c] <= Sum(f, n)
<1>. DEFINE g == [i \in 1..n |-> IF i = c THEN 0 ELSE f[i]]
<1>1. Sum(g, n) + f[c] = Sum(f, n) + g[c]
  BY SumChange
<1>2. /\ Sum(g, n) \in Nat /\ Sum(f, n) \in Nat
      /\ f[c] \in Nat /\ g[c] = 0
  BY SMTT(30), SumStep
<1>. HIDE DEF g
<1>. QED BY <1>1, <1>2

\* The first term is the sum without the rest.
LEMMA SumHead ==
    ASSUME NEW n \in Nat, NEW f, NEW g,
           \A i \in 1..(n + 1) : f[i] \in Nat, \A i \in 1..n : g[i] = f[i + 1]
    PROVE  Sum(f, n + 1) = f[1] + Sum(g, n)
<1>. DEFINE S == {k \in Nat : k <= n => Sum(f, k + 1) = f[1] + Sum(g, k)}
<1>0. n + 1 \in Nat /\ \A i \in 1..n : g[i] \in Nat
  OBVIOUS
<1>1. 0 \in S
  <2>1. Sum(f, 0) = 0 /\ Sum(g, 0) = 0
    BY <1>0, SumStep
  <2>2. Sum(f, 1) = Sum(f, 1 - 1) + f[1] /\ f[1] \in Nat
    BY <1>0, SumStep
  <2>. QED BY <2>1, <2>2
<1>2. ASSUME NEW k \in Nat, k \in S PROVE k + 1 \in S
  <2>. SUFFICES ASSUME k + 1 <= n
                PROVE  Sum(f, (k + 1) + 1) = f[1] + Sum(g, k + 1)
    OBVIOUS
  <2>0. PICK j \in Nat : j = k + 1 /\ j \in 1..n /\ j + 1 \in 1..(n + 1)
                         /\ (j + 1) - 1 = j /\ j - 1 = k
    OBVIOUS
  <2>1. /\ Sum(f, j + 1) = Sum(f, j) + f[j + 1]
        /\ Sum(f, j + 1) \in Nat /\ Sum(f, j) \in Nat
    BY <1>0, <2>0, SumStep
  <2>2. Sum(g, j) = Sum(g, k) + g[j] /\ Sum(g, k) \in Nat
    BY <1>0, <2>0, SumStep
  <2>3. Sum(f, j) = f[1] + Sum(g, k)
    BY <1>2, <2>0
  <2>4. g[j] = f[j + 1] /\ f[j + 1] \in Nat /\ f[1] \in Nat
    BY <2>0
  <2>. QED BY <2>0, <2>1, <2>2, <2>3, <2>4
<1>. HIDE DEF S
<1>3. n \in S
  BY <1>1, <1>2, SetInduction
<1>. QED BY <1>3 DEF S

-----------------------------------------------------------------------------
(* Total *)

\* The function that Total is defined by.
TotalFcn(seq, n) ==
    CHOOSE sum : sum = [i \in 0..n |-> IF i = 0 THEN 0
                                       ELSE sum[i-1] + seq[i].length]

\* Total is the sum of the lengths.
LEMMA TotalIsSum ==
    ASSUME NEW seq, NEW n \in Nat, Len(seq) = n, NEW f,
           \A i \in 1..n : seq[i].length \in Nat /\ f[i] = seq[i].length
    PROVE  Total(seq) = Sum(f, n)
<1>. DEFINE t == TotalFcn(seq, n)
<1>0. Total(seq) = t[n]
  BY DEF Total, TotalFcn
<1>1. PICK s : PartialSums(s, f, n)
  <2>1. \A i \in 1..n : f[i] \in Nat
    OBVIOUS
  <2>2. \A k \in Nat : k <= n => \E u : PartialSums(u, f, k)
    BY <2>1, SumsExist, Zenon
  <2>3. n <= n
    OBVIOUS
  <2>. QED BY <2>2, <2>3, Zenon
<1>2. s = [i \in 0..n |-> IF i = 0 THEN 0 ELSE s[i-1] + seq[i].length]
  <2>1. s = [i \in 0..n |-> s[i]]
    BY <1>1 DEF PartialSums
  <2>2. \A i \in 0..n : s[i] = IF i = 0 THEN 0 ELSE s[i-1] + seq[i].length
    BY <1>1 DEF PartialSums
  <2>. QED BY <2>1, <2>2
<1>3. t = [i \in 0..n |-> IF i = 0 THEN 0 ELSE t[i-1] + seq[i].length]
  BY <1>2 DEF TotalFcn
<1>. HIDE DEF t
<1>. DEFINE S == {k \in Nat : k <= n => t[k] = s[k]}
<1>4. 0 \in S
  BY <1>1, <1>3 DEF PartialSums
<1>5. ASSUME NEW k \in Nat, k \in S PROVE k + 1 \in S
  <2>. SUFFICES ASSUME k + 1 <= n PROVE t[k + 1] = s[k + 1]
    OBVIOUS
  <2>1. k + 1 \in 1..n /\ k + 1 \in 0..n /\ (k + 1) - 1 = k /\ t[k] = s[k]
    BY <1>5
  <2>2. t[k + 1] = t[k] + seq[k + 1].length
    BY <1>3, <2>1
  <2>3. s[k + 1] = s[k] + f[k + 1]
    BY <1>1, <2>1 DEF PartialSums
  <2>. QED BY <2>1, <2>2, <2>3
<1>. HIDE DEF S
<1>6. n \in S
  BY Zenon, <1>4, <1>5, SetInduction
<1>7. t[n] = s[n]
  BY <1>6 DEF S
<1>. QED BY <1>0, <1>1, <1>7, SumIs

\* Total of extents, by the first one.
LEMMA TotalOfExtents ==
    ASSUME NEW seq \in Seq(Extent)
    PROVE  /\ Total(seq) \in Nat
           /\ seq # <<>> => Total(seq) = Head(seq).length + Total(Tail(seq))
<1>. DEFINE n == Len(seq)
            f == [i \in 1..n |-> seq[i].length]
<1>1. n \in Nat /\ \A i \in 1..n : seq[i] \in Extent
  OBVIOUS
<1>2. \A i \in 1..n : seq[i].length \in Nat /\ f[i] = seq[i].length /\ f[i] \in Nat
  BY <1>1, SizesAssumption DEF Extent
<1>. HIDE DEF f
<1>3. Total(seq) = Sum(f, n) /\ Sum(f, n) \in Nat
  <2>1. Total(seq) = Sum(f, n)
    BY Zenon, <1>1, <1>2, TotalIsSum
  <2>. HIDE DEF n
  <2>2. n \in 0..n
    BY <1>1
  <2>. QED BY Zenon, <1>1, <1>2, <2>1, <2>2, SumStep
<1>4. ASSUME seq # <<>> PROVE Total(seq) = Head(seq).length + Total(Tail(seq))
  <2>1. PICK m \in Nat : n = m + 1
    BY <1>1, <1>4
  <2>. DEFINE t == Tail(seq)
              g == [i \in 1..m |-> t[i].length]
  <2>2. Len(t) = m /\ \A i \in 1..m : t[i] = seq[i + 1] /\ i + 1 \in 1..n
    BY <1>4, <2>1
  <2>3. \A i \in 1..m : /\ t[i].length \in Nat /\ g[i] = t[i].length
                        /\ g[i] = f[i + 1]
    BY <1>2, <2>2
  <2>. HIDE DEF g, t, n
  <2>4. Total(t) = Sum(g, m)
    BY <2>2, <2>3, TotalIsSum
  <2>5. Sum(f, m + 1) = f[1] + Sum(g, m)
    BY Zenon, <1>2, <2>1, <2>3, SumHead
  <2>6. f[1] = Head(seq).length
    BY <1>2, <1>4, <2>1
  <2>. QED BY <1>3, <2>1, <2>4, <2>5, <2>6 DEF t
<1>. QED BY <1>3, <1>4

\* The extents that next_extent() is left with.
LEMMA ConsumedTotal ==
    ASSUME extents \in Seq(Extent), extents # <<>>, NEW n \in 1..Head(extents).length
    PROVE  /\ Consumed(n) \in Seq(Extent)
           /\ Total(Consumed(n)) = Total(extents) - n
           /\ n <= Total(extents)
<1>. DEFINE h == Head(extents)
<1>1. h \in Extent /\ Tail(extents) \in Seq(Extent) /\ extents[1] = h
      /\ 1 \in DOMAIN extents
  OBVIOUS
<1>2. h.length \in Nat /\ n \in Nat /\ n <= h.length /\ n >= 1
      /\ h.length <= ImageSize
  BY <1>1, SizesAssumption DEF Extent
<1>3. /\ Total(extents) = h.length + Total(Tail(extents))
      /\ Total(Tail(extents)) \in Nat
  BY Zenon, <1>1, TotalOfExtents
<1>4. CASE h.length = n
  BY <1>1, <1>2, <1>3, <1>4 DEF Consumed
<1>5. CASE h.length # n
  <2>. DEFINE e == [length |-> h.length - n, zero |-> h.zero]
              seq == [extents EXCEPT ![1] = e]
  <2>1. Consumed(n) = seq
    <3>1. [h EXCEPT !.length = @ - n] = e
      BY <1>1 DEF Extent
    <3>. QED BY Zenon, <1>1, <1>5, <3>1 DEF Consumed
  <2>2. e \in Extent /\ e.length = h.length - n
    BY <1>1, <1>2, <1>5, SizesAssumption DEF Extent
  <2>. HIDE DEF e, h
  <2>3. /\ seq \in Seq(Extent) /\ seq # <<>> /\ Head(seq) = e
        /\ Len(seq) = Len(extents)
        /\ \A i \in 2..Len(extents) : seq[i] = extents[i]
    BY <1>1, <2>2
  <2>4. Tail(seq) = Tail(extents)
    BY <1>1, <2>3
  <2>. HIDE DEF seq
  <2>5. Total(seq) = e.length + Total(Tail(seq))
    BY <2>3, TotalOfExtents
  <2>6. Total(seq) = (h.length - n) + Total(Tail(extents))
    BY Zenon, <2>2, <2>4, <2>5
  <2>7. Total(seq) = Total(extents) - n /\ n <= Total(extents)
    <3>1. PICK l \in Nat, t \in Nat : l = h.length /\ t = Total(Tail(extents))
      BY <1>2, <1>3
    <3>2. Total(extents) = l + t /\ Total(seq) = (l - n) + t /\ n <= l
      BY <1>2, <1>3, <2>6, <3>1
    <3>. QED BY <1>2, <3>2
  <2>. QED BY <2>1, <2>3, <2>7
<1>. QED BY <1>4, <1>5, <1>2, <1>3

-----------------------------------------------------------------------------
(* The queues of commands *)

\* A queue without one of its commands.
LEMMA WithoutOne ==
    ASSUME NEW q \in Seq(Commands), NEW k \in DOMAIN q
    PROVE  /\ Without(q, k) \in Seq(Commands)
           /\ Len(Without(q, k)) = Len(q) - 1
           /\ \A j \in 1..(Len(q) - 1) :
                 Without(q, k)[j] = IF j < k THEN q[j] ELSE q[j + 1]
<1>. DEFINE n == Len(q)
            a == SubSeq(q, 1, k - 1)
            b == SubSeq(q, k + 1, n)
<1>0. n \in Nat /\ k \in 1..n /\ n = Len(q)
  OBVIOUS
<1>1. /\ a \in Seq(Commands) /\ Len(a) = k - 1
      /\ \A j \in 1..(k - 1) : a[j] = q[j]
  BY <1>0
<1>2. /\ b \in Seq(Commands) /\ Len(b) = n - k
      /\ \A j \in 1..(n - k) : b[j] = q[j + k]
  BY <1>0
<1>. HIDE DEF a, b, n
<1>3. Without(q, k) = a \o b
  BY DEF Without, a, b, n
<1>4. /\ a \o b \in Seq(Commands) /\ Len(a \o b) = n - 1
  <2>1. a \o b \in Seq(Commands) /\ Len(a \o b) = Len(a) + Len(b)
    BY Zenon, <1>1, <1>2, Concatenation
  <2>. QED BY SMTT(30), <1>0, <1>1, <1>2, <2>1
<1>5. ASSUME NEW j \in 1..(n - 1)
      PROVE  (a \o b)[j] = IF j < k THEN q[j] ELSE q[j + 1]
  <2>1. CASE j < k
    BY <1>0, <1>1, <1>2, <2>1
  <2>2. CASE ~(j < k)
    <3>1. j - (k - 1) \in 1..(n - k) /\ (j - (k - 1)) + k = j + 1
      BY <1>0, <2>2
    <3>2. (a \o b)[j] = b[j - (k - 1)]
      BY SMTT(30), <1>0, <1>1, <1>2, <2>2
    <3>. QED BY <1>2, <2>2, <3>1, <3>2
  <2>. QED BY Zenon, <2>1, <2>2
<1>. QED BY <1>0, <1>3, <1>4, <1>5

\* What a queue holds without one of its commands.
LEMMA WithoutHolds ==
    ASSUME NEW q \in Seq(Commands), NEW k \in DOMAIN q, Distinct(q)
    PROVE  /\ Distinct(Without(q, k))
           /\ \A c : Holds(Without(q, k), c) <=> Holds(q, c) /\ c # q[k]
<1>. DEFINE w == Without(q, k)
<1>0. PICK n \in Nat : n = Len(q)
  OBVIOUS
<1>1. /\ DOMAIN q = 1..n /\ k \in 1..n
      /\ DOMAIN w = 1..(n - 1)
      /\ \A j \in 1..(n - 1) : w[j] = IF j < k THEN q[j] ELSE q[j + 1]
  <2>1. w \in Seq(Commands) /\ Len(w) = n - 1
    BY <1>0, WithoutOne
  <2>2. DOMAIN w = 1..(n - 1)
    BY <2>1
  <2>3. DOMAIN q = 1..n
    BY <1>0
  <2>4. \A j \in 1..(n - 1) : w[j] = IF j < k THEN q[j] ELSE q[j + 1]
    BY <1>0, WithoutOne
  <2>. QED BY Zenon, <2>2, <2>3, <2>4
<1>. HIDE DEF w
<1>2. ASSUME NEW i \in DOMAIN w
      PROVE  \E m \in 1..n \ {k} : w[i] = q[m] /\ (m = i \/ m = i + 1)
                                    /\ (i < k <=> m = i)
  <2>1. CASE i < k
    BY <1>1, <2>1
  <2>2. CASE ~(i < k)
    <3>1. i + 1 \in 1..n \ {k} /\ w[i] = q[i + 1]
      BY <1>1, <2>2
    <3>. QED BY <1>1, <2>2, <3>1
  <2>. QED BY <2>1, <2>2
<1>3. Distinct(w)
  <2>. SUFFICES ASSUME NEW i \in DOMAIN w, NEW j \in DOMAIN w, w[i] = w[j]
                PROVE  i = j
    BY DEF Distinct
  <2>1. PICK a \in 1..n \ {k} : w[i] = q[a] /\ (a = i \/ a = i + 1)
                                /\ (i < k <=> a = i)
    BY <1>2
  <2>2. PICK b \in 1..n \ {k} : w[j] = q[b] /\ (b = j \/ b = j + 1)
                                /\ (j < k <=> b = j)
    BY <1>2
  <2>3. a = b
    BY Zenon, <1>1, <2>1, <2>2 DEF Distinct
  <2>. QED BY <1>1, <2>1, <2>2, <2>3
<1>4. ASSUME NEW c, Holds(w, c) PROVE Holds(q, c) /\ c # q[k]
  <2>1. PICK i \in DOMAIN w : w[i] = c
    BY <1>4 DEF Holds
  <2>2. PICK m \in 1..n \ {k} : w[i] = q[m]
    BY <1>2
  <2>. QED BY <1>1, <2>1, <2>2 DEF Holds, Distinct
<1>5. ASSUME NEW c, Holds(q, c), c # q[k] PROVE Holds(w, c)
  <2>1. PICK m \in 1..n \ {k} : q[m] = c
    BY <1>1, <1>5 DEF Holds
  <2>2. CASE m < k
    <3>1. m \in 1..(n - 1) /\ w[m] = q[m]
      BY <1>1, <2>2
    <3>. QED BY <1>1, <2>1, <3>1 DEF Holds
  <2>3. CASE m > k
    <3>1. m - 1 \in 1..(n - 1) /\ ~(m - 1 < k) /\ (m - 1) + 1 = m
      BY <1>1, <2>3
    <3>2. w[m - 1] = q[m]
      BY <1>1, <3>1
    <3>. QED BY <1>1, <2>1, <3>1, <3>2 DEF Holds
  <2>. QED BY <1>1, <2>2, <2>3
<1>. QED BY <1>3, <1>4, <1>5 DEF w

\* A queue with one more command.
LEMMA AppendHolds ==
    ASSUME NEW q \in Seq(Commands), NEW c \in Commands
    PROVE  /\ Append(q, c) \in Seq(Commands)
           /\ \A d : Holds(Append(q, c), d) <=> Holds(q, d) \/ d = c
           /\ Distinct(q) /\ ~Holds(q, c) => Distinct(Append(q, c))
<1>. DEFINE a == Append(q, c)
<1>0. PICK n \in Nat : n = Len(q)
  OBVIOUS
<1>1. /\ a \in Seq(Commands) /\ DOMAIN q = 1..n /\ DOMAIN a = 1..(n + 1)
      /\ \A i \in 1..n : a[i] = q[i]
      /\ a[n + 1] = c
  BY <1>0
<1>. HIDE DEF a
<1>2. ASSUME NEW d PROVE Holds(a, d) <=> Holds(q, d) \/ d = c
  <2>1. 1..(n + 1) = 1..n \cup {n + 1}
    OBVIOUS
  <2>. QED BY <1>1, <2>1 DEF Holds
<1>3. ASSUME Distinct(q), ~Holds(q, c) PROVE Distinct(a)
  <2>1. \A i \in 1..(n + 1) : i \in 1..n \/ i = n + 1
    OBVIOUS
  <2>. QED BY <1>1, <1>3, <2>1 DEF Distinct, Holds
<1>. QED BY <1>1, <1>2, <1>3 DEF a

\* read_more_data() takes a command whose update completed.
LEMMA UsableCommand ==
    ASSUME TypeOK, CanRead
    PROVE  /\ FirstUsable \in DOMAIN hash_queue
           /\ hash_queue[FirstUsable] \in Commands
           /\ cmd[hash_queue[FirstUsable]].completed
<1>. DEFINE T == Completed(hash_queue)
<1>1. T \in SUBSET Nat /\ T # {} /\ T \subseteq DOMAIN hash_queue
      /\ \A i \in T : hash_queue[i] \in Commands /\ cmd[hash_queue[i]].completed
  BY DEF TypeOK, CanRead, Completed
<1>2. \E i \in T : \A j \in T : i <= j
  <2>. HIDE DEF T
  <2>. QED BY <1>1, LeastNatural
<1>3. FirstUsable \in T
  BY <1>2 DEF FirstUsable
<1>. QED BY <1>1, <1>3

\* hash_more_data() takes the first command of the read queue.
LEMMA HashableCommand ==
    ASSUME TypeOK, HashNext # 0
    PROVE  /\ HashNext = 1 /\ 1 \in DOMAIN read_queue /\ read_queue # <<>>
           /\ read_queue[1] \in Commands
           /\ cmd[read_queue[1]].completed
BY DEF TypeOK, HashNext, Completed

\* A command moves from the hash queue to the read queue.
LEMMA TakeMoves ==
    ASSUME IInv, CanRead, TakeCommand, NEW c, c = hash_queue[FirstUsable]
    PROVE  /\ c \in Commands /\ cmd[c].completed
           /\ c \notin Outstanding /\ Holds(hash_queue, c) /\ ~Holds(read_queue, c)
           /\ read_queue' = Append(read_queue, c)
           /\ read_queue' \in Seq(Commands) /\ hash_queue' \in Seq(Commands)
           /\ \A d : /\ Holds(read_queue, d)' <=> Holds(read_queue, d) \/ d = c
                     /\ Holds(hash_queue, d)' <=> Holds(hash_queue, d) /\ d # c
           /\ QueuesDiffer'
<1>. USE DEF IInv
<1>1. c \in Commands /\ cmd[c].completed /\ FirstUsable \in DOMAIN hash_queue
  BY UsableCommand
<1>2. c \notin Outstanding
  BY <1>1 DEF UpdatesPlaced
<1>3. Holds(hash_queue, c)
  BY <1>1 DEF Holds
<1>4. ~Holds(read_queue, c)
  BY <1>1, <1>3 DEF QueuesDiffer
<1>5. /\ hash_queue \in Seq(Commands) /\ read_queue \in Seq(Commands)
      /\ Distinct(hash_queue) /\ Distinct(read_queue)
  BY DEF TypeOK, QueuesDiffer
<1>6. hash_queue' = Without(hash_queue, FirstUsable)
      /\ read_queue' = Append(read_queue, c)
  BY DEF TakeCommand
<1>7. /\ hash_queue' \in Seq(Commands) /\ Distinct(hash_queue')
      /\ \A d : Holds(hash_queue', d) <=> Holds(hash_queue, d) /\ d # c
  BY <1>1, <1>5, <1>6, WithoutOne, WithoutHolds
<1>8. /\ read_queue' \in Seq(Commands) /\ Distinct(read_queue')
      /\ \A d : Holds(read_queue', d) <=> Holds(read_queue, d) \/ d = c
  BY <1>1, <1>4, <1>5, <1>6, AppendHolds
<1>9. \A d : /\ Holds(read_queue, d)' <=> Holds(read_queue, d) \/ d = c
             /\ Holds(hash_queue, d)' <=> Holds(hash_queue, d) /\ d # c
  BY Zenon, <1>7, <1>8 DEF Holds
<1>10. QueuesDiffer'
  BY <1>7, <1>8, <1>9 DEF QueuesDiffer, Distinct
<1>. QED BY <1>1, <1>2, <1>3, <1>4, <1>6, <1>7, <1>8, <1>9, <1>10

\* A command moves from the read queue to the hash queue.
LEMMA HashMoves ==
    ASSUME IInv, HashNext # 0, NEW c, c = read_queue[HashNext],
           read_queue' = Without(read_queue, HashNext),
           hash_queue' = Append(hash_queue, c)
    PROVE  /\ c \in Commands /\ cmd[c].completed
           /\ c \notin Outstanding /\ Holds(read_queue, c) /\ ~Holds(hash_queue, c)
           /\ read_queue' \in Seq(Commands) /\ hash_queue' \in Seq(Commands)
           /\ \A d : /\ Holds(read_queue, d)' <=> Holds(read_queue, d) /\ d # c
                     /\ Holds(hash_queue, d)' <=> Holds(hash_queue, d) \/ d = c
           /\ QueuesDiffer'
<1>. USE DEF IInv
<1>1. /\ c \in Commands /\ cmd[c].completed /\ HashNext \in DOMAIN read_queue
  BY HashableCommand
<1>2. c \notin Outstanding
  BY <1>1 DEF UpdatesPlaced
<1>3. Holds(read_queue, c)
  BY <1>1 DEF Holds
<1>4. ~Holds(hash_queue, c)
  BY <1>1, <1>3 DEF QueuesDiffer
<1>5. /\ hash_queue \in Seq(Commands) /\ read_queue \in Seq(Commands)
      /\ Distinct(hash_queue) /\ Distinct(read_queue)
  BY DEF TypeOK, QueuesDiffer
<1>7. /\ read_queue' \in Seq(Commands) /\ Distinct(read_queue')
      /\ \A d : Holds(read_queue', d) <=> Holds(read_queue, d) /\ d # c
  BY <1>1, <1>5, WithoutOne, WithoutHolds
<1>8. /\ hash_queue' \in Seq(Commands) /\ Distinct(hash_queue')
      /\ \A d : Holds(hash_queue', d) <=> Holds(hash_queue, d) \/ d = c
  BY <1>1, <1>4, <1>5, AppendHolds
<1>9. \A d : /\ Holds(read_queue, d)' <=> Holds(read_queue, d) /\ d # c
             /\ Holds(hash_queue, d)' <=> Holds(hash_queue, d) \/ d = c
  BY Zenon, <1>7, <1>8 DEF Holds
<1>10. QueuesDiffer'
  BY <1>7, <1>8, <1>9 DEF QueuesDiffer, Distinct
<1>. QED BY <1>1, <1>2, <1>3, <1>4, <1>7, <1>8, <1>9, <1>10

-----------------------------------------------------------------------------
(* The commands in flight *)

\* Sets of commands are finite.
LEMMA CommandsFinite ==
    /\ IsFiniteSet(Commands) /\ Cardinality(Commands) = QueueDepth
    /\ \A S \in SUBSET Commands :
          /\ IsFiniteSet(S) /\ Cardinality(S) \in Nat
          /\ Cardinality(S) <= QueueDepth
<1>1. QueueDepth \in Nat
  BY SizesAssumption
<1>2. IsFiniteSet(Commands) /\ Cardinality(Commands) = QueueDepth
  BY <1>1, FS_Interval DEF Commands
<1>. QED BY <1>2, FS_Subset, FS_CardinalityType

\* The reads that are in flight, by the read queue.
LEMMA ReadingIs ==
    Reading = {c \in Commands : /\ ~cmd[c].completed /\ ~cmd[c].zero
                                /\ Holds(read_queue, c)}
BY DEF Reading, Holds

\* Some reads complete.
LEMMA MarkMoves ==
    ASSUME TypeOK, NEW S \in SUBSET Commands, MarkCompleted(S)
    PROVE  /\ cmd' \in [Commands -> Command]
           /\ \A c \in S : cmd'[c].completed
           /\ \A c \in Commands \ S : cmd'[c] = cmd[c]
           /\ \A c \in Commands : /\ cmd'[c].zero = cmd[c].zero
                                  /\ cmd'[c].length = cmd[c].length
                                  /\ cmd'[c].offset = cmd[c].offset
<1>1. \A c \in Commands : cmd'[c] = IF c \in S THEN [cmd[c] EXCEPT !.completed = TRUE]
                                    ELSE cmd[c]
  BY DEF MarkCompleted
<1>2. \A c \in Commands :
        /\ cmd[c] \in Command
        /\ [cmd[c] EXCEPT !.completed = TRUE] \in Command
        /\ [cmd[c] EXCEPT !.completed = TRUE].completed = TRUE
        /\ [cmd[c] EXCEPT !.completed = TRUE].zero = cmd[c].zero
        /\ [cmd[c] EXCEPT !.completed = TRUE].length = cmd[c].length
        /\ [cmd[c] EXCEPT !.completed = TRUE].offset = cmd[c].offset
  BY Zenon DEF TypeOK, Command
<1>3. cmd' \in [Commands -> Command]
  BY <1>2 DEF MarkCompleted
<1>. QED BY Zenon, <1>1, <1>2, <1>3

\* An update starts.
LEMMA StartedMoves ==
    ASSUME TypeOK, NEW c \in Commands
    PROVE  /\ Started(c) \in [Commands -> Command]
           /\ ~Started(c)[c].completed
           /\ \A d \in Commands \ {c} : Started(c)[d] = cmd[d]
           /\ \A d \in Commands : /\ Started(c)[d].zero = cmd[d].zero
                                  /\ Started(c)[d].length = cmd[d].length
                                  /\ Started(c)[d].offset = cmd[d].offset
<1>. DEFINE r == [cmd[c] EXCEPT !.completed = FALSE]
<1>1. /\ r \in Command /\ r.completed = FALSE /\ r.zero = cmd[c].zero
      /\ r.length = cmd[c].length /\ r.offset = cmd[c].offset
  BY Zenon DEF TypeOK, Command
<1>2. Started(c) = [cmd EXCEPT ![c] = r]
  BY DEF Started
<1>. HIDE DEF r
<1>3. cmd \in [Commands -> Command]
  BY DEF TypeOK
<1>. QED BY <1>1, <1>2, <1>3

-----------------------------------------------------------------------------
(* The steps preserve the invariant *)

\* Every command stays in one queue.
LEMMA NextQueues == IInv /\ [Next]_vars => QueuesDiffer'
<1>. SUFFICES ASSUME IInv, [Next]_vars PROVE QueuesDiffer'
  BY Zenon
<1>1. CASE ReadMore \/ ReadFails \/ FileSpins
  BY Zenon, <1>1, TakeMoves DEF ReadMore, ReadFails, FileSpins
<1>2. CASE HashMore \/ HashRefused \/ HashCallFails
  BY <1>2, HashMoves DEF HashMore, HashRefused, HashCallFails, HashFails
<1>3. CASE FreeCommands
  BY <1>3 DEF FreeCommands, QueuesDiffer, Distinct, Holds
<1>4. CASE UNCHANGED <<read_queue, hash_queue>>
  BY Zenon, <1>4 DEF QueuesDiffer, Distinct, Holds, IInv
<1>5. \/ ReadMore \/ ReadFails \/ FileSpins \/ HashMore \/ HashRefused
      \/ HashCallFails \/ FreeCommands \/ UNCHANGED <<read_queue, hash_queue>>
  BY Zenon DEF Next, Worker, Progress, HashThreads, Main, OpenSrc, FetchExtents, ReadDone,
         HashDone, Poll, PollFails, Notify, Drain, CompleteUpdates, CompletionsFail,
         Check, Final, UpdateDone, SignalEvent, UpdateFails, Signal, JoinWorker,
         FreeHash, Decide, Idle, appVars, queues, vars
<1>. QED BY <1>1, <1>2, <1>3, <1>4, <1>5

\* complete_updates() empties the queue of the hash.
LEMMA ReapsAll ==
    ASSUME IInv, CompleteUpdates
    PROVE  /\ cq' = <<>> /\ UNCHANGED <<updating, bad, event, herror>>
           /\ ~herror /\ signals' = signals
<1>1. Len(cq) \in Nat /\ cq \in Seq(Completion)
  BY DEF IInv, TypeOK, Completion
<1>2. Hash!Reap(Len(cq))
  BY DEF CompleteUpdates
<1>3. /\ cq' = SubSeq(cq, Len(cq) + 1, Len(cq))
      /\ UNCHANGED <<updating, bad, event, herror>> /\ ~herror
      /\ signals' = IF Len(cq) \in 1..Len(cq) - 1 THEN signals + 1 ELSE signals
  BY <1>2 DEF Hash!Reap
<1>4. cq' = <<>>
  BY SMTT(30), <1>1, <1>3
<1>. QED BY SMTT(30), <1>1, <1>3, <1>4

\* The completion of an update is queued.
LEMMA DoneMoves ==
    ASSUME IInv, NEW c \in Commands, UpdateDone(c)
    PROVE  /\ c \in updating /\ updating' = updating \ {c} /\ bad' = bad \ {c}
           /\ cq' = Append(cq, [user_data |-> c, error |-> c \in bad])
           /\ cq' \in Seq(Completion)
           /\ DOMAIN cq = 1..Len(cq) /\ DOMAIN cq' = 1..(Len(cq) + 1)
           /\ Len(cq) \in Nat /\ Len(cq') = Len(cq) + 1
           /\ \A i \in DOMAIN cq : cq'[i] = cq[i]
           /\ cq'[Len(cq) + 1].user_data = c
           /\ cq'[Len(cq) + 1].error = (c \in bad)
           /\ \A d : Reported(d)' <=> Reported(d) \/ d = c
           /\ UNCHANGED <<event, herror>> /\ signals' \in {signals, signals + 1}
           /\ UNCHANGED appVars
<1>. DEFINE e == [user_data |-> c, error |-> c \in bad]
<1>1. /\ c \in updating /\ updating' = updating \ {c} /\ bad' = bad \ {c}
      /\ cq' = Append(cq, e)
      /\ UNCHANGED <<event, herror>> /\ signals' \in {signals, signals + 1}
      /\ UNCHANGED appVars
  BY Zenon DEF UpdateDone, Hash!Done
<1>2. e \in Completion /\ e.user_data = c /\ e.error = (c \in bad)
  BY SMTT(30) DEF Completion
<1>3. cq \in Seq(Completion)
  BY DEF IInv, TypeOK, Completion
<1>4. PICK n \in Nat : n = Len(cq)
  BY <1>3
<1>. HIDE DEF e
<1>5. /\ cq' \in Seq(Completion) /\ DOMAIN cq = 1..n /\ DOMAIN cq' = 1..(n + 1)
      /\ Len(cq') = n + 1
      /\ \A i \in 1..n : cq'[i] = cq[i]
      /\ cq'[n + 1] = e
  BY <1>1, <1>2, <1>3, <1>4
<1>6. \A i \in 1..(n + 1) : i \in 1..n \/ i = n + 1
  OBVIOUS
<1>7. \A d : Reported(d)' <=> Reported(d) \/ d = c
  BY <1>2, <1>5, <1>6 DEF Reported
<1>. QED BY <1>1, <1>2, <1>4, <1>5, <1>7 DEF e

\* An update that was not reaped keeps its command.
LEMMA NextPlaced == IInv /\ [Next]_vars => UpdatesPlaced'
<1>. SUFFICES ASSUME IInv, [Next]_vars PROVE UpdatesPlaced'
  OBVIOUS
<1>. USE DEF IInv
<1>a. ASSUME UNCHANGED <<cq, updating>>
      PROVE  Outstanding' = Outstanding /\ \A c : Reported(c)' <=> Reported(c)
  BY <1>a DEF Outstanding, Reported
<1>b. ASSUME UNCHANGED <<cq, updating>>,
             \A c \in Outstanding : cmd'[c] = cmd[c] /\ Holds(hash_queue, c)'
      PROVE  UpdatesPlaced'
  BY <1>a, <1>b DEF UpdatesPlaced
<1>1. CASE ReadMore \/ ReadFails \/ FileSpins
  <2>. DEFINE c == hash_queue[FirstUsable]
  <2>1. CanRead /\ TakeCommand /\ UNCHANGED <<cq, updating>>
    BY <1>1 DEF ReadMore, ReadFails, FileSpins, hashVars
  <2>2. c \notin Outstanding
        /\ \A d : Holds(hash_queue, d)' <=> Holds(hash_queue, d) /\ d # c
    BY <2>1, TakeMoves
  <2>3. \A d \in Commands \ {c} : cmd'[d] = cmd[d]
    BY <1>1 DEF ReadMore, ReadFails, FileSpins, TypeOK
  <2>. QED BY Zenon, <1>b, <2>1, <2>2, <2>3 DEF UpdatesPlaced, Outstanding
<1>2. CASE HashRefused \/ HashCallFails
  <2>. DEFINE c == read_queue[HashNext]
  <2>1. HashNext # 0 /\ HashFails(c) /\ UNCHANGED <<cq, updating>>
    BY Zenon, <1>2 DEF HashRefused, HashCallFails, Hash!CallFails, hashVars
  <2>2. c \notin Outstanding
        /\ \A d : Holds(hash_queue, d)' <=> Holds(hash_queue, d) \/ d = c
    BY <2>1, HashMoves DEF HashFails
  <2>3. \A d \in Commands \ {c} : cmd'[d] = cmd[d]
    BY <2>1 DEF HashFails, Started, TypeOK
  <2>. QED BY Zenon, <1>b, <2>1, <2>2, <2>3 DEF UpdatesPlaced, Outstanding
<1>3. CASE HashMore
  <2>. DEFINE c == read_queue[HashNext]
  <2>1. /\ c \in Commands /\ cmd[c].completed /\ c \notin Outstanding
        /\ Holds(read_queue, c)
        /\ \A d : Holds(hash_queue, d)' <=> Holds(hash_queue, d) \/ d = c
    BY Zenon, <1>3, HashMoves DEF HashMore
  <2>2. CASE UNCHANGED <<cmd, commands_in_flight, hashVars>>
    BY Zenon, <1>b, <2>1, <2>2 DEF hashVars, UpdatesPlaced
  <2>3. CASE ~cmd[c].zero /\ cmd' = Started(c) /\ Hash!Start(c)
    <3>1. updating' = updating \cup {c} /\ cq' = cq
      BY <2>3 DEF Hash!Start
    <3>2. \A d : Reported(d)' <=> Reported(d)
      BY <3>1 DEF Reported
    <3>3. Outstanding' = Outstanding \cup {c} /\ ~Reported(c)
      BY <2>1, <3>1, <3>2 DEF Outstanding
    <3>4. /\ \A d \in Commands \ {c} : cmd'[d] = cmd[d]
          /\ ~cmd'[c].completed /\ cmd'[c].zero = cmd[c].zero
          /\ cmd'[c].length = cmd[c].length
      BY <2>1, <2>3 DEF Started, TypeOK, Command
    <3>5. cmd[c].length > 0
      BY Zenon, <1>3, <2>1 DEF HashMore, ReadsFit, Working, Holds
    <3>6. \A d \in Outstanding' :
            /\ ~cmd'[d].completed /\ ~cmd'[d].zero /\ cmd'[d].length > 0
            /\ Holds(hash_queue, d)'
      BY Zenon, <2>1, <2>3, <3>3, <3>4, <3>5 DEF UpdatesPlaced, Outstanding
    <3>. QED BY <3>1, <3>2, <3>3, <3>6 DEF UpdatesPlaced
  <2>. QED BY <1>3, <2>2, <2>3 DEF HashMore
<1>4. CASE FetchExtents \/ Notify
  <2>1. UNCHANGED <<cq, updating, hash_queue>>
    BY <1>4 DEF FetchExtents, Notify, hashVars
  <2>2. \/ \E done \in SUBSET Reading : MarkCompleted(done)
        \/ cmd' = cmd
    BY <1>4 DEF FetchExtents, Notify
  <2>3. ASSUME NEW done \in SUBSET Reading, MarkCompleted(done)
        PROVE  \A c \in Outstanding : cmd'[c] = cmd[c]
    <3>1. done \in SUBSET Commands
      BY DEF Reading
    <3>2. \A c \in Outstanding : c \notin done /\ c \in Commands
      BY ReadingIs DEF UpdatesPlaced, QueuesDiffer, Outstanding
    <3>. QED BY <2>3, <3>1, <3>2, MarkMoves
  <2>4. \A c : Holds(hash_queue, c)' <=> Holds(hash_queue, c)
    BY <2>1 DEF Holds
  <2>. QED BY <1>b, <2>1, <2>2, <2>3, <2>4 DEF UpdatesPlaced
<1>5. CASE CompleteUpdates
  <2>1. cq' = <<>> /\ updating' = updating /\ hash_queue' = hash_queue
    BY <1>5, ReapsAll DEF CompleteUpdates
  <2>2. Outstanding' = updating /\ \A c : ~Reported(c)'
    BY <2>1 DEF Outstanding, Reported, TypeOK
  <2>. DEFINE S == {cq[i].user_data : i \in Good}
  <2>3. MarkCompleted(S) /\ S \in SUBSET Commands /\ \A c \in S : Reported(c)
    <3>0. cq \in Seq(Completion) /\ Good \subseteq DOMAIN cq
      BY DEF Good, TypeOK, Completion
    <3>1. \A i \in Good : i \in DOMAIN cq /\ cq[i] \in Completion
      BY <3>0
    <3>. QED BY <1>5, <3>1 DEF CompleteUpdates, Reported, Completion
  <2>. HIDE DEF S
  <2>4. \A c \in updating : c \in Outstanding /\ cmd'[c] = cmd[c]
    BY <2>3, MarkMoves DEF UpdatesPlaced, Outstanding, TypeOK
  <2>5. \A c : Holds(hash_queue, c)' <=> Holds(hash_queue, c)
    BY <2>1 DEF Holds
  <2>. QED BY <2>1, <2>2, <2>4, <2>5 DEF UpdatesPlaced
<1>6. ASSUME NEW c \in Commands, UpdateDone(c) PROVE UpdatesPlaced'
  <2>1. UNCHANGED <<cmd, hash_queue>>
    BY Zenon, <1>6, DoneMoves DEF appVars, queues
  <2>2. Outstanding' = Outstanding
    BY Zenon, <1>6, DoneMoves DEF Outstanding
  <2>3. \A d \in updating' : ~Reported(d)'
    BY Zenon, <1>6, DoneMoves DEF UpdatesPlaced
  <2>4. \A i, j \in DOMAIN cq' : cq'[i].user_data = cq'[j].user_data => i = j
    <3>1. PICK n \in Nat : n = Len(cq)
      BY <1>6, DoneMoves
    <3>2. /\ DOMAIN cq = 1..n /\ DOMAIN cq' = 1..(n + 1)
          /\ \A i \in 1..n : cq'[i] = cq[i]
          /\ cq'[n + 1].user_data = c /\ c \in updating
      BY Zenon, <1>6, <3>1, DoneMoves
    <3>3. \A i \in 1..n : cq[i].user_data # c
      BY <3>2 DEF UpdatesPlaced, Reported
    <3>4. \A i \in 1..(n + 1) : i \in 1..n \/ i = n + 1
      BY SMTT(30)
    <3>. QED BY Zenon, <3>2, <3>3, <3>4 DEF UpdatesPlaced
  <2>. QED BY <2>1, <2>2, <2>3, <2>4 DEF UpdatesPlaced, Holds
<1>7. CASE FreeHash
  BY SMTT(30), <1>7 DEF FreeHash, UpdatesPlaced, Outstanding, Reported
<1>8. CASE FreeCommands
  <2>1. updating' = {} /\ cq' = <<>>
    BY Zenon, <1>8 DEF FreeCommands, EndsInOrder, hashVars
  <2>. QED BY <2>1 DEF UpdatesPlaced, Outstanding, Reported
<1>9. CASE UNCHANGED <<cq, updating, cmd, hash_queue>>
  <2>1. \A c : Holds(hash_queue, c)' <=> Holds(hash_queue, c)
    BY Zenon, <1>9 DEF Holds
  <2>. QED BY <1>9, <1>b, <2>1 DEF UpdatesPlaced
<1>10. \/ ReadMore \/ ReadFails \/ FileSpins \/ HashMore \/ HashRefused
       \/ HashCallFails \/ FreeCommands \/ FreeHash \/ CompleteUpdates
       \/ FetchExtents \/ Notify \/ (\E c \in Commands : UpdateDone(c))
       \/ UNCHANGED <<cq, updating, cmd, hash_queue>>
  BY Zenon DEF Next, Worker, Progress, HashThreads, Main, OpenSrc, ReadDone,
         HashDone, Poll, PollFails, Drain, CompletionsFail, Check, Final,
         SignalEvent, UpdateFails, Signal, JoinWorker, Decide, Idle, appVars,
         queues, vars, hashVars, Hash!Read, Hash!Signal, Hash!UpdateFails
<1>. QED BY Zenon, <1>1, <1>2, <1>3, <1>4, <1>5, <1>6, <1>7, <1>8, <1>9, <1>10

\* A worker that stopped does not start again.
LEMMA WorkingBefore == [Next]_vars /\ Working' => Working
BY Zenon DEF Working, Next, Worker, Progress, HashThreads, Main, OpenSrc, FetchExtents,
       ReadMore, ReadFails, FileSpins, ReadDone, HashMore, HashRefused,
       HashCallFails, HashDone, Poll, PollFails, Notify, Drain, CompleteUpdates,
       CompletionsFail, Check, Final, UpdateDone, SignalEvent, UpdateFails, Signal,
       JoinWorker, FreeHash, FreeCommands, Decide, Idle, appVars, vars

\* One command joins or leaves a set of commands.
LEMMA OneCommand ==
    ASSUME NEW S \in SUBSET Commands, NEW c \in Commands
    PROVE  /\ c \notin S => Cardinality(S \cup {c}) = Cardinality(S) + 1
           /\ c \in S => Cardinality(S \ {c}) = Cardinality(S) - 1
<1>1. IsFiniteSet(S)
  BY CommandsFinite
<1>. QED BY Zenon, <1>1, FS_AddElement, FS_RemoveElement

\* Reads that complete are no longer in flight.
LEMMA ReadsComplete ==
    ASSUME TypeOK, NEW done \in SUBSET Reading, MarkCompleted(done),
           read_queue' = read_queue
    PROVE  /\ Reading' = Reading \ done
           /\ Cardinality(Reading') = Cardinality(Reading) - Cardinality(done)
<1>1. done \in SUBSET Commands /\ Reading \in SUBSET Commands
  BY DEF Reading
<1>2. \A c : Holds(read_queue, c)' <=> Holds(read_queue, c)
  BY DEF Holds
<1>3. Reading' = {c \in Commands : /\ ~cmd'[c].completed /\ ~cmd'[c].zero
                                   /\ Holds(read_queue, c)'}
  BY Zenon DEF Reading, Holds
<1>4. Reading' = Reading \ done
  BY <1>1, <1>2, <1>3, MarkMoves, ReadingIs
<1>5. Cardinality(Reading \ done) = Cardinality(Reading) - Cardinality(done)
  <2>1. IsFiniteSet(Reading) /\ IsFiniteSet(done) /\ Reading \cap done = done
    BY <1>1, CommandsFinite
  <2>. QED BY Zenon, <2>1, FS_Difference
<1>. QED BY <1>4, <1>5

\* The commands of the first n completions.
FirstReported(n) == {cq[i].user_data : i \in 1..n}

\* Each completion is of another command.
LEMMA FirstReportedCount ==
    ASSUME IInv, NEW n \in 0..Len(cq)
    PROVE  /\ \A i \in 1..Len(cq) : cq[i].user_data \in Commands
           /\ FirstReported(n) \subseteq Commands
           /\ \A c \in FirstReported(n) : Reported(c)
           /\ Cardinality(FirstReported(n)) = n
<1>. USE DEF IInv
<1>1. /\ cq \in Seq(Completion) /\ DOMAIN cq = 1..Len(cq) /\ Len(cq) \in Nat
      /\ 1..n \subseteq DOMAIN cq
  BY DEF TypeOK, Completion
<1>2. \A i \in 1..Len(cq) : cq[i] \in Completion
  BY <1>1
<1>3. \A i \in 1..Len(cq) : cq[i].user_data \in Commands
  BY Zenon, <1>2 DEF Completion
<1>4. FirstReported(n) \subseteq Commands /\ \A c \in FirstReported(n) : Reported(c)
  BY <1>1, <1>3 DEF FirstReported, Reported
<1>. DEFINE f == [i \in 1..n |-> cq[i].user_data]
<1>5. f \in Surjection(1..n, FirstReported(n))
  BY DEF Surjection, FirstReported
<1>6. f \in Injection(1..n, FirstReported(n))
  <2>1. \A i, j \in 1..n : f[i] = f[j] => i = j
    BY <1>1 DEF UpdatesPlaced
  <2>. QED BY <1>5, <2>1 DEF Injection, IsInjective, Surjection
<1>7. IsFiniteSet(1..n) /\ Cardinality(1..n) = n
  BY FS_Interval
<1>. HIDE DEF f
<1>. QED BY Zenon, <1>3, <1>4, <1>5, <1>6, <1>7, FS_Surjection

\* complete_updates() stops at the first completion with an error.
LEMMA GoodPrefix ==
    ASSUME IInv
    PROVE  Cardinality(Good) \in 0..Len(cq) /\ Good = 1..Cardinality(Good)
<1>1. PICK n \in Nat : n = Len(cq) /\ DOMAIN cq = 1..n
  BY DEF IInv, TypeOK
<1>2. \A k \in 0..n : Cardinality(1..k) = k
  BY FS_Interval
<1>3. CASE Good = DOMAIN cq
  <2>1. Good = 1..n /\ n \in 0..n
    BY <1>1, <1>3
  <2>. QED BY <1>1, <1>2, <2>1
<1>4. CASE Good # DOMAIN cq
  <2>. DEFINE T == DOMAIN cq \ Good
  <2>1. T \in SUBSET Nat /\ T # {}
    BY <1>1, <1>4 DEF Good
  <2>2. PICK x \in T : \A y \in T : x <= y
    <3>. HIDE DEF T
    <3>. QED BY <2>1, LeastNatural
  <2>3. x \in 1..n /\ x \notin Good
    BY <1>1
  <2>4. Good = 1..(x - 1)
    <3>1. ASSUME NEW i \in 1..(x - 1) PROVE i \in Good
      <4>1. i \in DOMAIN cq /\ ~(x <= i)
        BY <1>1, <2>3
      <4>. QED BY <2>2, <4>1
    <3>2. ASSUME NEW i \in Good PROVE i \in 1..(x - 1)
      <4>1. i \in 1..n /\ \A j \in 1..i : ~cq[j].error
        BY <1>1 DEF Good
      <4>2. CASE x <= i
        <5>1. \A j \in 1..x : ~cq[j].error
          BY SMTT(30), <2>3, <4>1, <4>2
        <5>2. x \in Good
          BY <1>1, <2>3, <5>1 DEF Good
        <5>. QED BY <2>3, <5>2
      <4>3. CASE ~(x <= i)
        BY <2>3, <4>1, <4>3
      <4>. QED BY <4>2, <4>3
    <3>. QED BY Zenon, <3>1, <3>2
  <2>5. PICK k \in 0..n : k = x - 1
    BY <2>3
  <2>6. Good = 1..k /\ Cardinality(Good) = k
    BY <1>2, <2>4, <2>5
  <2>. QED BY <1>1, <2>6
<1>. QED BY <1>3, <1>4

\* What complete_updates() does to the commands.
LEMMA CompleteMoves ==
    ASSUME IInv, CompleteUpdates, NEW n, n = Cardinality(Good)
    PROVE  /\ n \in 0..Len(cq)
           /\ MarkCompleted(FirstReported(n))
           /\ bytes_hashed' = bytes_hashed
                                + Total([i \in 1..n |-> cmd[cq[i].user_data]])
           /\ Working' <=> n = Len(cq)
           /\ UNCHANGED <<read_queue, hash_queue, read_offset, extents, srcVars,
                          hashed, digest, mpc>>
<1>1. n \in 0..Len(cq) /\ {cq[i].user_data : i \in Good} = FirstReported(n)
  BY GoodPrefix DEF FirstReported
<1>. QED BY Zenon, <1>1 DEF CompleteUpdates, WorkerFails, Working, mainVars

\* The terms of InFlight are natural numbers.
LEMMA InFlightSum ==
    ASSUME TypeOK
    PROVE  /\ Reading \in SUBSET Commands /\ updating \in SUBSET Commands
           /\ Cardinality(Reading) \in Nat /\ Cardinality(updating) \in Nat
           /\ Len(cq) \in Nat /\ InFlight \in Nat
<1>1. Reading \in SUBSET Commands /\ updating \in SUBSET Commands
  BY DEF Reading, TypeOK
<1>2. Cardinality(Reading) \in Nat /\ Cardinality(updating) \in Nat
  BY <1>1, CommandsFinite
<1>3. Len(cq) \in Nat
  BY DEF TypeOK
<1>. QED BY <1>1, <1>2, <1>3 DEF InFlight

\* w->commands_in_flight stays the number of commands in flight.
LEMMA NextInFlight ==
    IInv /\ [Next]_vars => (Working => commands_in_flight = InFlight)'
<1>. SUFFICES ASSUME IInv, [Next]_vars, Working'
              PROVE  commands_in_flight' = InFlight'
  OBVIOUS
<1>. USE DEF IInv
<1>0. Working /\ commands_in_flight = InFlight
  BY WorkingBefore
<1>a. /\ InFlight = Cardinality(Reading) + Cardinality(updating) + Len(cq)
      /\ InFlight' = Cardinality(Reading') + Cardinality(updating') + Len(cq')
  BY DEF InFlight
<1>b. PICK r \in Nat, u \in Nat, l \in Nat :
        r = Cardinality(Reading) /\ u = Cardinality(updating) /\ l = Len(cq)
  <2>1. Cardinality(Reading) \in Nat /\ Cardinality(updating) \in Nat
        /\ Len(cq) \in Nat
    BY InFlightSum
  <2>. QED BY <2>1, Zenon
<1>c. commands_in_flight = r + u + l
  BY <1>0, <1>a, <1>b
<1>d. Reading' = {c \in Commands : /\ ~cmd'[c].completed /\ ~cmd'[c].zero
                                   /\ Holds(read_queue, c)'}
  BY DEF Reading, Holds
<1>1. CASE ReadMore
  <2>. DEFINE c == hash_queue[FirstUsable]
              zero == Head(extents).zero
  <2>1. /\ c \in Commands /\ cmd[c].completed
        /\ \A d : Holds(read_queue, d)' <=> Holds(read_queue, d) \/ d = c
    BY Zenon, <1>1, TakeMoves DEF ReadMore
  <2>2. /\ \A d \in Commands \ {c} : cmd'[d] = cmd[d]
        /\ cmd'[c].zero = zero /\ cmd'[c].completed = (zero \/ ~nbd)
    BY Zenon, <1>1, <2>1 DEF ReadMore, TypeOK
  <2>3. /\ UNCHANGED <<updating, cq>>
        /\ commands_in_flight' = commands_in_flight + Counted(zero)
    BY Zenon, <1>1 DEF ReadMore, hashVars
  <2>4. zero \in BOOLEAN /\ nbd \in BOOLEAN
    <3>0. extents \in Seq(Extent) /\ extents # <<>>
      BY <1>1 DEF ReadMore, TypeOK, Extent
    <3>1. Head(extents) \in Extent
      BY Zenon, <3>0, HeadAndTail
    <3>. QED BY Zenon, <3>1 DEF Extent, TypeOK
  <2>5. c \notin Reading /\ Reading \in SUBSET Commands
    BY <2>1 DEF Reading
  <2>6. CASE zero \/ ~nbd
    <3>1. Reading' = Reading
      BY Zenon, <1>d, <2>1, <2>2, <2>6, ReadingIs
    <3>. QED BY <1>a, <1>b, <1>c, <2>3, <2>6, <3>1 DEF Counted
  <2>7. CASE ~(zero \/ ~nbd)
    <3>1. Reading' = Reading \cup {c}
      BY Zenon, <1>d, <2>1, <2>2, <2>7, ReadingIs
    <3>2. Cardinality(Reading') = r + 1
      BY Zenon, <1>b, <2>1, <2>5, <3>1, OneCommand
    <3>3. commands_in_flight' = (r + u + l) + 1
      BY <1>c, <2>3, <2>7 DEF Counted
    <3>4. InFlight' = (r + 1) + u + l
      BY Zenon, <1>a, <1>b, <2>3, <3>2
    <3>. QED BY <3>3, <3>4
  <2>. QED BY Zenon, <2>6, <2>7
<1>2. CASE ReadFails \/ FileSpins \/ HashRefused \/ HashCallFails
  BY Zenon, <1>2 DEF ReadFails, FileSpins, HashRefused, HashCallFails, HashFails,
              WorkerFails, Working
<1>3. CASE HashMore
  <2>. DEFINE c == read_queue[HashNext]
  <2>1. /\ c \in Commands /\ cmd[c].completed /\ c \notin Outstanding
        /\ \A d : Holds(read_queue, d)' <=> Holds(read_queue, d) /\ d # c
    BY Zenon, <1>3, HashMoves DEF HashMore
  <2>2. \A d \in Commands \ {c} : cmd'[d] = cmd[d]
    BY Zenon, <1>3 DEF HashMore, Started, TypeOK
  <2>3. Reading' = Reading
    BY Zenon, <1>d, <2>1, <2>2, ReadingIs
  <2>4. CASE UNCHANGED <<cmd, commands_in_flight, hashVars>>
    BY Zenon, <1>a, <1>b, <1>c, <2>3, <2>4 DEF hashVars
  <2>5. CASE Hash!Start(c) /\ commands_in_flight' = commands_in_flight + 1
    <3>1. updating' = updating \cup {c} /\ cq' = cq
      BY Zenon, <2>5 DEF Hash!Start
    <3>2. c \notin updating /\ updating \in SUBSET Commands
      BY Zenon, <2>1 DEF Outstanding, TypeOK
    <3>3. Cardinality(updating') = u + 1
      BY <1>b, <2>1, <3>1, <3>2, OneCommand
    <3>. QED BY SMTT(30), <1>a, <1>b, <1>c, <2>3, <2>5, <3>1, <3>3
  <2>. QED BY Zenon, <1>3, <2>4, <2>5 DEF HashMore
<1>4. CASE FetchExtents \/ Notify
  <2>1. PICK done \in SUBSET Reading : MarkCompleted(done)
    BY <1>4 DEF FetchExtents, Notify, WorkerFails, Working
  <2>2. UNCHANGED <<read_queue, updating, cq>>
    BY <1>4 DEF FetchExtents, Notify, hashVars
  <2>3. PICK k \in Nat : k = Cardinality(done)
    <3>1. done \in SUBSET Commands
      BY DEF Reading
    <3>. QED BY <3>1, CommandsFinite
  <2>4. Cardinality(Reading') = r - k
    BY <1>b, <2>1, <2>2, <2>3, ReadsComplete
  <2>5. commands_in_flight' = (r + u + l) - k
    BY <1>c, <2>1, <2>3 DEF MarkCompleted
  <2>6. InFlight' = (r - k) + u + l
    BY <1>a, <1>b, <2>2, <2>4
  <2>. QED BY <2>5, <2>6
<1>5. CASE CompleteUpdates
  <2>1. cq' = <<>> /\ updating' = updating
    BY <1>5, ReapsAll
  <2>2. /\ l = Cardinality(Good) /\ MarkCompleted(FirstReported(l))
        /\ read_queue' = read_queue /\ l \in 0..Len(cq)
    BY Zenon, <1>5, <1>b, CompleteMoves
  <2>3. /\ FirstReported(l) \in SUBSET Commands
        /\ \A c \in FirstReported(l) : Reported(c)
        /\ Cardinality(FirstReported(l)) = l
    BY <2>2, FirstReportedCount
  <2>4. commands_in_flight' = (r + u + l) - l
    BY <1>c, <2>2, <2>3 DEF MarkCompleted
  <2>5. \A c : Holds(read_queue, c)' <=> Holds(read_queue, c)
    BY Zenon, <2>2 DEF Holds
  <2>6. \A c \in FirstReported(l) : ~Holds(read_queue, c)
    BY Zenon, <2>3 DEF UpdatesPlaced, Outstanding, QueuesDiffer
  <2>7. Reading' = Reading
    BY Zenon, <1>d, <2>2, <2>3, <2>5, <2>6, MarkMoves, ReadingIs
  <2>8. Len(cq') = 0
    BY <2>1
  <2>. QED BY <1>a, <1>b, <2>1, <2>4, <2>7, <2>8
<1>6. ASSUME NEW c \in Commands, UpdateDone(c)
      PROVE  commands_in_flight' = InFlight'
  <2>1. UNCHANGED <<cmd, read_queue, commands_in_flight>>
    BY Zenon, <1>6, DoneMoves DEF appVars, queues, counters
  <2>2. Reading' = Reading
    BY <2>1 DEF Reading
  <2>3. c \in updating /\ updating' = updating \ {c} /\ updating \in SUBSET Commands
    BY Zenon, <1>6, DoneMoves DEF TypeOK
  <2>4. Cardinality(updating') = u - 1
    BY Zenon, <1>b, <2>3, OneCommand
  <2>5. Len(cq') = l + 1
    BY Zenon, <1>6, <1>b, DoneMoves
  <2>6. InFlight' = r + (u - 1) + (l + 1)
    BY Zenon, <1>a, <1>b, <2>2, <2>4, <2>5
  <2>. QED BY <1>c, <2>1, <2>6
<1>7. CASE FreeHash \/ FreeCommands
  BY Zenon, <1>0, <1>7 DEF FreeHash, FreeCommands, EndsInOrder, Working
<1>8. CASE UNCHANGED <<cq, updating, cmd, read_queue, commands_in_flight>>
  BY Zenon, <1>0, <1>8 DEF InFlight, Reading
<1>9. \/ ReadMore \/ ReadFails \/ FileSpins \/ HashMore \/ HashRefused
      \/ HashCallFails \/ FreeCommands \/ FreeHash \/ CompleteUpdates
      \/ FetchExtents \/ Notify \/ (\E c \in Commands : UpdateDone(c))
      \/ UNCHANGED <<cq, updating, cmd, read_queue, commands_in_flight>>
  BY Zenon DEF Next, Worker, Progress, HashThreads, Main, OpenSrc, ReadDone,
         HashDone, Poll, PollFails, Drain, CompletionsFail, Check, Final,
         SignalEvent, UpdateFails, Signal, JoinWorker, Decide, Idle, appVars,
         queues, counters, vars, hashVars, Hash!Read, Hash!Signal, Hash!UpdateFails
<1>. QED BY <1>1, <1>2, <1>3, <1>4, <1>5, <1>6, <1>7, <1>8, <1>9
=============================================================================
