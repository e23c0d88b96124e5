-------------------------- MODULE AioChecksumProofs -------------------------
(***************************************************************************)
(* Proofs about AioChecksum, for every image size, queue depth, read size  *)
(* and every answer of the server.                                         *)
(***************************************************************************)
EXTENDS AioChecksumLemmas

-----------------------------------------------------------------------------
(* The image *)

\* Where the part of the image ends that the i-th command of the queue reads.
EndOf(i) == IF i = Len(read_queue) THEN read_offset ELSE cmd[read_queue[i+1]].offset

\* ImageInOrder, one command at a time.
LEMMA ImageInOrderIs ==
    ImageInOrder <=>
        (Working =>
            /\ \A i \in DOMAIN read_queue :
                  cmd[read_queue[i]].offset + cmd[read_queue[i]].length = EndOf(i)
            /\ hashed = IF read_queue = <<>> THEN read_offset
                        ELSE cmd[read_queue[1]].offset)
BY DEF ImageInOrder, Working, EndOf

\* How much read_more_data() reads.
LEMMA TakeSome ==
    ASSUME IInv, extents # <<>>, NEW n, n = Take(Head(extents))
    PROVE  /\ extents \in Seq(Extent) /\ Head(extents) \in Extent
           /\ n \in 1..Head(extents).length /\ n \in Nat /\ n > 0
           /\ Head(extents).zero \/ n <= ReadSize
           /\ read_offset + n <= ImageSize /\ read_offset \in Nat
           /\ n <= ImageSize
<1>. USE DEF IInv
<1>1. extents \in Seq(Extent) /\ Head(extents) \in Extent
  <2>1. extents \in Seq(Extent)
    BY DEF TypeOK, Extent
  <2>. QED BY <2>1, HeadAndTail
<1>2. n \in 1..Head(extents).length /\ (Head(extents).zero \/ n <= ReadSize)
  BY <1>1, SizesAssumption DEF Take, MinOf, Extent
<1>3. n <= Total(extents) /\ Total(extents) \in Nat
  BY <1>1, <1>2, ConsumedTotal, TotalOfExtents
<1>4. Total(extents) <= ImageSize - read_offset /\ read_offset \in 0..ImageSize
  BY DEF ReadsFit, TypeOK
<1>5. n \in Nat /\ n > 0 /\ Head(extents).length \in Nat
  BY <1>1, <1>2 DEF Extent
<1>. QED BY <1>1, <1>2, <1>3, <1>4, <1>5, SizesAssumption

\* What read_more_data() does with a command.
LEMMA ReadMoves ==
    ASSUME IInv, ReadMore, NEW c, c = hash_queue[FirstUsable],
           NEW n, n = Take(Head(extents))
    PROVE  /\ cmd' \in [Commands -> Command]
           /\ \A d \in Commands \ {c} : cmd'[d] = cmd[d]
           /\ cmd'[c].offset = read_offset /\ cmd'[c].length = n
           /\ cmd'[c].zero = Head(extents).zero
           /\ extents' = Consumed(n)
           /\ read_offset' = read_offset + n
<1>. USE DEF IInv
<1>. DEFINE r == [offset |-> read_offset, length |-> n, zero |-> Head(extents).zero,
                  completed |-> Head(extents).zero \/ ~nbd]
<1>1. c \in Commands
  BY TakeMoves DEF ReadMore
<1>2. cmd' = [cmd EXCEPT ![c] = r] /\ extents' = Consumed(n)
      /\ read_offset' = read_offset + n /\ extents # <<>>
  BY DEF ReadMore
<1>3. r \in Command
  <2>1. /\ Head(extents).zero \in BOOLEAN /\ nbd \in BOOLEAN
        /\ read_offset \in 0..ImageSize /\ n \in 0..ImageSize
    <3>1. Head(extents) \in Extent /\ n \in Nat /\ n <= ImageSize
      BY <1>2, TakeSome
    <3>2. nbd \in BOOLEAN /\ read_offset \in 0..ImageSize
      BY Zenon DEF TypeOK
    <3>3. n \in 0..ImageSize
      BY <3>1, SizesAssumption
    <3>4. Head(extents).zero \in BOOLEAN
      BY <3>1 DEF Extent
    <3>. QED BY Zenon, <3>2, <3>3, <3>4
  <2>. QED BY <2>1 DEF Command
<1>4. r.offset = read_offset /\ r.length = n /\ r.zero = Head(extents).zero
  OBVIOUS
<1>. HIDE DEF r
<1>5. cmd \in [Commands -> Command]
  BY DEF TypeOK
<1>. QED BY <1>1, <1>2, <1>3, <1>4, <1>5

\* The commands of the read queue stay in the order of the image.
LEMMA NextImage == IInv /\ [Next]_vars => ImageInOrder'
<1>. SUFFICES ASSUME IInv, [Next]_vars, Working'
              PROVE  /\ \A i \in DOMAIN read_queue' :
                           cmd'[read_queue'[i]].offset + cmd'[read_queue'[i]].length
                             = EndOf(i)'
                     /\ hashed' = IF read_queue' = <<>> THEN read_offset'
                                  ELSE cmd'[read_queue'[1]].offset
  BY DEF ImageInOrder, Working, EndOf
<1>. USE DEF IInv
<1>. DEFINE q == read_queue
<1>0. /\ \A i \in DOMAIN q : cmd[q[i]].offset + cmd[q[i]].length = EndOf(i)
      /\ hashed = IF q = <<>> THEN read_offset ELSE cmd[q[1]].offset
  BY WorkingBefore, ImageInOrderIs
<1>n. PICK n \in Nat : n = Len(q)
  BY DEF TypeOK
<1>q. /\ q \in Seq(Commands) /\ DOMAIN q = 1..n /\ \A i \in 1..n : q[i] \in Commands
      /\ q = <<>> <=> n = 0
  BY <1>n DEF TypeOK
<1>1. CASE ReadMore
  <2>. DEFINE c == hash_queue[FirstUsable]
              t == Take(Head(extents))
  <2>1. /\ c \in Commands /\ ~Holds(q, c) /\ read_queue' = Append(q, c)
    BY <1>1, TakeMoves DEF ReadMore
  <2>2. /\ \A d \in Commands \ {c} : cmd'[d] = cmd[d]
        /\ cmd'[c].offset = read_offset /\ cmd'[c].length = t
        /\ read_offset' = read_offset + t /\ hashed' = hashed
    BY <1>1, ReadMoves DEF ReadMore
  <2>. HIDE DEF c, t
  <2>3. /\ DOMAIN read_queue' = 1..(n + 1) /\ Len(read_queue') = n + 1
        /\ \A i \in 1..n : read_queue'[i] = q[i] /\ q[i] # c
        /\ read_queue'[n + 1] = c /\ read_queue' # <<>>
    BY <1>n, <1>q, <2>1 DEF Holds
  <2>4. \A i \in 1..n : cmd'[read_queue'[i]] = cmd[q[i]]
    BY <1>q, <2>2, <2>3
  <2>5. ASSUME NEW i \in 1..(n + 1)
        PROVE  cmd'[read_queue'[i]].offset + cmd'[read_queue'[i]].length = EndOf(i)'
    <3>1. CASE i = n + 1
      BY <2>2, <2>3, <3>1 DEF EndOf
    <3>2. CASE i = n /\ n > 0
      BY <1>0, <1>n, <1>q, <2>2, <2>3, <2>4, <3>2 DEF EndOf
    <3>3. CASE i \in 1..(n - 1)
      <4>1. i \in 1..n /\ i + 1 \in 1..n /\ i # n /\ i # n + 1
        BY <3>3
      <4>2. EndOf(i)' = cmd[q[i + 1]].offset /\ EndOf(i) = cmd[q[i + 1]].offset
        BY <1>n, <2>3, <2>4, <4>1 DEF EndOf
      <4>. QED BY <1>0, <1>q, <2>4, <4>1, <4>2
    <3>. QED BY <3>1, <3>2, <3>3
  <2>6. hashed' = cmd'[read_queue'[1]].offset
    <3>1. CASE n = 0
      BY <1>0, <1>q, <2>2, <2>3, <3>1
    <3>2. CASE n > 0
      BY <1>0, <1>q, <2>2, <2>3, <2>4, <3>2
    <3>. QED BY <3>1, <3>2
  <2>. QED BY <2>3, <2>5, <2>6
<1>2. CASE ReadFails \/ FileSpins \/ HashRefused \/ HashCallFails
  BY <1>2 DEF ReadFails, FileSpins, HashRefused, HashCallFails, HashFails,
              WorkerFails, Working
<1>3. CASE HashMore
  <2>1. /\ HashNext = 1 /\ 1 \in DOMAIN q /\ q[1] \in Commands
    BY <1>3, HashableCommand DEF HashMore
  <2>2. /\ read_queue' = Without(q, 1) /\ read_offset' = read_offset
        /\ hashed' = hashed + cmd[q[1]].length
    BY <1>3, <2>1 DEF HashMore
  <2>3. \A d \in Commands : /\ cmd'[d].offset = cmd[d].offset
                            /\ cmd'[d].length = cmd[d].length
    BY <1>3, <2>1, StartedMoves DEF HashMore
  <2>4. PICK m \in Nat : n = m + 1
    BY <1>q, <2>1
  <2>5. /\ read_queue' \in Seq(Commands) /\ Len(read_queue') = m
        /\ \A j \in 1..m : read_queue'[j] = q[j + 1]
    <3>1. /\ read_queue' \in Seq(Commands) /\ Len(read_queue') = n - 1
          /\ \A j \in 1..(n - 1) : read_queue'[j] = IF j < 1 THEN q[j] ELSE q[j + 1]
      BY <1>n, <1>q, <2>1, <2>2, WithoutOne
    <3>2. n - 1 = m /\ \A j \in 1..m : ~(j < 1)
      BY <2>4
    <3>. QED BY <3>1, <3>2
  <2>6. DOMAIN read_queue' = 1..m /\ (read_queue' = <<>> <=> m = 0)
    BY <2>5
  <2>7. ASSUME NEW i \in 1..m
        PROVE  cmd'[read_queue'[i]].offset + cmd'[read_queue'[i]].length = EndOf(i)'
    <3>1. i + 1 \in 1..n /\ q[i + 1] \in Commands
      BY <1>q, <2>4
    <3>2. cmd[q[i + 1]].offset + cmd[q[i + 1]].length = EndOf(i + 1)
      BY <1>0, <1>q, <3>1
    <3>3. EndOf(i)' = EndOf(i + 1)
      <4>1. CASE i = m
        BY <1>n, <2>2, <2>4, <2>5, <4>1 DEF EndOf
      <4>2. CASE i # m
        <5>1. i + 1 \in 1..m /\ (i + 1) + 1 \in 1..n /\ i + 1 # n
          BY <2>4, <4>2
        <5>2. read_queue'[i + 1] = q[(i + 1) + 1] /\ q[(i + 1) + 1] \in Commands
          BY <1>q, <2>5, <5>1
        <5>3. EndOf(i)' = cmd'[read_queue'[i + 1]].offset
          BY <2>5, <4>2 DEF EndOf
        <5>4. EndOf(i + 1) = cmd[q[(i + 1) + 1]].offset
          BY <1>n, <5>1 DEF EndOf
        <5>. QED BY <2>3, <5>2, <5>3, <5>4
      <4>. QED BY <4>1, <4>2
    <3>. QED BY <2>3, <2>5, <3>1, <3>2, <3>3
  <2>8. hashed' = IF m = 0 THEN read_offset' ELSE cmd'[read_queue'[1]].offset
    <3>1. hashed' = EndOf(1)
      BY <1>0, <1>q, <2>1, <2>2
    <3>2. CASE m = 0
      BY <1>n, <2>2, <2>4, <3>1, <3>2 DEF EndOf
    <3>3. CASE m # 0
      <4>1. 1 \in 1..m /\ 1 + 1 \in 1..n /\ 1 # n
        BY <2>4, <3>3
      <4>2. EndOf(1) = cmd[q[1 + 1]].offset
        BY <1>n, <4>1 DEF EndOf
      <4>3. read_queue'[1] = q[1 + 1] /\ q[1 + 1] \in Commands
        BY <1>q, <2>5, <4>1
      <4>. QED BY <2>3, <3>1, <3>3, <4>2, <4>3
    <3>. QED BY <3>2, <3>3
  <2>. QED BY <2>6, <2>7, <2>8
<1>4. CASE FetchExtents \/ Notify \/ CompleteUpdates
  <2>1. UNCHANGED <<read_queue, read_offset, hashed>>
    BY <1>4 DEF FetchExtents, Notify, CompleteUpdates
  <2>2. \E S \in SUBSET Commands : MarkCompleted(S)
    <3>1. CASE FetchExtents \/ Notify
      BY <3>1 DEF FetchExtents, Notify, WorkerFails, Working, Reading
    <3>2. CASE CompleteUpdates
      BY Zenon, <3>2, CompleteMoves, FirstReportedCount
    <3>. QED BY <1>4, <3>1, <3>2
  <2>3. \A d \in Commands : /\ cmd'[d].offset = cmd[d].offset
                            /\ cmd'[d].length = cmd[d].length
    BY <2>2, MarkMoves
  <2>4. ASSUME NEW i \in 1..n PROVE EndOf(i)' = EndOf(i)
    <3>1. i # n => i + 1 \in 1..n
      OBVIOUS
    <3>. QED BY <1>n, <1>q, <2>1, <2>3, <3>1 DEF EndOf
  <2>. QED BY <1>0, <1>q, <2>1, <2>3, <2>4
<1>5. CASE FreeHash \/ FreeCommands
  BY <1>5, WorkingBefore DEF FreeHash, FreeCommands, EndsInOrder, Working
<1>6. CASE UNCHANGED <<cmd, read_queue, read_offset, hashed>>
  BY <1>0, <1>6 DEF EndOf
<1>7. \/ ReadMore \/ ReadFails \/ FileSpins \/ HashMore \/ HashRefused
      \/ HashCallFails \/ FreeCommands \/ FreeHash \/ CompleteUpdates
      \/ FetchExtents \/ Notify \/ UNCHANGED <<cmd, read_queue, read_offset, hashed>>
  BY Zenon DEF Next, Worker, Progress, HashThreads, Main, OpenSrc, ReadDone, UpdateDone,
         HashDone, Poll, PollFails, Drain, CompletionsFail, Check, Final,
         SignalEvent, UpdateFails, Signal, JoinWorker, Decide, Idle, appVars,
         queues, counters, vars
<1>. QED BY <1>1, <1>2, <1>3, <1>4, <1>5, <1>6, <1>7

\* The bytes of the updates that are left when the first n were reaped.
BytesLeft(n) ==
    [c \in Commands |-> IF c \in Outstanding \ FirstReported(n) THEN cmd[c].length
                        ELSE 0]

\* The bytes of a completion.
ReportedBytes == [i \in 1..Len(cq) |-> cmd[cq[i].user_data].length]

\* These are natural numbers.
LEMMA BytesType ==
    ASSUME IInv
    PROVE  /\ Commands = 1..QueueDepth /\ QueueDepth \in Nat
           /\ \A c \in Commands : cmd[c].length \in 0..ImageSize
                                  /\ cmd[c].length \in Nat
                                  /\ cmd[c].offset \in 0..ImageSize
           /\ \A c \in Commands : OutstandingBytes[c] \in Nat
           /\ \A n : \A c \in Commands : BytesLeft(n)[c] \in Nat
           /\ \A i \in 1..Len(cq) : ReportedBytes[i] \in Nat
           /\ Sum(OutstandingBytes, QueueDepth) \in Nat
<1>. USE DEF IInv
<1>1. Commands = 1..QueueDepth /\ QueueDepth \in Nat
  BY SizesAssumption DEF Commands
<1>2. \A c \in Commands : cmd[c].length \in 0..ImageSize /\ cmd[c].length \in Nat
                          /\ cmd[c].offset \in 0..ImageSize
  <2>1. \A c \in Commands : cmd[c] \in Command
    BY Zenon DEF TypeOK
  <2>2. \A x \in 0..ImageSize : x \in Nat
    BY SizesAssumption
  <2>3. \A r \in Command : r.length \in 0..ImageSize /\ r.offset \in 0..ImageSize
    BY DEF Command
  <2>. QED BY Zenon, <2>1, <2>2, <2>3
<1>3. \A c \in Commands : OutstandingBytes[c] \in Nat
  BY <1>2 DEF OutstandingBytes
<1>4. \A n : \A c \in Commands : BytesLeft(n)[c] \in Nat
  BY <1>2 DEF BytesLeft
<1>5. Len(cq) \in Nat /\ \A i \in 1..Len(cq) : cq[i].user_data \in Commands
  <2>1. Len(cq) \in Nat /\ 0 \in 0..Len(cq)
    BY DEF TypeOK
  <2>. QED BY <2>1, FirstReportedCount
<1>6. \A i \in 1..Len(cq) : ReportedBytes[i] \in Nat
  BY <1>2, <1>5 DEF ReportedBytes
<1>7. Sum(OutstandingBytes, QueueDepth) \in Nat
  <2>1. QueueDepth \in 0..QueueDepth
    BY <1>1
  <2>. QED BY Zenon, <1>1, <1>3, <2>1, SumStep
<1>. QED BY <1>1, <1>2, <1>3, <1>4, <1>6, <1>7

\* What is left, and what was reaped, is what there was.
LEMMA ReapedBytes ==
    ASSUME IInv
    PROVE  \A n \in 0..Len(cq) :
              /\ Sum(BytesLeft(n), QueueDepth) \in Nat
              /\ Sum(ReportedBytes, n) \in Nat
              /\ Sum(BytesLeft(n), QueueDepth) + Sum(ReportedBytes, n)
                   = Sum(OutstandingBytes, QueueDepth)
<1>. USE DEF IInv
<1>0. PICK l \in Nat : l = Len(cq)
  BY DEF TypeOK
<1>a. ASSUME NEW n \in 0..l
      PROVE  Sum(BytesLeft(n), QueueDepth) \in Nat /\ Sum(ReportedBytes, n) \in Nat
  <2>1. Sum(BytesLeft(n), QueueDepth) \in Nat
    <3>1. \A c \in 1..QueueDepth : BytesLeft(n)[c] \in Nat
      BY BytesType
    <3>2. QueueDepth \in Nat /\ QueueDepth \in 0..QueueDepth
      BY SizesAssumption
    <3>. QED BY <3>1, <3>2, SumStep
  <2>2. Sum(ReportedBytes, n) \in Nat
    BY Zenon, <1>0, BytesType, SumStep
  <2>. QED BY <2>1, <2>2
<1>. DEFINE S == {n \in Nat : n <= l =>
                    Sum(BytesLeft(n), QueueDepth) + Sum(ReportedBytes, n)
                      = Sum(OutstandingBytes, QueueDepth)}
<1>1. 0 \in S
  <2>1. FirstReported(0) = {}
    BY DEF FirstReported
  <2>2. BytesLeft(0) = OutstandingBytes
    BY <2>1 DEF BytesLeft, OutstandingBytes
  <2>3. Sum(ReportedBytes, 0) = 0
    BY Zenon, <1>0, BytesType, SumStep
  <2>. QED BY <2>2, <2>3, BytesType
<1>2. ASSUME NEW n \in Nat, n \in S PROVE n + 1 \in S
  <2>. SUFFICES ASSUME n + 1 <= l
                PROVE  Sum(BytesLeft(n + 1), QueueDepth) + Sum(ReportedBytes, n + 1)
                         = Sum(OutstandingBytes, QueueDepth)
    OBVIOUS
  <2>0. n + 1 \in 1..l /\ n \in 0..l /\ n + 1 \in 0..l /\ (n + 1) - 1 = n
    OBVIOUS
  <2>1. PICK c \in Commands : c = cq[n + 1].user_data
    BY <1>0, <2>0, FirstReportedCount
  <2>2. FirstReported(n + 1) = FirstReported(n) \cup {c}
    <3>1. 1..(n + 1) = 1..n \cup {n + 1}
      OBVIOUS
    <3>. QED BY <2>1, <3>1 DEF FirstReported
  <2>3. c \notin FirstReported(n) /\ c \in Outstanding
    <3>1. DOMAIN cq = 1..l
      BY <1>0 DEF TypeOK
    <3>2. \A i \in 1..n : i \in 1..l /\ i # n + 1
      BY <2>0
    <3>3. \A i \in 1..n : cq[i].user_data # c
      BY <2>0, <2>1, <3>1, <3>2 DEF UpdatesPlaced
    <3>. QED BY <2>0, <2>1, <3>1, <3>3 DEF FirstReported, Outstanding, Reported
  <2>4. BytesLeft(n)[c] = cmd[c].length /\ BytesLeft(n + 1)[c] = 0
    BY <2>2, <2>3 DEF BytesLeft
  <2>5. \A d \in Commands \ {c} : BytesLeft(n + 1)[d] = BytesLeft(n)[d]
    BY <2>2 DEF BytesLeft
  <2>6. Sum(BytesLeft(n + 1), QueueDepth) + BytesLeft(n)[c]
          = Sum(BytesLeft(n), QueueDepth) + BytesLeft(n + 1)[c]
    <3>1. c \in 1..QueueDepth /\ QueueDepth \in Nat
      BY BytesType
    <3>2. \A d \in 1..QueueDepth : /\ BytesLeft(n)[d] \in Nat
                                   /\ BytesLeft(n + 1)[d] \in Nat
      BY BytesType
    <3>3. \A d \in 1..QueueDepth \ {c} : BytesLeft(n + 1)[d] = BytesLeft(n)[d]
      BY <2>5, BytesType
    <3>. QED BY <3>1, <3>2, <3>3, SumChange
  <2>7. Sum(ReportedBytes, n + 1) = Sum(ReportedBytes, n) + ReportedBytes[n + 1]
    BY Zenon, <1>0, <2>0, BytesType, SumStep
  <2>8. ReportedBytes[n + 1] = cmd[c].length /\ cmd[c].length \in Nat
    BY <1>0, <2>0, <2>1, BytesType DEF ReportedBytes
  <2>9. PICK x \in Nat, x1 \in Nat, y \in Nat, y1 \in Nat, k \in Nat :
          /\ x = Sum(BytesLeft(n), QueueDepth) /\ y = Sum(ReportedBytes, n)
          /\ x1 = Sum(BytesLeft(n + 1), QueueDepth) /\ y1 = Sum(ReportedBytes, n + 1)
          /\ k = cmd[c].length
    <3>1. /\ Sum(BytesLeft(n), QueueDepth) \in Nat /\ Sum(ReportedBytes, n) \in Nat
          /\ Sum(BytesLeft(n + 1), QueueDepth) \in Nat
          /\ Sum(ReportedBytes, n + 1) \in Nat
      BY <1>a, <2>0
    <3>. QED BY <2>8, <3>1, Zenon
  <2>10. x1 + k = x + 0 /\ y1 = y + k
    BY <2>4, <2>6, <2>7, <2>8, <2>9
  <2>11. x + y = Sum(OutstandingBytes, QueueDepth)
    BY <1>2, <2>0, <2>9
  <2>12. x1 + y1 = x + y
    BY <2>10
  <2>. QED BY <2>9, <2>11, <2>12
<1>. HIDE DEF S
<1>3. \A n \in Nat : n \in S
  BY <1>1, <1>2, SetInduction
<1>4. ASSUME NEW n \in 0..l
      PROVE  Sum(BytesLeft(n), QueueDepth) + Sum(ReportedBytes, n)
               = Sum(OutstandingBytes, QueueDepth)
  BY <1>3 DEF S
<1>. QED BY <1>0, <1>a, <1>4

\* What complete_updates() adds to w->bytes_hashed.
LEMMA ReapedTotal ==
    ASSUME IInv, NEW n \in 0..Len(cq)
    PROVE  Total([i \in 1..n |-> cmd[cq[i].user_data]]) = Sum(ReportedBytes, n)
<1>. DEFINE seq == [i \in 1..n |-> cmd[cq[i].user_data]]
<1>0. Len(cq) \in Nat /\ n \in Nat /\ \A i \in 1..n : i \in 1..Len(cq)
  BY DEF IInv, TypeOK
<1>1. Len(seq) = n
  BY <1>0
<1>2. \A i \in 1..n : seq[i].length \in Nat /\ ReportedBytes[i] = seq[i].length
  <2>1. \A i \in 1..n : cq[i].user_data \in Commands
    BY <1>0, FirstReportedCount
  <2>. QED BY <1>0, <2>1, BytesType DEF ReportedBytes
<1>. HIDE DEF seq
<1>3. Total(seq) = Sum(ReportedBytes, n)
  BY <1>0, <1>1, <1>2, TotalIsSum
<1>. QED BY <1>3 DEF seq

\* w->bytes_hashed stays what the hash reported.
LEMMA NextBytes == IInv /\ [Next]_vars => BytesCounted'
<1>. SUFFICES ASSUME IInv, [Next]_vars PROVE BytesCounted'
  OBVIOUS
<1>. USE DEF IInv
<1>b. ASSUME bytes_hashed' + Sum(OutstandingBytes', QueueDepth) = hashed' \/ pc' = "exited",
             pc' # "final"
      PROVE  BytesCounted'
  <2>1. Sum(OutstandingBytes, QueueDepth)' = Sum(OutstandingBytes', QueueDepth)
    BY DEF Sum, PartialSums
  <2>. QED BY <1>b, <2>1 DEF BytesCounted
<1>1. CASE ReadMore \/ FileSpins
  <2>. DEFINE c == hash_queue[FirstUsable]
  <2>1. /\ CanRead /\ TakeCommand /\ pc = "read" /\ pc' \in {"read", "spin"}
        /\ UNCHANGED <<cq, updating, hashed, bytes_hashed>>
    BY <1>1 DEF ReadMore, FileSpins, hashVars
  <2>2. c \notin Outstanding
    BY Zenon, <2>1, TakeMoves
  <2>3. \A d \in Commands \ {c} : cmd'[d] = cmd[d]
    BY <1>1 DEF ReadMore, FileSpins, TypeOK
  <2>4. Outstanding' = Outstanding
    BY <2>1 DEF Outstanding, Reported
  <2>5. OutstandingBytes' = OutstandingBytes
    BY <2>2, <2>3, <2>4 DEF OutstandingBytes
  <2>. QED BY <1>b, <2>1, <2>5 DEF BytesCounted
<1>2. CASE ReadFails \/ HashRefused \/ HashCallFails
  BY Zenon, <1>2, <1>b DEF ReadFails, HashRefused, HashCallFails, HashFails, WorkerFails
<1>3. CASE HashMore
  <2>. DEFINE c == read_queue[HashNext]
  <2>1. /\ c \in Commands /\ c \notin Outstanding
    BY Zenon, <1>3, HashMoves DEF HashMore
  <2>2. hashed' = hashed + cmd[c].length /\ pc = "hash" /\ pc' = "hash"
    BY <1>3 DEF HashMore
  <2>3. PICK s \in Nat, k \in Nat, b \in Nat :
          /\ s = Sum(OutstandingBytes, QueueDepth) /\ k = cmd[c].length
          /\ b = bytes_hashed
    <3>1. Sum(OutstandingBytes, QueueDepth) \in Nat /\ cmd[c].length \in Nat
      BY <2>1, BytesType
    <3>2. bytes_hashed \in Nat
      BY SizesAssumption DEF TypeOK
    <3>. QED BY <3>1, <3>2, Zenon
  <2>4. hashed' = (b + s) + k
    BY <2>2, <2>3 DEF BytesCounted
  <2>5. CASE bytes_hashed' = bytes_hashed + cmd[c].length /\ UNCHANGED <<cmd, hashVars>>
    <3>1. OutstandingBytes' = OutstandingBytes
      BY <2>5 DEF OutstandingBytes, Outstanding, Reported, hashVars
    <3>2. bytes_hashed' + s = (b + k) + s
      BY <2>3, <2>5
    <3>3. (b + k) + s = (b + s) + k
      OBVIOUS
    <3>. QED BY Zenon, <1>b, <2>2, <2>3, <2>4, <3>1, <3>2, <3>3
  <2>6. CASE cmd' = Started(c) /\ Hash!Start(c) /\ UNCHANGED bytes_hashed
    <3>1. updating' = updating \cup {c} /\ cq' = cq
      BY <2>6 DEF Hash!Start
    <3>2. Outstanding' = Outstanding \cup {c}
      BY <2>1, <3>1 DEF Outstanding, Reported
    <3>3. \A d \in Commands : cmd'[d].length = cmd[d].length
      BY <2>1, <2>6, StartedMoves
    <3>4. /\ \A d \in Commands \ {c} : OutstandingBytes'[d] = OutstandingBytes[d]
          /\ OutstandingBytes[c] = 0 /\ OutstandingBytes'[c] = k
      BY Zenon, <2>1, <2>3, <3>2, <3>3 DEF OutstandingBytes
    <3>5. \A d \in Commands : OutstandingBytes'[d] \in Nat
      BY <3>4, BytesType
    <3>6. Sum(OutstandingBytes', QueueDepth) + 0 = s + k
      <4>1. c \in 1..QueueDepth /\ QueueDepth \in Nat
        BY <2>1, BytesType
      <4>2. \A d \in 1..QueueDepth : /\ OutstandingBytes[d] \in Nat
                                     /\ OutstandingBytes'[d] \in Nat
        BY <3>5, BytesType
      <4>3. \A d \in 1..QueueDepth \ {c} : OutstandingBytes'[d] = OutstandingBytes[d]
        BY <3>4, BytesType
      <4>4. Sum(OutstandingBytes', QueueDepth) + OutstandingBytes[c]
              = Sum(OutstandingBytes, QueueDepth) + OutstandingBytes'[c]
        BY <4>1, <4>2, <4>3, SumChange
      <4>. QED BY <2>3, <3>4, <4>4
    <3>7. Sum(OutstandingBytes', QueueDepth) \in Nat
      <4>1. QueueDepth \in Nat /\ QueueDepth \in 0..QueueDepth
        BY SizesAssumption
      <4>2. \A d \in 1..QueueDepth : OutstandingBytes'[d] \in Nat
        BY <3>5, BytesType
      <4>. QED BY <4>1, <4>2, SumStep
    <3>8. Sum(OutstandingBytes', QueueDepth) = s + k
      BY <3>6, <3>7
    <3>9. b + (s + k) = (b + s) + k
      OBVIOUS
    <3>. QED BY Zenon, <1>b, <2>2, <2>3, <2>4, <2>6, <3>8, <3>9
  <2>. QED BY Zenon, <1>3, <2>5, <2>6 DEF HashMore
<1>4. CASE FetchExtents \/ Notify
  <2>1. /\ UNCHANGED <<cq, updating, hashed, bytes_hashed>>
        /\ pc # "exited" /\ pc' # "final"
    BY <1>4 DEF FetchExtents, Notify, hashVars, WorkerFails, AfterNotify
  <2>2. CASE \E done \in SUBSET Reading : MarkCompleted(done)
    <3>1. \A d \in Commands : cmd'[d].length = cmd[d].length
      BY <2>2, MarkMoves DEF Reading
    <3>2. OutstandingBytes' = OutstandingBytes
      BY <2>1, <3>1 DEF OutstandingBytes, Outstanding, Reported
    <3>. QED BY <1>b, <2>1, <3>2 DEF BytesCounted
  <2>3. CASE pc' = "exited"
    BY <1>b, <2>3
  <2>. QED BY <1>4, <2>2, <2>3 DEF FetchExtents, Notify, WorkerFails
<1>5. CASE CompleteUpdates
  <2>1. /\ pc = "reap" /\ pc' \in {"check", "exited"} /\ hashed' = hashed
    BY <1>5 DEF CompleteUpdates, WorkerFails
  <2>2. CASE pc' = "exited"
    BY <1>b, <2>2
  <2>3. CASE pc' # "exited"
    <3>1. PICK n \in 0..Len(cq) :
            /\ n = Len(cq) /\ MarkCompleted(FirstReported(n))
            /\ bytes_hashed' = bytes_hashed
                                 + Total([i \in 1..n |-> cmd[cq[i].user_data]])
      BY Zenon, <1>5, <2>1, <2>3, CompleteMoves DEF Working
    <3>2. cq' = <<>> /\ updating' = updating
      BY <1>5, ReapsAll
    <3>3. Outstanding' = Outstanding \ FirstReported(n)
      <4>1. \A c : Reported(c) <=> c \in FirstReported(n)
        <5>1. DOMAIN cq = 1..n
          BY <3>1 DEF TypeOK
        <5>. QED BY <5>1 DEF Reported, FirstReported
      <4>2. \A c : ~Reported(c)'
        BY <3>2 DEF Reported
      <4>. QED BY <3>2, <4>1, <4>2 DEF Outstanding, UpdatesPlaced
    <3>4. \A d \in Commands : cmd'[d].length = cmd[d].length
      BY <3>1, FirstReportedCount, MarkMoves
    <3>5. OutstandingBytes' = BytesLeft(n)
      BY <3>3, <3>4 DEF OutstandingBytes, BytesLeft
    <3>6. bytes_hashed' = bytes_hashed + Sum(ReportedBytes, n)
      BY <3>1, ReapedTotal
    <3>7. PICK x \in Nat, y \in Nat, b \in Nat :
            /\ x = Sum(BytesLeft(n), QueueDepth) /\ y = Sum(ReportedBytes, n)
            /\ b = bytes_hashed
      <4>1. Sum(BytesLeft(n), QueueDepth) \in Nat /\ Sum(ReportedBytes, n) \in Nat
        BY ReapedBytes
      <4>2. bytes_hashed \in Nat
        BY SizesAssumption DEF TypeOK
      <4>. QED BY <4>1, <4>2, Zenon
    <3>8. hashed = b + (x + y)
      BY <2>1, <3>7, ReapedBytes DEF BytesCounted
    <3>9. (b + y) + x = b + (x + y)
      OBVIOUS
    <3>. QED BY Zenon, <1>b, <2>1, <3>5, <3>6, <3>7, <3>8, <3>9
  <2>. QED BY <2>2, <2>3
<1>6. ASSUME NEW c \in Commands, UpdateDone(c) PROVE BytesCounted'
  <2>1. UNCHANGED <<cmd, bytes_hashed, hashed, pc, terminated, failed>>
    BY Zenon, <1>6, DoneMoves DEF appVars, queues, counters, mainVars
  <2>2. Outstanding' = Outstanding
    BY Zenon, <1>6, DoneMoves DEF Outstanding
  <2>3. OutstandingBytes' = OutstandingBytes
    BY <2>1, <2>2 DEF OutstandingBytes
  <2>. QED BY <2>1, <2>3 DEF BytesCounted, running
<1>7. CASE FreeHash
  <2>1. pc = "exited" /\ pc' = pc
    BY <1>7 DEF FreeHash, EndsInOrder
  <2>. QED BY <2>1 DEF BytesCounted
<1>8. CASE OpenSrc \/ Check
  <2>1. UNCHANGED <<cq, updating, cmd, hashed, bytes_hashed>>
    BY <1>8 DEF OpenSrc, Check, queues, counters, hashVars
  <2>2. pc \in {"open", "check"}
    BY <1>8 DEF OpenSrc, Check
  <2>3. OutstandingBytes' = OutstandingBytes
    BY <2>1 DEF OutstandingBytes, Outstanding, Reported
  <2>4. pc' = "final" => ~running' \/ bytes_hashed >= ImageSize
    BY <1>8 DEF OpenSrc, OpenFails, WorkerFails, Check, LoopTop, running, mainVars
  <2>5. bytes_hashed >= ImageSize => bytes_hashed = ImageSize
    BY SizesAssumption DEF TypeOK
  <2>. QED BY <2>1, <2>2, <2>3, <2>4, <2>5 DEF BytesCounted
<1>9. CASE /\ UNCHANGED <<cq, updating, cmd, hashed, bytes_hashed>>
           /\ pc' = pc \/ (pc' # "final" /\ pc # "exited")
           /\ running' => running
  <2>1. OutstandingBytes' = OutstandingBytes
    BY <1>9 DEF OutstandingBytes, Outstanding, Reported
  <2>. QED BY <1>9, <2>1 DEF BytesCounted
<1>10. \/ ReadMore \/ ReadFails \/ FileSpins \/ HashMore \/ HashRefused
       \/ HashCallFails \/ FreeHash \/ CompleteUpdates \/ OpenSrc \/ Check
       \/ FetchExtents \/ Notify \/ (\E c \in Commands : UpdateDone(c))
       \/ /\ UNCHANGED <<cq, updating, cmd, hashed, bytes_hashed>>
          /\ pc' = pc \/ (pc' # "final" /\ pc # "exited")
          /\ running' => running
  BY Zenon DEF Next, Worker, Progress, HashThreads, Main, ReadDone, HashDone, AfterHash,
         Poll, PollFails, Drain, CompletionsFail, Final, SignalEvent, UpdateFails,
         Signal, JoinWorker, FreeCommands, Decide, Idle, appVars, queues, counters,
         vars, hashVars, mainVars, Hash!Read, Hash!Signal, Hash!UpdateFails,
         WorkerFails, running
<1>. QED BY Zenon, <1>1, <1>2, <1>3, <1>4, <1>5, <1>6, <1>7, <1>8, <1>9, <1>10

\* The extents of src_extents() fit the rest of the image.
LEMMA FetchedExtents ==
    ASSUME IInv, FetchExtents
    PROVE  extents' \in Seq(Extent) /\ Total(extents') <= ImageSize - read_offset
<1>1. read_offset \in Nat /\ read_offset < ImageSize /\ ImageSize \in Nat
  <2>1. read_offset < ImageSize
    BY DEF FetchExtents, CanRead
  <2>2. read_offset \in 0..ImageSize
    BY DEF IInv, TypeOK
  <2>. QED BY <2>1, <2>2, SizesAssumption
<1>2. CASE extents' = Fallback
  <2>. DEFINE e == [length |-> MinOf(ExtentsSize, ImageSize - read_offset),
                    zero |-> FALSE]
  <2>1. e \in Extent /\ e.length \in Nat /\ e.length <= ImageSize - read_offset
    BY <1>1, SizesAssumption DEF Extent, MinOf
  <2>2. extents' = <<e>>
    BY <1>2 DEF Fallback
  <2>. HIDE DEF e
  <2>3. <<e>> \in Seq(Extent) /\ <<e>> # <<>> /\ Head(<<e>>) = e
        /\ Tail(<<e>>) = <<>>
    BY <2>1
  <2>4. Total(<<>>) = 0
    <3>. DEFINE f == [i \in 1..0 |-> 0]
    <3>1. Total(<<>>) = Sum(f, 0)
      <4>1. Len(<<>>) = 0 /\ \A i \in 1..0 : FALSE
        OBVIOUS
      <4>. HIDE DEF f
      <4>. QED BY <4>1, TotalIsSum
    <3>2. Sum(f, 0) = 0
      <4>1. \A i \in 1..0 : f[i] \in Nat
        OBVIOUS
      <4>. QED BY <4>1, SumStep
    <3>. QED BY <3>1, <3>2
  <2>5. Total(<<e>>) = e.length + 0
    BY Zenon, <2>3, <2>4, TotalOfExtents
  <2>. QED BY <2>1, <2>2, <2>3, <2>5
<1>3. CASE extents' \in Answers
  <2>1. Total(extents') <= ImageSize - read_offset
    BY <1>3 DEF Answers
  <2>2. PICK n \in 1..MaxExtents : extents' \in [1..n -> Extent]
    BY <1>3 DEF Answers, Extent
  <2>3. n \in Nat
    BY SizesAssumption
  <2>. QED BY <2>1, <2>2, <2>3
<1>. QED BY <1>2, <1>3 DEF FetchExtents

\* Every read still gets some bytes of the image.
LEMMA NextReadsFit == IInv /\ [Next]_vars => ReadsFit'
<1>. SUFFICES ASSUME IInv, [Next]_vars PROVE ReadsFit'
  OBVIOUS
<1>. USE DEF IInv
<1>h. (\A i \in DOMAIN read_queue : cmd[read_queue[i]].length > 0)
        <=> \A c : Holds(read_queue, c) => cmd[c].length > 0
  BY DEF Holds
<1>p. (\A i \in DOMAIN read_queue' : cmd'[read_queue'[i]].length > 0)
        <=> \A c : Holds(read_queue, c)' => cmd'[c].length > 0
  BY DEF Holds
<1>t. Total(extents)' = Total(extents')
  BY DEF Total
<1>c. \A c : Holds(read_queue, c) => c \in Commands
  BY DEF Holds, TypeOK
<1>1. CASE ReadMore
  <2>. DEFINE c == hash_queue[FirstUsable]
              n == Take(Head(extents))
  <2>1. /\ c \in Commands
        /\ \A d : Holds(read_queue, d)' <=> Holds(read_queue, d) \/ d = c
    BY Zenon, <1>1, TakeMoves DEF ReadMore
  <2>2. /\ \A d \in Commands \ {c} : cmd'[d] = cmd[d]
        /\ cmd'[c].length = n /\ extents' = Consumed(n)
        /\ read_offset' = read_offset + n
    BY <1>1, ReadMoves
  <2>3. /\ extents \in Seq(Extent) /\ extents # <<>>
        /\ n \in 1..Head(extents).length /\ n \in Nat /\ n > 0 /\ read_offset \in Nat
    BY Zenon, <1>1, TakeSome DEF ReadMore
  <2>. HIDE DEF c, n
  <2>4. \A d : Holds(read_queue, d)' => cmd'[d].length > 0
    BY Zenon, <1>1, <1>h, <1>c, <2>1, <2>2, <2>3 DEF ReadsFit, Working, ReadMore
  <2>5. Total(Consumed(n)) = Total(extents) - n /\ Total(extents) \in Nat
    BY <2>3, ConsumedTotal, TotalOfExtents
  <2>6. Total(extents) <= ImageSize - read_offset
    BY DEF ReadsFit
  <2>7. Total(extents') <= ImageSize - read_offset'
    BY <2>2, <2>3, <2>5, <2>6, SizesAssumption
  <2>. QED BY Zenon, <1>p, <1>t, <2>4, <2>7 DEF ReadsFit
<1>2. CASE ReadFails \/ FileSpins \/ HashRefused \/ HashCallFails
  <2>1. ~Working' /\ UNCHANGED <<extents, read_offset>>
    BY Zenon, <1>2 DEF ReadFails, FileSpins, HashRefused, HashCallFails, HashFails,
                WorkerFails, Working, counters
  <2>. QED BY Zenon, <1>t, <2>1 DEF ReadsFit
<1>3. CASE HashMore
  <2>. DEFINE c == read_queue[HashNext]
  <2>1. /\ c \in Commands
        /\ \A d : Holds(read_queue, d)' <=> Holds(read_queue, d) /\ d # c
    BY Zenon, <1>3, HashMoves DEF HashMore
  <2>2. \A d \in Commands : cmd'[d].length = cmd[d].length
    BY <1>3, <2>1, StartedMoves DEF HashMore
  <2>3. UNCHANGED <<extents, read_offset, pc>>
    BY <1>3 DEF HashMore
  <2>. HIDE DEF c
  <2>. QED BY Zenon, <1>h, <1>p, <1>c, <1>t, <2>1, <2>2, <2>3 DEF ReadsFit, Working
<1>4. CASE FetchExtents \/ Notify \/ CompleteUpdates
  <2>1. UNCHANGED <<read_queue, read_offset>>
    BY <1>4 DEF FetchExtents, Notify, CompleteUpdates
  <2>2. \A d : Holds(read_queue, d)' <=> Holds(read_queue, d)
    BY <2>1 DEF Holds
  <2>3. \A d \in Commands : cmd'[d].length = cmd[d].length
    <3>1. \/ \E S \in SUBSET Commands : MarkCompleted(S)
          \/ cmd' = cmd
      <4>1. CASE FetchExtents \/ Notify
        BY Zenon, <4>1 DEF FetchExtents, Notify, Reading
      <4>2. CASE CompleteUpdates
        BY Zenon, <4>2, CompleteMoves, FirstReportedCount
      <4>. QED BY <1>4, <4>1, <4>2
    <3>. QED BY <3>1, MarkMoves
  <2>4. Working
    BY Zenon, <1>4 DEF FetchExtents, Notify, CompleteUpdates, Working
  <2>5. Total(extents') <= ImageSize - read_offset'
    <3>1. CASE FetchExtents
      BY Zenon, <2>1, <3>1, FetchedExtents
    <3>2. CASE Notify \/ CompleteUpdates
      BY <2>1, <3>2 DEF Notify, CompleteUpdates, ReadsFit
    <3>. QED BY <1>4, <3>1, <3>2
  <2>. QED BY Zenon, <1>h, <1>p, <1>c, <1>t, <2>2, <2>3, <2>4, <2>5 DEF ReadsFit
<1>5. CASE FreeCommands
  BY <1>5 DEF FreeCommands, ReadsFit, counters, Total
<1>6. CASE UNCHANGED <<cmd, read_queue, extents, read_offset>>
  BY <1>6, <1>t, WorkingBefore DEF ReadsFit
<1>7. \/ ReadMore \/ ReadFails \/ FileSpins \/ HashMore \/ HashRefused
      \/ HashCallFails \/ FreeCommands \/ CompleteUpdates
      \/ FetchExtents \/ Notify
      \/ UNCHANGED <<cmd, read_queue, extents, read_offset>>
  BY Zenon DEF Next, Worker, Progress, HashThreads, Main, OpenSrc, ReadDone, UpdateDone,
         HashDone, Poll, PollFails, Drain, CompletionsFail, Check, Final,
         SignalEvent, UpdateFails, Signal, JoinWorker, FreeHash, Decide, Idle,
         appVars, queues, counters, vars
<1>. QED BY Zenon, <1>1, <1>2, <1>3, <1>4, <1>5, <1>6, <1>7

\* A failure of the hash stays pending until the worker fails.
LEMMA NextFailurePending == IInv /\ [Next]_vars => FailurePending'
<1>. SUFFICES ASSUME IInv, [Next]_vars, pc' # "exited", herror'
              PROVE  bad' # {} \/ \E i \in DOMAIN cq' : cq'[i].error
  BY DEF FailurePending
<1>. USE DEF IInv
<1>1. ASSUME NEW c \in Commands, UpdateDone(c)
      PROVE  bad' # {} \/ \E i \in DOMAIN cq' : cq'[i].error
  <2>1. herror /\ pc # "exited"
    BY Zenon, <1>1, DoneMoves DEF appVars
  <2>0. PICK n \in Nat : n = Len(cq) /\ DOMAIN cq = 1..n /\ DOMAIN cq' = 1..(n + 1)
                        /\ (\A i \in DOMAIN cq : cq'[i] = cq[i])
                        /\ cq'[n + 1].error = (c \in bad)
    BY <1>1, DoneMoves, Zenon
  <2>2. CASE \E i \in DOMAIN cq : cq[i].error
    <3>1. PICK i \in DOMAIN cq : cq[i].error
      BY <2>2
    <3>2. i \in DOMAIN cq' /\ cq'[i] = cq[i]
      BY <2>0
    <3>. QED BY <3>1, <3>2
  <2>3. CASE c \in bad
    <3>1. n + 1 \in DOMAIN cq'
      BY <2>0
    <3>. QED BY Zenon, <2>0, <2>3, <3>1
  <2>4. CASE c \notin bad /\ bad # {}
    BY Zenon, <1>1, <2>4, DoneMoves
  <2>. QED BY <2>1, <2>2, <2>3, <2>4 DEF FailurePending
<1>2. ASSUME NEW c \in Commands, UpdateFails(c) PROVE bad' # {}
  BY <1>2 DEF UpdateFails, Hash!UpdateFails
<1>3. CASE CompleteUpdates
  BY Zenon, <1>3, ReapsAll
<1>4. CASE HashCallFails
  BY Zenon, <1>4 DEF HashCallFails, HashFails, WorkerFails
<1>5. CASE FreeHash
  BY <1>5 DEF FreeHash, EndsInOrder
<1>6. CASE UNCHANGED <<bad, cq, herror>> /\ pc # "exited"
  BY <1>6 DEF FailurePending
<1>7. \/ HashCallFails \/ FreeHash \/ CompleteUpdates
      \/ (\E c \in Commands : UpdateDone(c) \/ UpdateFails(c))
      \/ UNCHANGED <<bad, cq, herror>> /\ pc # "exited"
  BY Zenon DEF Next, Worker, Progress, HashThreads, Main, OpenSrc, FetchExtents, ReadMore,
         ReadFails, FileSpins, ReadDone, HashMore, HashRefused, HashDone, Poll,
         PollFails, Notify, Drain, CompletionsFail, Check, Final, SignalEvent,
         Signal, JoinWorker, FreeCommands, Decide, Idle, appVars, vars, hashVars,
         Hash!Start, Hash!Read, Hash!Signal
<1>. QED BY Zenon, <1>1, <1>2, <1>3, <1>4, <1>5, <1>6, <1>7

\* The threads end one after the other.
LEMMA NextEnds == IInv /\ [Next]_vars => EndsInOrder'
<1>. SUFFICES ASSUME IInv, [Next]_vars PROVE EndsInOrder'
  OBVIOUS
<1>. USE DEF IInv, EndsInOrder, running
<1>1. CASE Worker
  <2>1. pc # "exited" /\ UNCHANGED <<mpc, terminated>>
    BY Zenon, <1>1 DEF Worker, Progress, OpenSrc, OpenFails, FetchExtents, ReadMore,
         ReadFails, FileSpins, ReadDone, HashMore, HashRefused, HashCallFails,
         HashFails, HashDone, Poll, PollFails, Notify, Drain, CompleteUpdates,
         CompletionsFail, Check, Final, WorkerFails, mainVars
  <2>2. mpc' = "join" /\ ~digest
    BY <2>1
  <2>3. pc' = "exited" => failed' \/ terminated' \/ digest'
    BY Zenon, <1>1 DEF Worker, Progress, OpenSrc, OpenFails, FetchExtents, ReadMore,
         ReadFails, FileSpins, ReadDone, HashMore, HashRefused, HashCallFails,
         HashFails, HashDone, AfterHash, Poll, PollFails, Notify, AfterNotify, Drain,
         CompleteUpdates, CompletionsFail, Check, Final, FinalAllowed, WorkerFails,
         mainVars, LoopTop
  <2>4. digest' => pc' = "exited"
    BY Zenon, <1>1, <2>2 DEF Worker, Progress, OpenSrc, FetchExtents, ReadMore,
         ReadFails, FileSpins, ReadDone, HashMore, HashRefused, HashCallFails,
         HashFails, HashDone, Poll, PollFails, Notify, Drain, CompleteUpdates,
         CompletionsFail, Check, Final, WorkerFails
  <2>. QED BY <2>2, <2>3, <2>4
<1>2. ASSUME NEW c \in Commands, UpdateDone(c) \/ UpdateFails(c) PROVE EndsInOrder'
  <2>1. c \in updating /\ UNCHANGED appVars
    BY Zenon, <1>2 DEF UpdateDone, UpdateFails, Hash!Done
  <2>. QED BY <2>1 DEF appVars, mainVars
<1>3. CASE SignalEvent \/ Signal
  BY <1>3 DEF SignalEvent, Hash!Signal, appVars, mainVars, Signal, hashVars
<1>4. CASE Main
  BY <1>4 DEF Main, JoinWorker, FreeHash, FreeCommands, Decide, hashVars
<1>5. CASE UNCHANGED vars
  BY <1>5 DEF vars, mainVars, hashVars
<1>. QED BY Zenon, <1>1, <1>2, <1>3, <1>4, <1>5 DEF Next, HashThreads, Idle

\* blkhash_final() returns a digest of the whole image.
LEMMA FinalIsComplete ==
    ASSUME IInv, pc = "final", running
    PROVE  hashed = ImageSize /\ bytes_hashed = ImageSize /\ updating = {} /\ ~herror
<1>1. PICK s \in Nat : s = Sum(OutstandingBytes, QueueDepth)
  BY Zenon, BytesType
<1>2. bytes_hashed = ImageSize /\ bytes_hashed + s = hashed
  BY Zenon, <1>1 DEF BytesCounted, IInv
<1>3. hashed \in 0..ImageSize /\ ImageSize \in Nat
  BY SizesAssumption DEF TypeOK, IInv
<1>4. s = 0 /\ hashed = ImageSize
  BY <1>2, <1>3
<1>5. Outstanding = {}
  <2>. SUFFICES ASSUME NEW c \in Outstanding PROVE FALSE
    BY Zenon
  <2>1. c \in Commands /\ cmd[c].length > 0
    BY Zenon DEF Outstanding, UpdatesPlaced, IInv
  <2>2. OutstandingBytes[c] = cmd[c].length
    BY Zenon, <2>1 DEF OutstandingBytes
  <2>3. OutstandingBytes[c] <= s
    BY Zenon, <1>1, <2>1, BytesType, SumBounds
  <2>4. PICK n \in Nat : n = OutstandingBytes[c]
    BY Zenon, <2>1, BytesType
  <2>5. n = cmd[c].length /\ n <= 0
    BY Zenon, <1>4, <2>2, <2>3, <2>4
  <2>. QED BY <2>1, <2>4, <2>5
<1>6. updating = {} /\ bad = {}
  <2>1. updating \subseteq Commands /\ bad \subseteq updating
    BY Zenon DEF TypeOK, IInv
  <2>2. \A c \in Commands : c \notin updating
    BY Zenon, <1>5 DEF Outstanding
  <2>. QED BY <2>1, <2>2
<1>7. DOMAIN cq = {}
  <2>. SUFFICES ASSUME NEW i \in DOMAIN cq PROVE FALSE
    BY Zenon
  <2>1. Len(cq) \in Nat /\ DOMAIN cq = 1..Len(cq) /\ 0 \in 0..Len(cq)
    BY DEF TypeOK, IInv
  <2>2. cq[i].user_data \in Commands
    BY <2>1, FirstReportedCount DEF IInv
  <2>. QED BY <1>5, <2>2 DEF Outstanding, Reported
<1>8. ~herror
  BY Zenon, <1>6, <1>7 DEF FailurePending, IInv
<1>. QED BY Zenon, <1>2, <1>4, <1>6, <1>8

\* So does every later state.
LEMMA NextPrinted == IInv /\ [Next]_vars => PrintedIsComplete'
<1>. SUFFICES ASSUME IInv, [Next]_vars PROVE PrintedIsComplete'
  OBVIOUS
<1>. USE DEF IInv, PrintedIsComplete
<1>1. CASE Final
  <2>1. UNCHANGED <<hashed, bytes_hashed, updating, herror>> /\ mpc' = mpc
    BY <1>1 DEF Final, WorkerFails, counters, hashVars, mainVars
  <2>2. mpc = "join" /\ ~digest
    BY <1>1 DEF Final, EndsInOrder
  <2>3. digest' => running
    BY Zenon, <1>1, <2>2 DEF Final, FinalAllowed
  <2>. QED BY Zenon, <1>1, <2>1, <2>2, <2>3, FinalIsComplete DEF Final
<1>2. CASE Worker /\ ~Final
  <2>1. pc # "exited" /\ UNCHANGED <<mpc, digest>>
    BY Zenon, <1>2 DEF Worker, Progress, OpenSrc, OpenFails, FetchExtents, ReadMore,
         ReadFails, FileSpins, ReadDone, HashMore, HashRefused, HashCallFails,
         HashFails, HashDone, Poll, PollFails, Notify, Drain, CompleteUpdates,
         CompletionsFail, Check, WorkerFails, mainVars
  <2>. QED BY <2>1 DEF EndsInOrder
<1>3. ASSUME NEW c \in Commands, UpdateDone(c) \/ UpdateFails(c)
      PROVE  PrintedIsComplete'
  <2>1. c \in updating /\ UNCHANGED appVars
    BY Zenon, <1>3 DEF UpdateDone, UpdateFails, Hash!Done
  <2>. QED BY <2>1 DEF appVars, mainVars
<1>4. CASE SignalEvent \/ Signal
  BY <1>4 DEF SignalEvent, Hash!Signal, appVars, mainVars, Signal, hashVars, counters
<1>5. CASE Main
  <2>1. CASE Decide
    <3>1. mpc' = "printed" => running
      BY <2>1 DEF Decide, Outcome, running
    <3>. QED BY <2>1, <3>1 DEF Decide, hashVars, counters, EndsInOrder
  <2>2. CASE JoinWorker \/ FreeHash \/ FreeCommands
    BY <2>2 DEF JoinWorker, FreeHash, FreeCommands, hashVars, counters
  <2>. QED BY <1>5, <2>1, <2>2 DEF Main
<1>6. CASE UNCHANGED vars
  BY <1>6 DEF vars, mainVars, hashVars, counters
<1>. QED BY Zenon, <1>1, <1>2, <1>3, <1>4, <1>5, <1>6 DEF Next, HashThreads, Idle

-----------------------------------------------------------------------------
(* Types *)

\* The commands and the queues.
LEMMA NextCommands ==
    IInv /\ [Next]_vars =>
        /\ cmd' \in [Commands -> Command]
        /\ \A c \in Commands : cmd'[c].zero \/ cmd'[c].length <= ReadSize
        /\ read_queue' \in Seq(Commands) /\ hash_queue' \in Seq(Commands)
<1>. SUFFICES ASSUME IInv, [Next]_vars
              PROVE  /\ cmd' \in [Commands -> Command]
                     /\ \A c \in Commands : cmd'[c].zero \/ cmd'[c].length <= ReadSize
                     /\ read_queue' \in Seq(Commands) /\ hash_queue' \in Seq(Commands)
  BY Zenon
<1>. USE DEF IInv
<1>0. /\ cmd \in [Commands -> Command]
      /\ \A c \in Commands : cmd[c].zero \/ cmd[c].length <= ReadSize
      /\ read_queue \in Seq(Commands) /\ hash_queue \in Seq(Commands)
  BY DEF TypeOK
<1>1. CASE ReadMore
  <2>. DEFINE c == hash_queue[FirstUsable]
              n == Take(Head(extents))
  <2>1. read_queue' \in Seq(Commands) /\ hash_queue' \in Seq(Commands)
    BY Zenon, <1>1, TakeMoves DEF ReadMore
  <2>2. /\ cmd' \in [Commands -> Command]
        /\ \A d \in Commands \ {c} : cmd'[d] = cmd[d]
        /\ cmd'[c].length = n /\ cmd'[c].zero = Head(extents).zero
    BY Zenon, <1>1, ReadMoves
  <2>3. Head(extents).zero \/ n <= ReadSize
    BY <1>1, TakeSome DEF ReadMore
  <2>. QED BY Zenon, <1>0, <2>1, <2>2, <2>3
<1>2. CASE ReadFails \/ FileSpins
  <2>1. CanRead /\ TakeCommand /\ cmd' = cmd
    BY <1>2 DEF ReadFails, FileSpins
  <2>. QED BY <1>0, <2>1, TakeMoves
<1>3. CASE HashMore \/ HashRefused \/ HashCallFails
  <2>. DEFINE c == read_queue[HashNext]
  <2>1. /\ c \in Commands /\ read_queue' \in Seq(Commands)
        /\ hash_queue' \in Seq(Commands)
    BY Zenon, <1>3, HashMoves DEF HashMore, HashRefused, HashCallFails, HashFails
  <2>2. cmd' = cmd \/ cmd' = Started(c)
    BY Zenon, <1>3 DEF HashMore, HashRefused, HashCallFails, HashFails
  <2>. QED BY Zenon, <1>0, <2>1, <2>2, StartedMoves
<1>4. CASE FetchExtents \/ Notify \/ CompleteUpdates
  <2>1. UNCHANGED <<read_queue, hash_queue>>
    BY Zenon, <1>4 DEF FetchExtents, Notify, CompleteUpdates
  <2>2. \/ \E S \in SUBSET Commands : MarkCompleted(S)
        \/ cmd' = cmd
    <3>1. CASE FetchExtents \/ Notify
      BY Zenon, <3>1 DEF FetchExtents, Notify, Reading
    <3>2. CASE CompleteUpdates
      BY Zenon, <3>2, CompleteMoves, FirstReportedCount
    <3>. QED BY <1>4, <3>1, <3>2
  <2>. QED BY <1>0, <2>1, <2>2, MarkMoves
<1>5. CASE FreeCommands
  BY <1>0, <1>5 DEF FreeCommands
<1>6. CASE UNCHANGED <<cmd, read_queue, hash_queue>>
  BY <1>0, <1>6
<1>7. \/ ReadMore \/ ReadFails \/ FileSpins \/ HashMore \/ HashRefused
      \/ HashCallFails \/ FreeCommands \/ CompleteUpdates
      \/ FetchExtents \/ Notify \/ UNCHANGED <<cmd, read_queue, hash_queue>>
  BY Zenon DEF Next, Worker, Progress, HashThreads, Main, OpenSrc, ReadDone, UpdateDone,
         HashDone, Poll, PollFails, Drain, CompletionsFail, Check, Final,
         SignalEvent, UpdateFails, Signal, JoinWorker, FreeHash, Decide, Idle,
         appVars, queues, vars
<1>. QED BY Zenon, <1>1, <1>2, <1>3, <1>4, <1>5, <1>6, <1>7

\* The offsets and the counters.
LEMMA NextCounters ==
    IInv /\ [Next]_vars =>
        /\ {read_offset', bytes_hashed', hashed'} \subseteq 0..ImageSize
        /\ commands_in_flight' \in Nat
        /\ extents' \in Seq(Extent)
<1>. SUFFICES ASSUME IInv, [Next]_vars
              PROVE  /\ read_offset' \in 0..ImageSize /\ bytes_hashed' \in 0..ImageSize
                     /\ hashed' \in 0..ImageSize /\ commands_in_flight' \in Nat
                     /\ extents' \in Seq(Extent)
  OBVIOUS
<1>. USE DEF IInv
<1>0. /\ read_offset \in 0..ImageSize /\ bytes_hashed \in 0..ImageSize
      /\ hashed \in 0..ImageSize /\ commands_in_flight \in Nat
      /\ extents \in Seq(Extent) /\ ImageSize \in Nat
  BY Zenon, SizesAssumption DEF TypeOK, Extent
<1>1. CASE ReadMore
  <2>. DEFINE n == Take(Head(extents))
  <2>1. /\ extents # <<>> /\ UNCHANGED <<bytes_hashed, hashed>>
        /\ commands_in_flight' \in {commands_in_flight, commands_in_flight + 1}
    BY <1>0, <1>1 DEF ReadMore, Counted
  <2>2. extents' = Consumed(n) /\ read_offset' = read_offset + n
    BY <1>1, ReadMoves
  <2>3. n \in 1..Head(extents).length /\ n \in Nat /\ read_offset + n <= ImageSize
    BY <2>1, TakeSome
  <2>4. Consumed(n) \in Seq(Extent)
    BY <1>0, <2>1, <2>3, ConsumedTotal
  <2>. HIDE DEF n
  <2>5. read_offset' \in 0..ImageSize
    BY <1>0, <2>2, <2>3
  <2>. QED BY <1>0, <2>1, <2>2, <2>4, <2>5
<1>2. CASE HashMore
  <2>. DEFINE c == read_queue[1]
  <2>1. /\ HashNext = 1 /\ c \in Commands /\ 1 \in DOMAIN read_queue
        /\ read_queue # <<>>
    BY Zenon, <1>2, HashableCommand DEF HashMore
  <2>2. /\ hashed' = hashed + cmd[c].length /\ UNCHANGED <<read_offset, extents>>
        /\ bytes_hashed' \in {bytes_hashed, bytes_hashed + cmd[c].length}
        /\ commands_in_flight' \in {commands_in_flight, commands_in_flight + 1}
    BY <1>2, <2>1 DEF HashMore
  <2>3. hashed' \in 0..ImageSize
    <3>1. Working
      BY <1>2 DEF HashMore, Working
    <3>2. cmd[c].offset + cmd[c].length = EndOf(1) /\ hashed = cmd[c].offset
      BY <2>1, <3>1, ImageInOrderIs
    <3>3. EndOf(1) \in 0..ImageSize
      <4>1. CASE Len(read_queue) = 1
        BY <1>0, <4>1 DEF EndOf
      <4>2. CASE Len(read_queue) # 1
        <5>1. read_queue[1 + 1] \in Commands
          <6>1. read_queue \in Seq(Commands)
            BY DEF TypeOK
          <6>2. Len(read_queue) \in Nat /\ DOMAIN read_queue = 1..Len(read_queue)
            BY <6>1
          <6>3. 1 + 1 \in DOMAIN read_queue
            BY <2>1, <4>2, <6>2
          <6>. QED BY <6>1, <6>3
        <5>2. EndOf(1) = cmd[read_queue[1 + 1]].offset
          BY <4>2 DEF EndOf
        <5>. QED BY <5>1, <5>2, BytesType
      <4>. QED BY <4>1, <4>2
    <3>. QED BY Zenon, <2>2, <3>2, <3>3
  <2>4. bytes_hashed' \in 0..ImageSize
    <3>1. PICK s \in Nat, k \in Nat :
            s = Sum(OutstandingBytes, QueueDepth) /\ k = cmd[c].length
      <4>1. Sum(OutstandingBytes, QueueDepth) \in Nat /\ cmd[c].length \in Nat
        BY Zenon, <2>1, BytesType
      <4>. QED BY <4>1, Zenon
    <3>2. bytes_hashed + s = hashed
      BY <1>2, <3>1 DEF HashMore, BytesCounted
    <3>3. bytes_hashed + k <= hashed'
      <4>1. PICK b \in Nat, h \in Nat : b = bytes_hashed /\ h = hashed
        BY <1>0
      <4>2. hashed' = h + k /\ b + s = h
        BY Zenon, <2>2, <3>1, <3>2, <4>1
      <4>3. b + k <= h + k
        BY <4>2
      <4>. QED BY Zenon, <4>1, <4>2, <4>3
    <3>4. bytes_hashed' = bytes_hashed \/ bytes_hashed' = bytes_hashed + k
      BY <2>2, <3>1
    <3>5. bytes_hashed + k \in 0..ImageSize
      <4>. HIDE DEF c
      <4>. QED BY <1>0, <2>3, <3>3
    <3>. QED BY <1>0, <3>4, <3>5
  <2>. QED BY <1>0, <2>2, <2>3, <2>4
<1>3. CASE FetchExtents \/ Notify
  <2>1. UNCHANGED <<read_offset, bytes_hashed, hashed>>
    BY <1>3 DEF FetchExtents, Notify
  <2>2. extents' \in Seq(Extent)
    BY <1>0, <1>3, FetchedExtents DEF Notify
  <2>3. commands_in_flight' \in Nat
    <3>1. CASE commands_in_flight' = commands_in_flight
      BY <1>0, <3>1
    <3>2. ASSUME NEW done \in SUBSET Reading, MarkCompleted(done)
          PROVE  commands_in_flight' \in Nat
      <4>1. PICK r \in Nat, u \in Nat, l \in Nat :
              r = Cardinality(Reading) /\ u = Cardinality(updating) /\ l = Len(cq)
        <5>1. Cardinality(Reading) \in Nat /\ Cardinality(updating) \in Nat
              /\ Len(cq) \in Nat
          BY InFlightSum
        <5>. QED BY <5>1, Zenon
      <4>2. commands_in_flight = r + u + l
        BY <1>3, <4>1 DEF FetchExtents, Notify, Working, InFlight
      <4>3. PICK k \in Nat : k = Cardinality(done) /\ k <= r
        <5>1. Reading \in SUBSET Commands /\ IsFiniteSet(Reading)
          BY CommandsFinite DEF Reading
        <5>2. Cardinality(done) \in Nat /\ Cardinality(done) <= Cardinality(Reading)
          BY <5>1, FS_Subset, FS_CardinalityType
        <5>. QED BY Zenon, <4>1, <5>2
      <4>4. commands_in_flight' = (r + u + l) - k
        BY Zenon, <3>2, <4>2, <4>3 DEF MarkCompleted
      <4>. QED BY <4>3, <4>4
    <3>. QED BY <1>3, <3>1, <3>2 DEF FetchExtents, Notify
  <2>. QED BY <1>0, <2>1, <2>2, <2>3
<1>4. CASE CompleteUpdates
  <2>. DEFINE n == Cardinality(Good)
  <2>1. /\ n \in 0..Len(cq) /\ MarkCompleted(FirstReported(n))
        /\ bytes_hashed' = bytes_hashed
                             + Total([i \in 1..n |-> cmd[cq[i].user_data]])
        /\ UNCHANGED <<read_offset, extents, hashed>>
    BY Zenon, <1>4, CompleteMoves
  <2>2. bytes_hashed' = bytes_hashed + Sum(ReportedBytes, n)
    BY Zenon, <2>1, ReapedTotal
  <2>. HIDE DEF n
  <2>3. bytes_hashed' \in 0..ImageSize
    <3>1. PICK x \in Nat, y \in Nat :
            x = Sum(BytesLeft(n), QueueDepth) /\ y = Sum(ReportedBytes, n)
      <4>1. Sum(BytesLeft(n), QueueDepth) \in Nat /\ Sum(ReportedBytes, n) \in Nat
        BY Zenon, <2>1, ReapedBytes
      <4>. QED BY <4>1, Zenon
    <3>2. bytes_hashed + (x + y) = hashed
      BY Zenon, <1>4, <2>1, <3>1, ReapedBytes DEF CompleteUpdates, BytesCounted
    <3>3. bytes_hashed' = bytes_hashed + y
      BY <2>2, <3>1
    <3>4. PICK b \in Nat, h \in 0..ImageSize : b = bytes_hashed /\ h = hashed
      BY <1>0
    <3>5. b + (x + y) = h
      BY Zenon, <3>2, <3>4
    <3>6. b + y \in 0..ImageSize
      BY <1>0, <3>5
    <3>. QED BY Zenon, <3>3, <3>4, <3>6
  <2>4. commands_in_flight' \in Nat
    <3>1. PICK r \in Nat, u \in Nat, l \in Nat :
            r = Cardinality(Reading) /\ u = Cardinality(updating) /\ l = Len(cq)
      <4>1. Cardinality(Reading) \in Nat /\ Cardinality(updating) \in Nat
            /\ Len(cq) \in Nat
        BY InFlightSum
      <4>. QED BY <4>1, Zenon
    <3>2. commands_in_flight = r + u + l
      BY Zenon, <1>4, <3>1 DEF CompleteUpdates, Working, InFlight
    <3>3. n \in Nat /\ n <= l /\ Cardinality(FirstReported(n)) = n
      BY <2>1, <3>1, FirstReportedCount
    <3>4. commands_in_flight' = (r + u + l) - n
      BY <2>1, <3>2, <3>3 DEF MarkCompleted
    <3>. QED BY <3>1, <3>3, <3>4
  <2>. QED BY <1>0, <2>1, <2>3, <2>4
<1>5. CASE /\ UNCHANGED <<read_offset, bytes_hashed, hashed, extents>>
           /\ commands_in_flight' \in {commands_in_flight, commands_in_flight + 1}
  BY <1>0, <1>5
<1>6. \/ ReadMore \/ HashMore \/ CompleteUpdates \/ FetchExtents \/ Notify
      \/ /\ UNCHANGED <<read_offset, bytes_hashed, hashed, extents>>
         /\ commands_in_flight' \in {commands_in_flight, commands_in_flight + 1}
  BY Zenon DEF Next, Worker, Progress, HashThreads, Main, OpenSrc, ReadDone, UpdateDone,
         ReadFails, FileSpins, HashRefused, HashCallFails, HashFails,
         HashDone, Poll, PollFails, Drain, CompletionsFail, Check, Final,
         SignalEvent, UpdateFails, Signal, JoinWorker, FreeHash, FreeCommands,
         Decide, Idle, appVars, counters, vars
<1>. QED BY Zenon, <1>1, <1>2, <1>3, <1>4, <1>5, <1>6

\* The part of the hash.
LEMMA NextHashVars ==
    IInv /\ [Next]_vars =>
        /\ updating' \subseteq Commands /\ bad' \subseteq updating'
        /\ cq' \in Seq(Completion)
        /\ signals' \in Nat
        /\ event' \in BOOLEAN /\ herror' \in BOOLEAN
<1>. SUFFICES ASSUME IInv, [Next]_vars
              PROVE  /\ updating' \subseteq Commands /\ bad' \subseteq updating'
                     /\ cq' \in Seq(Completion)
                     /\ signals' \in Nat
                     /\ event' \in BOOLEAN /\ herror' \in BOOLEAN
  OBVIOUS
<1>. USE DEF IInv
<1>0. /\ updating \subseteq Commands /\ bad \subseteq updating
      /\ cq \in Seq(Completion) /\ signals \in Nat
      /\ event \in BOOLEAN /\ herror \in BOOLEAN
  BY Zenon DEF TypeOK, Completion
<1>1. CASE HashMore
  <2>1. HashNext = 1 /\ read_queue[1] \in Commands
    BY Zenon, <1>1, HashableCommand DEF HashMore
  <2>2. \/ UNCHANGED hashVars
        \/ /\ updating' = updating \cup {read_queue[1]}
           /\ UNCHANGED <<bad, cq, signals, event, herror>>
    BY <1>1, <2>1 DEF HashMore, Hash!Start
  <2>. QED BY Zenon, <1>0, <2>1, <2>2 DEF hashVars
<1>2. CASE HashCallFails \/ Drain
  BY Zenon, <1>0, <1>2 DEF HashCallFails, Drain, Hash!CallFails, Hash!Read
<1>3. CASE CompleteUpdates
  <2>1. /\ cq' = <<>> /\ UNCHANGED <<updating, bad, event, herror>>
        /\ signals' = signals
    BY <1>3, ReapsAll
  <2>. QED BY <1>0, <2>1
<1>4. ASSUME NEW c \in Commands, UpdateDone(c)
      PROVE  /\ updating' \subseteq Commands /\ bad' \subseteq updating'
             /\ cq' \in Seq(Completion) /\ signals' \in Nat
             /\ event' \in BOOLEAN /\ herror' \in BOOLEAN
  <2>1. /\ updating' = updating \ {c} /\ bad' = bad \ {c}
        /\ cq' \in Seq(Completion)
        /\ UNCHANGED <<event, herror>> /\ signals' \in {signals, signals + 1}
    BY Zenon, <1>4, DoneMoves
  <2>. QED BY <1>0, <2>1
<1>5. CASE SignalEvent
  BY <1>0, <1>5 DEF SignalEvent, Hash!Signal
<1>6. ASSUME NEW c \in Commands, UpdateFails(c)
      PROVE  /\ updating' \subseteq Commands /\ bad' \subseteq updating'
             /\ cq' \in Seq(Completion) /\ signals' \in Nat
             /\ event' \in BOOLEAN /\ herror' \in BOOLEAN
  <2>1. PICK call \in BOOLEAN : Hash!UpdateFails(c, call)
    BY Zenon, <1>6 DEF UpdateFails
  <2>2. /\ c \in updating /\ bad' = bad \cup {c}
        /\ UNCHANGED <<updating, cq, signals, event>>
        /\ herror' \in BOOLEAN
    BY <2>1 DEF Hash!UpdateFails
  <2>. QED BY <1>0, <2>2
<1>7. CASE FreeHash
  BY <1>0, <1>7 DEF FreeHash
<1>8. CASE UNCHANGED hashVars
  BY <1>0, <1>8 DEF hashVars
<1>9. \/ HashMore \/ HashCallFails \/ Drain \/ CompleteUpdates \/ SignalEvent
      \/ \E c \in Commands : UpdateDone(c) \/ UpdateFails(c)
      \/ FreeHash \/ UNCHANGED hashVars
  BY Zenon DEF Next, Worker, Progress, HashThreads, Main, OpenSrc, FetchExtents, ReadMore,
         ReadFails, FileSpins, ReadDone, HashRefused, HashDone, Poll, PollFails,
         Notify, CompletionsFail, Check, Final, Signal, JoinWorker, FreeCommands,
         Decide, Idle, vars
<1>. QED BY Zenon, <1>1, <1>2, <1>3, <1>4, <1>5, <1>6, <1>7, <1>8, <1>9

\* Where the threads are.
LEMMA NextControl ==
    IInv /\ [Next]_vars =>
        /\ pc' \in {"open", "read", "hash", "poll", "notify", "drain", "reap",
                    "check", "final", "exited", "spin"}
        /\ mpc' \in {"join", "free_hash", "free_commands", "decide", "printed",
                     "failed", "killed"}
        /\ revents' \subseteq {"src", "hash"}
        /\ nbd' \in BOOLEAN /\ started' \in BOOLEAN /\ digest' \in BOOLEAN
        /\ terminated' \in BOOLEAN /\ failed' \in BOOLEAN
<1>. SUFFICES ASSUME IInv, [Next]_vars
     PROVE  /\ pc' \in {"open", "read", "hash", "poll", "notify", "drain", "reap",
                        "check", "final", "exited", "spin"}
            /\ mpc' \in {"join", "free_hash", "free_commands", "decide", "printed",
                         "failed", "killed"}
            /\ revents' \subseteq {"src", "hash"}
            /\ nbd' \in BOOLEAN /\ started' \in BOOLEAN /\ digest' \in BOOLEAN
            /\ terminated' \in BOOLEAN /\ failed' \in BOOLEAN
  OBVIOUS
<1>0. /\ pc \in {"open", "read", "hash", "poll", "notify", "drain", "reap",
                 "check", "final", "exited", "spin"}
      /\ mpc \in {"join", "free_hash", "free_commands", "decide", "printed",
                  "failed", "killed"}
      /\ revents \subseteq {"src", "hash"}
      /\ nbd \in BOOLEAN /\ started \in BOOLEAN /\ digest \in BOOLEAN
      /\ terminated \in BOOLEAN /\ failed \in BOOLEAN
  BY DEF IInv, TypeOK
<1>1. ASSUME WorkerFails
      PROVE  /\ pc' = "exited" /\ UNCHANGED <<terminated, mpc>>
             /\ failed' \in BOOLEAN
  BY <1>1 DEF WorkerFails
<1>2. /\ LoopTop \in {"read", "hash", "final"} /\ AfterHash \in {"poll", "check"}
      /\ AfterNotify \in {"drain", "check"} /\ FinalAllowed \in BOOLEAN
      /\ Outcome \in {"printed", "failed", "killed"}
  BY DEF LoopTop, AfterHash, AfterNotify, FinalAllowed, running, Outcome
<1>3. CASE Worker
  <2>1. CASE OpenSrc
    BY <1>0, <1>1, <1>2, <2>1 DEF OpenSrc, OpenFails, srcVars, mainVars
  <2>2. CASE FetchExtents \/ ReadMore \/ ReadFails \/ FileSpins \/ ReadDone
    BY Zenon, <1>0, <1>1, <2>2 DEF FetchExtents, ReadMore, ReadFails, FileSpins, ReadDone,
                            srcVars, mainVars
  <2>3. CASE HashMore \/ HashRefused \/ HashCallFails \/ HashDone
    BY Zenon, <1>0, <1>1, <1>2, <2>3 DEF HashMore, HashRefused, HashCallFails, HashFails,
                                  HashDone, srcVars, mainVars
  <2>4. CASE Poll \/ PollFails \/ Notify \/ Drain
    BY Zenon, <1>0, <1>1, <1>2, <2>4 DEF Poll, PollFails, Notify, Drain, srcVars, mainVars
  <2>5. CASE CompleteUpdates \/ CompletionsFail \/ Check \/ Final
    BY Zenon, <1>0, <1>1, <1>2, <2>5 DEF CompleteUpdates, CompletionsFail, Check, Final,
                                  srcVars, mainVars
  <2>. QED BY Zenon, <1>3, <2>1, <2>2, <2>3, <2>4, <2>5 DEF Worker, Progress
<1>4. CASE Main
  BY Zenon, <1>0, <1>2, <1>4 DEF Main, JoinWorker, FreeHash, FreeCommands, Decide, srcVars
<1>5. CASE Signal
  BY <1>0, <1>5 DEF Signal, srcVars
<1>6. CASE UNCHANGED <<pc, mpc, srcVars, digest, terminated, failed>>
  BY <1>0, <1>6 DEF srcVars
<1>7. Worker \/ Main \/ Signal \/ UNCHANGED <<pc, mpc, srcVars, digest, terminated, failed>>
  BY Zenon DEF Next, HashThreads, UpdateDone, SignalEvent, UpdateFails, Idle, appVars,
         mainVars, vars
<1>. QED BY <1>3, <1>4, <1>5, <1>6, <1>7

\* Every step keeps the types.
LEMMA NextType == IInv /\ [Next]_vars => TypeOK'
<1>. SUFFICES ASSUME IInv, [Next]_vars PROVE TypeOK'
  OBVIOUS
<1>1. /\ {read_offset', bytes_hashed', hashed'} \subseteq 0..ImageSize
      /\ commands_in_flight' \in Nat /\ extents' \in Seq(Extent)
  BY NextCounters
<1>2. {nbd', started', event', herror', digest', terminated', failed'} \subseteq BOOLEAN
  BY NextControl, NextHashVars
<1>. QED BY Zenon, <1>1, <1>2, NextCommands, NextHashVars, NextControl
         DEF TypeOK, Extent, Completion, Command

-----------------------------------------------------------------------------
(* The theorems *)

\* The invariant holds when aio_checksum() starts the worker.
LEMMA InitIInv == Init => IInv
<1>. SUFFICES ASSUME Init PROVE IInv
  OBVIOUS
<1>1. /\ updating = {} /\ bad = {} /\ cq = <<>> /\ signals = 0
      /\ event = FALSE /\ herror = FALSE
  BY DEF Init, Hash!Init
<1>2. QueueDepth \in Nat /\ ImageSize \in Nat /\ ReadSize \in Nat
  BY SizesAssumption
<1>3. hash_queue \in Seq(Commands)
  BY <1>2 DEF Init, Commands
<1>4. TypeOK
  <2>1. cmd \in [Commands -> Command]
    BY <1>2 DEF Init, Command
  <2>2. \A c \in Commands : cmd[c].length = 0
    BY DEF Init
  <2>3. {read_offset, bytes_hashed, hashed} \subseteq 0..ImageSize
    BY <1>2 DEF Init
  <2>4. {nbd, started, event, herror, digest, terminated, failed} \subseteq BOOLEAN
    BY Zenon, <1>1 DEF Init
  <2>5. \A c \in Commands : cmd[c].zero \/ cmd[c].length <= ReadSize
    BY <1>2, <2>2
  <2>6. /\ read_queue \in Seq(Commands) /\ commands_in_flight \in Nat
        /\ extents \in Seq([length : 1..ImageSize, zero : BOOLEAN])
        /\ cq \in Seq([user_data : Commands, error : BOOLEAN]) /\ signals \in Nat
    BY <1>1 DEF Init
  <2>7. /\ revents \subseteq {"src", "hash"}
        /\ updating \subseteq Commands /\ bad \subseteq updating
        /\ pc = "open" /\ mpc = "join"
    BY Zenon, <1>1 DEF Init
  <2>. QED BY Zenon, <1>3, <2>1, <2>3, <2>4, <2>5, <2>6, <2>7 DEF TypeOK
<1>5. QueuesDiffer
  BY DEF QueuesDiffer, Distinct, Holds, Init, Commands
<1>6. Outstanding = {} /\ UpdatesPlaced
  BY <1>1 DEF UpdatesPlaced, Outstanding, Reported
<1>7. InFlight = 0
  <2>1. Reading = {}
    BY DEF Reading, Init
  <2>2. Cardinality(Reading) = 0 /\ Cardinality(updating) = 0 /\ Len(cq) = 0
    BY Zenon, <1>1, <2>1, FS_EmptySet
  <2>. QED BY <2>2 DEF InFlight
<1>8. ImageInOrder
  BY DEF ImageInOrder, Init
<1>9. ReadsFit
  <2>1. Total(extents) = 0
    <3>1. extents = <<>> /\ Len(extents) = 0
      BY DEF Init
    <3>2. \A f : Total(extents) = Sum(f, 0)
      BY <3>1, TotalIsSum
    <3>3. Total(extents) = Sum(<<>>, 0)
      BY <3>2
    <3>4. PartialSums([i \in 0..0 |-> 0], <<>>, 0)
      BY DEF PartialSums
    <3>5. Sum(<<>>, 0) = 0
      BY <3>4, SumIs
    <3>. QED BY <3>3, <3>5
  <2>. QED BY <1>2, <2>1 DEF ReadsFit, Init
<1>10. BytesCounted
  <2>1. \A i \in 1..QueueDepth : OutstandingBytes[i] = 0
    BY <1>6 DEF OutstandingBytes, Commands
  <2>2. PartialSums([i \in 0..QueueDepth |-> 0], OutstandingBytes, QueueDepth)
    BY <1>2, <2>1 DEF PartialSums
  <2>3. Sum(OutstandingBytes, QueueDepth) = 0
    BY <1>2, <2>2, SumIs
  <2>. QED BY <2>3 DEF BytesCounted, Init
<1>11. FailurePending /\ EndsInOrder /\ PrintedIsComplete
  BY <1>1 DEF FailurePending, EndsInOrder, PrintedIsComplete, Init
<1>. QED BY Zenon, <1>4, <1>5, <1>6, <1>7, <1>8, <1>9, <1>10, <1>11 DEF IInv, Init

\* The invariant holds: blksum preserves it with every step.
THEOREM Invariance == Spec => []IInv
<1>1. IInv /\ [Next]_vars => IInv'
  BY Zenon, NextType, NextQueues, NextPlaced, NextInFlight, NextImage, NextReadsFit,
     NextBytes, NextFailurePending, NextEnds, NextPrinted DEF IInv
<1>. QED BY <1>1, InitIInv, PTL DEF Spec

\* The types of the state of the worker, the hash and the main thread.
THEOREM TypeCorrect == Spec => []TypeOK
<1>1. IInv => TypeOK
  BY DEF IInv
<1>. QED BY <1>1, Invariance, PTL

\* w->commands_in_flight counts the reads and the updates that did not complete;
\* it stays within queue_depth, and below it when an update starts.
THEOREM CommandsAreCounted == Spec => []CommandsCounted
<1>1. ASSUME IInv PROVE CommandsCounted
  <2>. SUFFICES ASSUME Working PROVE /\ commands_in_flight = InFlight
                                     /\ InFlight <= QueueDepth
                                     /\ HashNext # 0 => InFlight < QueueDepth
    BY Zenon DEF CommandsCounted, Working, InFlight
  <2>. USE <1>1 DEF IInv
  <2>. DEFINE D == FirstReported(Len(cq))
  <2>1. /\ Reading \in SUBSET Commands /\ updating \in SUBSET Commands
        /\ Len(cq) \in Nat /\ DOMAIN cq = 1..Len(cq)
    BY InFlightSum DEF TypeOK
  <2>2. /\ D \in SUBSET Commands /\ Cardinality(D) = Len(cq)
        /\ \A c \in D : Reported(c)
    BY <2>1, FirstReportedCount
  <2>3. /\ Reading \cap updating = {} /\ (Reading \cup updating) \cap D = {}
    <3>1. \A c \in Reading : c \in Commands /\ Holds(read_queue, c)
      BY ReadingIs
    <3>2. \A c \in Outstanding : Holds(hash_queue, c)
      BY DEF UpdatesPlaced
    <3>3. \A c \in updating \cup D : c \in Outstanding
      BY <2>1, <2>2 DEF Outstanding
    <3>. QED BY Zenon, <2>1, <2>2, <3>1, <3>2, <3>3 DEF QueuesDiffer, UpdatesPlaced
  <2>. HIDE DEF D
  <2>. DEFINE B == Reading \cup updating \cup D
  <2>4. B \in SUBSET Commands /\ Cardinality(B) = InFlight
    <3>1. IsFiniteSet(Reading) /\ IsFiniteSet(updating) /\ IsFiniteSet(D)
      BY <2>1, <2>2, CommandsFinite
    <3>2. /\ IsFiniteSet(Reading \cup updating)
          /\ Cardinality(Reading \cup updating) = Cardinality(Reading) + Cardinality(updating)
      <4>1. Cardinality(Reading \cap updating) = 0
        BY <2>3, FS_EmptySet
      <4>2. /\ Cardinality(Reading) \in Nat /\ Cardinality(updating) \in Nat
        BY InFlightSum
      <4>3. /\ IsFiniteSet(Reading \cup updating)
            /\ Cardinality(Reading \cup updating)
                 = Cardinality(Reading) + Cardinality(updating)
                     - Cardinality(Reading \cap updating)
        BY <3>1, FS_Union
      <4>. QED BY <4>1, <4>2, <4>3
    <3>3. Cardinality(B) = Cardinality(Reading \cup updating) + Cardinality(D)
      <4>1. Cardinality((Reading \cup updating) \cap D) = 0
        BY <2>3, FS_EmptySet
      <4>2. /\ Cardinality(Reading \cup updating) \in Nat /\ Cardinality(D) \in Nat
        BY <3>1, <3>2, FS_CardinalityType
      <4>3. Cardinality(B) = Cardinality(Reading \cup updating) + Cardinality(D)
                               - Cardinality((Reading \cup updating) \cap D)
        BY <3>1, <3>2, FS_Union
      <4>. QED BY <4>1, <4>2, <4>3
    <3>. QED BY Zenon, <2>1, <2>2, <3>2, <3>3 DEF InFlight
  <2>5. InFlight <= QueueDepth
    BY <2>4, CommandsFinite
  <2>6. ASSUME HashNext # 0 PROVE InFlight < QueueDepth
    <3>. DEFINE c == read_queue[1]
    <3>1. c \in Commands /\ cmd[c].completed
      BY <2>6, HashableCommand
    <3>2. c \notin B
      <4>1. c \notin Reading
        BY Zenon, <3>1 DEF Reading
      <4>2. c \notin updating /\ c \notin D
        BY <2>1, <2>2, <3>1 DEF UpdatesPlaced, Outstanding
      <4>. QED BY <4>1, <4>2
    <3>. HIDE DEF B, c
    <3>3. Cardinality(B \cup {c}) = Cardinality(B) + 1
      BY <2>4, <3>1, <3>2, OneCommand
    <3>4. Cardinality(B \cup {c}) <= QueueDepth
      BY <2>4, <3>1, CommandsFinite
    <3>5. InFlight \in Nat /\ QueueDepth \in Nat
      BY InFlightSum, SizesAssumption
    <3>. QED BY <2>4, <3>3, <3>4, <3>5
  <2>. QED BY <2>5, <2>6
<1>2. IInv => CommandsCounted
  BY <1>1
<1>. QED BY <1>2, Invariance, PTL

\* The hash is fed with the image from start to end, whatever order the reads
\* complete in.
THEOREM ImageIsHashedInOrder == Spec => []ImageInOrder
<1>1. IInv => ImageInOrder
  BY DEF IInv
<1>. QED BY <1>1, Invariance, PTL

\* A buffer the hash still uses is neither read into nor freed.
THEOREM BufferStaysInUse == Spec => []BufferInUse
<1>1. ASSUME IInv PROVE BufferInUse
  <2>. USE <1>1 DEF IInv
  <2>1. \A c \in updating : c \in Commands /\ c \in Outstanding
    BY Zenon DEF TypeOK, Outstanding
  <2>2. \A c \in updating : Holds(hash_queue, c) /\ ~Holds(read_queue, c)
    BY <2>1 DEF UpdatesPlaced, QueuesDiffer
  <2>. QED BY Zenon, <2>2, ReadingIs DEF BufferInUse, Holds
<1>2. IInv => BufferInUse
  BY <1>1
<1>. QED BY <1>2, Invariance, PTL

\* A checksum is printed only for a whole image and a hash that did not fail.
THEOREM PrintedAfterAll == Spec => []PrintedIsComplete
<1>1. IInv => PrintedIsComplete
  BY DEF IInv
<1>. QED BY <1>1, Invariance, PTL

-----------------------------------------------------------------------------
(* The worker does not wait for nothing *)

\* A completion that was not reaped has been signalled, or is going to be, and
\* the signal was not read before the worker is about to reap.  The worker polls
\* only with a command in flight and reads the completion fd only when it is
\* readable.
Notified ==
    /\ pc \notin {"reap", "exited"} /\ cq # <<>> => event \/ signals > 0
    /\ pc = "poll" => commands_in_flight > 0
    /\ pc = "notify" /\ "hash" \in revents => event
    /\ pc = "drain" => event

\* Every command is in a queue.  One that does not wait for its read or its
\* update can be used.
CommandsPlaced ==
    Working =>
        \A c \in Commands :
            \/ Holds(read_queue, c) /\ (cmd[c].zero => cmd[c].completed)
            \/ Holds(hash_queue, c) /\ (cmd[c].completed \/ c \in Outstanding)

\* While the worker waits in poll() a read or an update is in flight, or the
\* completion fd is or is going to be readable; reading that fd does not block.
\* With nothing to wait for, the whole image was hashed or the next iteration
\* reads more: process_image() neither hangs nor spins.
NeverWaitsForNothing ==
    /\ pc = "poll" => Reading # {} \/ updating # {} \/ event \/ signals > 0
    /\ pc = "drain" => event
    /\ pc = "hash" /\ HashNext = 0 /\ AfterHash # "poll" =>
          /\ read_queue = <<>>
          /\ bytes_hashed = ImageSize \/ CanRead

\* No step loses a signal for a completion.
LEMMA NextNotified == IInv /\ Notified /\ [Next]_vars => Notified'
<1>. SUFFICES ASSUME IInv, Notified, [Next]_vars PROVE Notified'
  OBVIOUS
<1>0. signals \in Nat /\ cq \in Seq(Completion)
  BY DEF IInv, TypeOK, Completion
<1>a. ASSUME UNCHANGED <<cq, signals, event>>, pc # "reap", pc # "exited",
             pc' \notin {"poll", "notify", "drain"}
      PROVE  Notified'
  BY Zenon, <1>a DEF Notified
<1>1. ASSUME NEW c \in Commands, UpdateDone(c) PROVE Notified'
  <2>1. UNCHANGED <<pc, commands_in_flight, revents, event>>
    BY Zenon, <1>1 DEF UpdateDone, Hash!Done, appVars, counters, srcVars
  <2>2. signals' = IF cq = <<>> THEN signals + 1 ELSE signals
    BY Zenon, <1>1 DEF UpdateDone, Hash!Done
  <2>3. CASE cq = <<>>
    <3>1. signals' > 0
      BY <1>0, <2>2, <2>3
    <3>. QED BY Zenon, <2>1, <3>1 DEF Notified
  <2>4. CASE cq # <<>>
    <3>1. signals' = signals
      BY Zenon, <2>2, <2>4
    <3>. QED BY Zenon, <2>1, <2>4, <3>1 DEF Notified
  <2>. QED BY Zenon, <2>3, <2>4
<1>2. CASE SignalEvent
  <2>1. UNCHANGED <<pc, commands_in_flight, revents>> /\ event' = TRUE
    BY Zenon, <1>2 DEF SignalEvent, Hash!Signal, appVars, counters, srcVars
  <2>. QED BY Zenon, <2>1 DEF Notified
<1>3. ASSUME NEW c \in Commands, UpdateFails(c) PROVE Notified'
  <2>1. UNCHANGED <<pc, commands_in_flight, revents, cq, signals, event>>
    BY Zenon, <1>3 DEF UpdateFails, Hash!UpdateFails, appVars, counters, srcVars
  <2>. QED BY Zenon, <2>1 DEF Notified
<1>4. CASE HashMore
  <2>1. pc = "hash" /\ pc' = "hash" /\ UNCHANGED <<cq, signals, event>>
    BY Zenon, <1>4 DEF HashMore, Hash!Start, hashVars
  <2>. QED BY Zenon, <1>a, <2>1
<1>5. CASE HashDone
  <2>1. pc = "hash" /\ pc' = AfterHash /\ UNCHANGED <<commands_in_flight, cq, signals, event>>
    BY Zenon, <1>5 DEF HashDone, counters, hashVars
  <2>. QED BY Zenon, <2>1 DEF Notified, AfterHash
<1>6. CASE Poll
  <2>1. pc = "poll" /\ UNCHANGED <<cq, signals, event>>
        /\ ("hash" \in revents' <=> event)
        /\ pc' = IF "src" \in revents' THEN "notify" ELSE "drain"
    BY Zenon, <1>6 DEF Poll, hashVars
  <2>2. revents' \in SUBSET {"src", "hash"} /\ revents' # {}
    BY <1>6 DEF Poll
  <2>3. pc' = "drain" => "hash" \in revents'
    BY Zenon, <2>1, <2>2
  <2>4. pc' \in {"notify", "drain"}
    BY Zenon, <2>1
  <2>. QED BY Zenon, <2>1, <2>3, <2>4 DEF Notified
<1>7. CASE Notify
  <2>1. pc = "notify" /\ UNCHANGED <<cq, signals, event, revents>>
        /\ pc' \in {AfterNotify, "exited"}
    BY Zenon, <1>7 DEF Notify, WorkerFails, srcVars, hashVars
  <2>. QED BY Zenon, <2>1 DEF Notified, AfterNotify
<1>8. CASE Drain \/ PollFails \/ CompletionsFail \/ ReadFails \/ HashRefused \/ HashCallFails
  <2>1. pc' \in {"reap", "exited"}
    BY Zenon, <1>8 DEF Drain, PollFails, CompletionsFail, ReadFails, HashRefused,
       HashCallFails, HashFails, WorkerFails
  <2>. QED BY Zenon, <2>1 DEF Notified
<1>9. CASE CompleteUpdates
  <2>1. cq' = <<>> /\ pc' \in {"check", "exited"}
    BY Zenon, <1>9, ReapsAll DEF CompleteUpdates, WorkerFails
  <2>. QED BY Zenon, <2>1 DEF Notified
<1>10. CASE Main
  <2>1. pc = "exited" /\ pc' = "exited"
    BY Zenon, <1>10 DEF Main, JoinWorker, FreeHash, FreeCommands, Decide, IInv, EndsInOrder
  <2>. QED BY Zenon, <2>1 DEF Notified
<1>11. CASE Signal \/ Idle \/ UNCHANGED vars
  <2>1. UNCHANGED <<pc, commands_in_flight, revents, cq, signals, event>>
    BY Zenon, <1>11 DEF Signal, Idle, vars, counters, srcVars, hashVars
  <2>. QED BY Zenon, <2>1 DEF Notified
<1>12. CASE OpenSrc \/ FetchExtents \/ ReadMore \/ FileSpins \/ ReadDone \/ Check \/ Final
  <2>1. pc \in {"open", "read", "check", "final"} /\ UNCHANGED <<cq, signals, event>>
    BY Zenon, <1>12 DEF OpenSrc, FetchExtents, ReadMore, FileSpins, ReadDone, Check, Final,
       hashVars
  <2>2. pc' \in {"read", "hash", "final", "spin", "exited"}
    BY Zenon, <1>12 DEF OpenSrc, OpenFails, FetchExtents, ReadMore, FileSpins, ReadDone,
       Check, Final, LoopTop, WorkerFails
  <2>. QED BY Zenon, <1>a, <2>1, <2>2
<1>. QED BY Zenon, <1>1, <1>2, <1>3, <1>4, <1>5, <1>6, <1>7, <1>8, <1>9, <1>10, <1>11, <1>12
     DEF Next, Worker, Progress, HashThreads

\* No step loses a command.
LEMMA NextCommandsPlaced == IInv /\ CommandsPlaced /\ [Next]_vars => CommandsPlaced'
<1>. SUFFICES ASSUME IInv, CommandsPlaced, [Next]_vars, Working'
              PROVE  \A c \in Commands :
                        \/ Holds(read_queue, c)' /\ (cmd'[c].zero => cmd'[c].completed)
                        \/ Holds(hash_queue, c)' /\ (cmd'[c].completed \/ c \in Outstanding')
  BY Zenon DEF CommandsPlaced
<1>. DEFINE Placed(c) == \/ Holds(read_queue, c)' /\ (cmd'[c].zero => cmd'[c].completed)
                         \/ Holds(hash_queue, c)' /\ (cmd'[c].completed \/ c \in Outstanding')
<1>0. Working /\ \A c \in Commands :
          \/ Holds(read_queue, c) /\ (cmd[c].zero => cmd[c].completed)
          \/ Holds(hash_queue, c) /\ (cmd[c].completed \/ c \in Outstanding)
  BY Zenon, WorkingBefore DEF CommandsPlaced
<1>t. TypeOK
  BY Zenon DEF IInv
<1>q. ASSUME UNCHANGED <<read_queue, hash_queue>>
      PROVE  \A c : /\ Holds(read_queue, c)' <=> Holds(read_queue, c)
                    /\ Holds(hash_queue, c)' <=> Holds(hash_queue, c)
  BY Zenon, <1>q DEF Holds
<1>o. ASSUME UNCHANGED <<cq, updating>> PROVE Outstanding' = Outstanding
  BY Zenon, <1>o DEF Outstanding, Reported
<1>1. CASE ReadMore
  <2>0. PICK c : c = hash_queue[FirstUsable]
    OBVIOUS
  <2>1. CanRead /\ TakeCommand /\ UNCHANGED <<cq, updating>>
    BY Zenon, <1>1 DEF ReadMore, hashVars
  <2>2. /\ c \in Commands
        /\ \A d : /\ Holds(read_queue, d)' <=> Holds(read_queue, d) \/ d = c
                  /\ Holds(hash_queue, d)' <=> Holds(hash_queue, d) /\ d # c
    BY Zenon, <2>0, <2>1, TakeMoves
  <2>3. /\ cmd'[c].zero = Head(extents).zero
        /\ cmd'[c].completed = (Head(extents).zero \/ ~nbd)
        /\ \A d \in Commands \ {c} : cmd'[d] = cmd[d]
    BY Zenon, <1>1, <1>t, <2>0, <2>2 DEF ReadMore, TypeOK
  <2>4. Outstanding' = Outstanding
    BY Zenon, <1>o, <2>1
  <2>5. Placed(c)
    BY Zenon, <2>2, <2>3
  <2>6. \A d \in Commands \ {c} : Placed(d)
    BY Zenon, <1>0, <2>2, <2>3, <2>4
  <2>. QED BY Zenon, <2>5, <2>6
<1>2. CASE HashMore
  <2>0. PICK c : c = read_queue[HashNext]
    OBVIOUS
  <2>1. /\ HashNext # 0 /\ read_queue' = Without(read_queue, HashNext)
        /\ hash_queue' = Append(hash_queue, c)
    BY Zenon, <1>2, <2>0 DEF HashMore
  <2>2. /\ c \in Commands /\ cmd[c].completed
        /\ \A d : /\ Holds(read_queue, d)' <=> Holds(read_queue, d) /\ d # c
                  /\ Holds(hash_queue, d)' <=> Holds(hash_queue, d) \/ d = c
    BY Zenon, <2>0, <2>1, HashMoves
  <2>3. CASE cmd' = cmd /\ UNCHANGED <<cq, updating>>
    <3>1. Outstanding' = Outstanding
      BY Zenon, <1>o, <2>3
    <3>. QED BY Zenon, <1>0, <2>2, <2>3, <3>1
  <2>4. CASE cmd' = Started(c) /\ Hash!Start(c)
    <3>1. \A d \in Commands \ {c} : cmd'[d] = cmd[d]
      BY Zenon, <1>t, <2>2, <2>4, StartedMoves
    <3>2. cq' = cq /\ updating' = updating \cup {c}
      BY Zenon, <2>4 DEF Hash!Start
    <3>3. Outstanding' = Outstanding \cup {c}
      BY Zenon, <2>2, <3>2 DEF Outstanding, Reported
    <3>4. Placed(c)
      BY Zenon, <2>2, <3>3
    <3>5. \A d \in Commands \ {c} : Placed(d)
      BY Zenon, <1>0, <2>2, <3>1, <3>3
    <3>. QED BY Zenon, <3>4, <3>5
  <2>. QED BY Zenon, <1>2, <2>0, <2>3, <2>4 DEF HashMore, hashVars
<1>3. ASSUME NEW c \in Commands, UpdateDone(c) PROVE \A d \in Commands : Placed(d)
  <2>1. UNCHANGED <<cmd, read_queue, hash_queue>>
    BY Zenon, <1>3 DEF UpdateDone, appVars, queues
  <2>2. /\ updating' = updating \ {c} /\ DOMAIN cq' = 1..(Len(cq) + 1) /\ Len(cq) \in Nat
        /\ DOMAIN cq = 1..Len(cq)
        /\ \A i \in DOMAIN cq : cq'[i] = cq[i]
        /\ cq'[Len(cq) + 1].user_data = c
    BY Zenon, <1>3, DoneMoves
  <2>3. DOMAIN cq \subseteq DOMAIN cq' /\ Len(cq) + 1 \in DOMAIN cq'
    BY <2>2
  <2>4. Reported(c)' /\ \A d : Reported(d) => Reported(d)'
    BY Zenon, <2>2, <2>3 DEF Reported
  <2>5. Outstanding \subseteq Outstanding'
    BY Zenon, <2>2, <2>4 DEF Outstanding
  <2>. QED BY Zenon, <1>0, <1>q, <2>1, <2>5
<1>4. CASE CompleteUpdates
  <2>. DEFINE n == Cardinality(Good)
              S == FirstReported(n)
  <2>1. /\ n \in 0..Len(cq) /\ MarkCompleted(S) /\ (Working' <=> n = Len(cq))
        /\ UNCHANGED <<read_queue, hash_queue>>
    BY Zenon, <1>4, CompleteMoves
  <2>2. S \in SUBSET Commands /\ n = Len(cq)
    BY Zenon, <2>1, FirstReportedCount
  <2>3. /\ \A c \in S : cmd'[c].completed
        /\ \A c \in Commands \ S : cmd'[c] = cmd[c]
    BY Zenon, <1>t, <2>1, <2>2, MarkMoves
  <2>4. \A c : Reported(c) => c \in S
    <3>1. DOMAIN cq = 1..Len(cq)
      BY <1>t DEF TypeOK
    <3>. QED BY Zenon, <2>2, <3>1 DEF Reported, FirstReported
  <2>5. updating' = updating
    BY Zenon, <1>4, ReapsAll
  <2>6. \A c \in Outstanding : cmd'[c].completed \/ c \in Outstanding'
    BY Zenon, <2>3, <2>4, <2>5 DEF Outstanding
  <2>7. \A c \in Commands : /\ cmd[c].completed => cmd'[c].completed
                            /\ cmd'[c].completed \/ cmd'[c].zero = cmd[c].zero
    BY Zenon, <2>3
  <2>. QED BY Zenon, <1>0, <1>q, <2>1, <2>6, <2>7
<1>5. CASE FetchExtents \/ Notify
  <2>1. PICK S \in SUBSET Reading : MarkCompleted(S)
    BY Zenon, <1>5 DEF FetchExtents, Notify, WorkerFails, Working
  <2>2. S \in SUBSET Commands
    BY Zenon DEF Reading
  <2>3. UNCHANGED <<read_queue, hash_queue, cq, updating>>
    BY Zenon, <1>5 DEF FetchExtents, Notify, hashVars
  <2>4. /\ \A c \in S : cmd'[c].completed
        /\ \A c \in Commands \ S : cmd'[c] = cmd[c]
    BY Zenon, <1>t, <2>1, <2>2, MarkMoves
  <2>5. Outstanding' = Outstanding
    BY Zenon, <1>o, <2>3
  <2>6. \A c \in Commands : /\ cmd[c].completed => cmd'[c].completed
                            /\ cmd'[c].completed \/ cmd'[c].zero = cmd[c].zero
    BY Zenon, <2>4
  <2>. QED BY Zenon, <1>0, <1>q, <2>3, <2>5, <2>6
<1>6. CASE FreeHash \/ FreeCommands
  BY Zenon, <1>0, <1>6 DEF FreeHash, FreeCommands, IInv, EndsInOrder, Working
<1>7. CASE UNCHANGED <<cmd, read_queue, hash_queue, cq, updating>>
  BY Zenon, <1>0, <1>7, <1>q, <1>o
<1>8. ~(ReadFails \/ FileSpins \/ HashRefused \/ HashCallFails)
  BY Zenon DEF Working, ReadFails, FileSpins, HashRefused, HashCallFails, HashFails, WorkerFails
<1>9. \/ ReadMore \/ HashMore \/ FreeCommands \/ FreeHash \/ CompleteUpdates
      \/ FetchExtents \/ Notify \/ \E c \in Commands : UpdateDone(c)
      \/ UNCHANGED <<cmd, read_queue, hash_queue, cq, updating>>
  BY Zenon, <1>8 DEF Next, Worker, Progress, HashThreads, Main, OpenSrc, ReadDone,
     HashDone, Poll, PollFails, Drain, Hash!Read, CompletionsFail, Check, Final,
     SignalEvent, Hash!Signal, UpdateFails, Hash!UpdateFails, Signal, JoinWorker, Decide,
     Idle, appVars, queues, hashVars, vars
<1>. QED BY Zenon, <1>1, <1>2, <1>3, <1>4, <1>5, <1>6, <1>7, <1>9

\* With no update left to reap, all that the hash was fed with counts.
LEMMA NothingOutstanding ==
    ASSUME IInv, Outstanding = {}
    PROVE  Sum(OutstandingBytes, QueueDepth) = 0
<1>. DEFINE s == [i \in 0..QueueDepth |-> 0]
<1>1. Commands = 1..QueueDepth /\ QueueDepth \in Nat
  BY Zenon, BytesType
<1>2. \A c \in 1..QueueDepth : OutstandingBytes[c] = 0
  BY <1>1 DEF OutstandingBytes
<1>3. PartialSums(s, OutstandingBytes, QueueDepth)
  BY <1>1, <1>2 DEF PartialSums
<1>4. s[QueueDepth] = 0
  BY <1>1
<1>. QED BY Zenon, <1>1, <1>3, <1>4, SumIs

\* What is in flight is a read, an update or a completion.
LEMMA SomethingInFlight ==
    ASSUME IInv, Working
    PROVE  commands_in_flight = 0 <=> Reading = {} /\ updating = {} /\ cq = <<>>
<1>1. /\ Reading \in SUBSET Commands /\ updating \in SUBSET Commands
      /\ commands_in_flight = InFlight
  BY Zenon, InFlightSum DEF IInv
<1>2. PICK x \in Nat, y \in Nat, z \in Nat :
         x = Cardinality(Reading) /\ y = Cardinality(updating) /\ z = Len(cq)
  BY Zenon, InFlightSum DEF IInv
<1>3. (x = 0 <=> Reading = {}) /\ (y = 0 <=> updating = {})
  <2>1. IsFiniteSet(Reading) /\ IsFiniteSet(updating)
    BY Zenon, <1>1, CommandsFinite
  <2>. QED BY Zenon, <1>2, <2>1, FS_EmptySet
<1>4. z = 0 <=> cq = <<>>
  <2>1. cq \in Seq(Completion)
    BY DEF IInv, TypeOK, Completion
  <2>. QED BY <1>2, <2>1
<1>5. commands_in_flight = x + y + z
  BY Zenon, <1>1, <1>2 DEF InFlight
<1>6. x + y + z = 0 <=> x = 0 /\ y = 0 /\ z = 0
  OBVIOUS
<1>. QED BY Zenon, <1>3, <1>4, <1>5, <1>6

\* When hash_more_data() leaves nothing in flight, the read queue is empty and
\* there is nothing to hash, or there is more to read and a command to do so.
LEMMA NothingToWaitFor ==
    ASSUME IInv, CommandsPlaced, pc = "hash", HashNext = 0, commands_in_flight = 0
    PROVE  read_queue = <<>> /\ (bytes_hashed = ImageSize \/ CanRead)
<1>1. Working /\ Reading = {} /\ updating = {} /\ cq = <<>>
  <2>1. Working
    BY DEF Working
  <2>. QED BY Zenon, <2>1, SomethingInFlight
<1>2. Outstanding = {}
  BY <1>1 DEF Outstanding, Reported
<1>t. /\ read_queue \in Seq(Commands) /\ hash_queue \in Seq(Commands)
      /\ read_offset \in 0..ImageSize /\ bytes_hashed \in 0..ImageSize
  BY DEF IInv, TypeOK
<1>3. read_queue = <<>>
  <2>. SUFFICES ASSUME read_queue # <<>> PROVE FALSE
    OBVIOUS
  <2>1. 1 \in DOMAIN read_queue /\ read_queue[1] \in Commands
    BY <1>t
  <2>2. ~cmd[read_queue[1]].completed
    BY <2>1 DEF HashNext, Completed
  <2>3. Holds(read_queue, read_queue[1]) /\ ~Holds(hash_queue, read_queue[1])
    BY Zenon, <2>1 DEF Holds, IInv, QueuesDiffer
  <2>4. ~cmd[read_queue[1]].zero
    BY Zenon, <1>1, <2>1, <2>2, <2>3 DEF CommandsPlaced
  <2>5. read_queue[1] \in Reading
    BY Zenon, <2>1, <2>2, <2>3, <2>4, ReadingIs
  <2>. QED BY Zenon, <1>1, <2>5
<1>4. bytes_hashed = read_offset
  <2>1. bytes_hashed + 0 = hashed
    BY Zenon, <1>1, <1>2, NothingOutstanding DEF IInv, BytesCounted, Working
  <2>2. hashed = read_offset
    BY Zenon, <1>1, <1>3 DEF IInv, ImageInOrder, Working
  <2>. QED BY <1>t, <2>1, <2>2
<1>5. ASSUME read_offset < ImageSize PROVE CanRead
  <2>1. 1 \in Commands
    BY SizesAssumption DEF Commands
  <2>2. ~Holds(read_queue, 1)
    BY <1>3 DEF Holds
  <2>3. Holds(hash_queue, 1) /\ cmd[1].completed
    BY Zenon, <1>1, <1>2, <2>1, <2>2 DEF CommandsPlaced
  <2>4. Completed(hash_queue) # {}
    BY Zenon, <2>3 DEF Holds, Completed
  <2>. QED BY Zenon, <1>5, <2>4 DEF CanRead
<1>6. read_offset < ImageSize \/ read_offset = ImageSize
  BY <1>t, SizesAssumption
<1>. QED BY Zenon, <1>3, <1>4, <1>5, <1>6

\* process_image() never waits in poll() or in read() of the completion fd for
\* an event that cannot come, and never goes round its loop without a way on:
\* what the loop needs to end, whatever the order of reads, updates, signals of
\* the completion fd and failures.
THEOREM WorkerNeverStuck == Spec => []NeverWaitsForNothing
<1>1. Init => Notified /\ CommandsPlaced
  <2>. SUFFICES ASSUME Init PROVE Notified /\ CommandsPlaced
    OBVIOUS
  <2>1. pc = "open" /\ cq = <<>>
    BY Zenon DEF Init, Hash!Init
  <2>2. \A c \in Commands : cmd[c].completed
    BY DEF Init
  <2>3. \A c \in Commands : Holds(hash_queue, c)
    BY DEF Init, Holds
  <2>. QED BY Zenon, <2>1, <2>2, <2>3 DEF Notified, CommandsPlaced
<1>2. IInv /\ Notified /\ CommandsPlaced => NeverWaitsForNothing
  <2>. SUFFICES ASSUME IInv, Notified, CommandsPlaced PROVE NeverWaitsForNothing
    OBVIOUS
  <2>1. ASSUME pc = "poll" PROVE Reading # {} \/ updating # {} \/ event \/ signals > 0
    <3>1. commands_in_flight > 0 /\ Working
      BY <2>1 DEF Notified, Working
    <3>2. commands_in_flight # 0
      BY <3>1
    <3>3. Reading # {} \/ updating # {} \/ cq # <<>>
      BY Zenon, <3>1, <3>2, SomethingInFlight
    <3>. QED BY Zenon, <2>1, <3>3 DEF Notified
  <2>2. pc = "drain" => event
    BY Zenon DEF Notified
  <2>3. ASSUME AfterHash # "poll" PROVE commands_in_flight = 0
    BY <2>3 DEF AfterHash, IInv, TypeOK
  <2>. QED BY Zenon, <2>1, <2>2, <2>3, NothingToWaitFor DEF NeverWaitsForNothing
<1>. QED BY <1>1, <1>2, Invariance, NextNotified, NextCommandsPlaced, PTL DEF Spec
=============================================================================
