---------------------------- MODULE BlkHashProofs ---------------------------
(***************************************************************************)
(* Proofs about BlkHash, for every block size, message, queue size and     *)
(* batch of zero blocks.                                                   *)
(***************************************************************************)
EXTENDS BlkHash, WellFoundedInduction, TLAPS

Pending == [data : [1..BlockSize -> Byte], len : 0..BlockSize, zero : BOOLEAN]

Block == [zero : BOOLEAN, data : Seq(Byte), copy : BOOLEAN]

\* Whether data is zero is known when it was hashed.
Submission ==
    {sub \in [index : Nat, zero : BOOLEAN, data : Seq(Byte), copy : BOOLEAN,
              completed : BOOLEAN, error : Int] : sub.zero => sub.completed}

Adding == {"update", "aio_update", "zero"}

TypeOK ==
    /\ pending \in Pending
    /\ {block_index, hashed_index, len} \subseteq Nat
    /\ {error, pool_error} \subseteq Int
    /\ sq \in Seq(Submission)
    /\ outer \in Seq(Seq(Byte))
    /\ finalized \in BOOLEAN /\ copy \in BOOLEAN
    /\ pc \in {"idle", "fill", "blocks", "submit", "collect", "clear", "inflight"}
    /\ op \in Adding \cup {"none", "final"}
    /\ buf \in Seq(Byte)
    /\ block \in Block
    /\ cont \in {"idle", "blocks", "clear", "inflight"}
    /\ message \in Seq(Byte) /\ message_length = Len(message)

\* Which call is at which step, and what its arguments are there.
Control ==
    /\ pc = "idle" <=> op = "none"
    /\ pc # "idle" => (finalized <=> op = "final")
    /\ pc \in {"fill", "blocks"} => op \in Adding
    /\ pc = "inflight" => op = "final"
    /\ pc \in {"submit", "collect"} =>
          cont \in {"clear", IF op = "final" THEN "inflight" ELSE "blocks"}
    /\ op \notin {"update", "aio_update"} => buf = <<>>
    /\ op # "zero" => len = 0
    /\ op \in Adding => error = 0
    /\ op = "final" => error = 0 \/ FinalAfterError
    /\ ~finalized \/ pc # "idle" => digest = NoDigest

\* consume_pending() has taken the bytes of the pending buffer and will clear it.
Clearing == pc = "clear" \/ (pc \in {"submit", "collect"} /\ cont = "clear")

\* A data block was taken and is not counted by block_index yet.
Waiting == pc = "submit" /\ ~block.zero

\* The blocks that were taken, and the bytes before those the call still has.
Taken == block_index + (IF Waiting THEN 1 ELSE 0)
Position == Taken * BlockSize + (IF Clearing THEN 0 ELSE pending.len)

\* Every byte is in a block that was taken, is pending, or is left to the call.
Accounted ==
    error = 0 =>
        /\ ~finalized => Position + Len(buf) + len = Len(message)
        /\ finalized =>
              /\ Taken * BlockSize >= Len(message)
              /\ Taken * BlockSize < Len(message) + BlockSize
              /\ ~Clearing => pending.len = 0
        /\ ~Clearing => pending.len < BlockSize
        /\ pc \in {"blocks", "submit", "collect"} /\ ~Clearing /\ pending.len > 0 =>
              buf = <<>> /\ len = 0

\* The pending bytes p are those of the message after the first k.
Holds(p, k) ==
    \A i \in 1..p.len : message[k + i] = IF p.zero THEN 0 ELSE p.data[i]

\* The bytes are where the counters say.
Placed ==
    error = 0 =>
        /\ ~Clearing => Holds(pending, Taken * BlockSize)
        /\ \A i \in 1..Len(buf) : message[Position + i] = buf[i]
        /\ \A i \in 1..len : message[Position + i] = 0
        /\ Waiting => block.data = BlockOf(message, block_index + 1)

\* The blocks up to From(i) are covered by what is before the i-th submission.
End(sub) == sub.index + (IF sub.zero THEN 0 ELSE 1)
From(i) == IF i = 1 THEN hashed_index ELSE End(sq[i-1])

\* The submissions cover all blocks that were taken but zero blocks.
Covered ==
    error = 0 =>
        /\ hashed_index <= block_index
        /\ \A i \in DOMAIN sq : End(sq[i]) <= block_index
        /\ \A b \in From(Len(sq) + 1) + 1 .. block_index : BlockOf(message, b) = ZeroMd

\* Once blkhash_final() submitted the last block, no block is left, nor will a worker
\* find that the last one is zero.
Complete ==
    error = 0 /\ op = "final" =>
        /\ Waiting => block.copy
        /\ pc # "submit" =>
              /\ From(Len(sq) + 1) = block_index
              /\ sq # <<>> => sq[Len(sq)].zero \/ sq[Len(sq)].copy

IInv ==
    /\ TypeOK /\ Control /\ Accounted /\ Placed /\ Covered /\ Complete
    /\ OuterIsPrefix /\ QueueCoversMessage

-----------------------------------------------------------------------------
(* Sequences *)

\* Two sequences are equal when their lengths and their elements are.
LEMMA SameSequence ==
    ASSUME NEW S, NEW s \in Seq(S), NEW t \in Seq(S),
           Len(s) = Len(t), \A i \in 1..Len(s) : s[i] = t[i]
    PROVE  s = t
OBVIOUS

\* The empty sequence is the one of length 0.
LEMMA EmptySequence ==
    ASSUME NEW S
    PROVE  /\ <<>> \in Seq(S) /\ Len(<<>>) = 0
           /\ \A s \in Seq(S) : s # <<>> => Len(s) \in Nat \ {0}
OBVIOUS

\* The elements of a sequence and another after it.
LEMMA Concatenation ==
    ASSUME NEW S, NEW s \in Seq(S), NEW t \in Seq(S)
    PROVE  /\ s \o t \in Seq(S)
           /\ Len(s \o t) = Len(s) + Len(t)
           /\ \A i \in 1..Len(s) + Len(t) :
                 (s \o t)[i] = IF i <= Len(s) THEN s[i] ELSE t[i - Len(s)]
OBVIOUS

\* The elements of a sequence and one after it.
LEMMA OneMore ==
    ASSUME NEW S, NEW s \in Seq(S), NEW e \in S
    PROVE  /\ Append(s, e) \in Seq(S) /\ Append(s, e) # <<>>
           /\ Len(Append(s, e)) = Len(s) + 1
           /\ \A i \in 1..Len(s) : Append(s, e)[i] = s[i]
           /\ Append(s, e)[Len(s) + 1] = e
OBVIOUS

\* A sequence without its first element.
LEMMA HeadAndTail ==
    ASSUME NEW S, NEW s \in Seq(S), s # <<>>
    PROVE  /\ Head(s) \in S /\ Tail(s) \in Seq(S)
           /\ Len(Tail(s)) = Len(s) - 1
           /\ \A i \in 1..Len(Tail(s)) : Tail(s)[i] = s[i + 1]
OBVIOUS

\* A part of a sequence.
LEMMA PartOfSequence ==
    ASSUME NEW S, NEW s, NEW m \in Int, NEW n \in Int, \A i \in m..n : s[i] \in S
    PROVE  /\ SubSeq(s, m, n) \in Seq(S)
           /\ Len(SubSeq(s, m, n)) = IF m <= n THEN n - m + 1 ELSE 0
           /\ \A i \in 1..n - m + 1 : SubSeq(s, m, n)[i] = s[m + i - 1]
OBVIOUS

\* A sequence with one element replaced.
LEMMA ReplacedElement ==
    ASSUME NEW S, NEW s \in Seq(S), NEW i \in 1..Len(s), NEW e \in S
    PROVE  /\ [s EXCEPT ![i] = e] \in Seq(S)
           /\ Len([s EXCEPT ![i] = e]) = Len(s)
           /\ \A j \in 1..Len(s) :
                 [s EXCEPT ![i] = e][j] = IF j = i THEN e ELSE s[j]
OBVIOUS

-----------------------------------------------------------------------------
(* Bytes and blocks *)

\* A set of natural numbers has a least element.
LEMMA LeastNatural ==
    ASSUME NEW T \in SUBSET Nat, T # {}
    PROVE  \E x \in T : \A y \in T : x <= y
<1>. DEFINE R == OpToRel(<, Nat)
<1>1. IsWellFoundedOn(R, Nat)
  BY Zenon, NatLessThanWellFounded
<1>2. \A x, y \in Nat : x < y => <<x, y>> \in R
  BY DEF OpToRel
<1>. HIDE DEF R
<1>3. PICK x \in T : \A y \in T : <<y, x>> \notin R
  BY Zenon, <1>1, WFMin
<1>4. \A y \in T : ~(y < x)
  BY Zenon, <1>2, <1>3
<1>5. x \in Nat /\ \A y \in T : y \in Nat
  OBVIOUS
<1>6. \A y \in T : x <= y
  BY <1>4, <1>5
<1>. QED BY <1>6

\* is_zero() of a buffer of at least a word finds out whether all bytes are zero.
LEMMA AllZero ==
    ASSUME NEW data \in Seq(Byte), is_zero(data), Len(data) >= WordSize
    PROVE  \A i \in 1..Len(data) : data[i] = 0
<1>. DEFINE T == {i \in 1..Len(data) : data[i] # 0}
<1>1. PICK n \in Nat : n = Len(data)
  OBVIOUS
<1>2. WordSize \in Nat /\ WordSize >= 1
  BY SizesAssumption, BlockSizeAssumption
<1>3. /\ \A i \in 1..WordSize : data[i] = 0
      /\ \A i \in 1..(n - WordSize) : data[i] = data[i + WordSize]
  BY <1>1 DEF is_zero
<1>4. ASSUME T # {} PROVE FALSE
  <2>1. T \in SUBSET Nat
    BY <1>1
  <2>2. PICK x \in T : \A y \in T : x <= y
    BY Zenon, <1>4, <2>1, LeastNatural
  <2>3. x \in 1..n /\ data[x] # 0
    BY <1>1, <2>2
  <2>4. PICK w \in Nat : w = WordSize /\ w >= 1
    BY <1>2
  <2>5. x > w
    BY <1>3, <2>3, <2>4
  <2>6. x - w \in 1..(n - w) /\ (x - w) + w = x /\ ~(x <= x - w) /\ x - w \in 1..n
    BY <2>3, <2>4, <2>5
  <2>7. data[x - w] = data[x]
    BY <1>3, <2>4, <2>6
  <2>8. x - w \in T
    BY <1>1, <2>3, <2>6, <2>7
  <2>. QED BY <2>2, <2>6, <2>8
<1>. QED BY <1>4

LEMMA ZeroBytes ==
    ASSUME NEW n \in Nat
    PROVE  /\ Zeros(n) \in Seq(Byte) /\ Len(Zeros(n)) = n
           /\ \A i \in 1..n : Zeros(n)[i] = 0
BY ByteAssumption DEF Zeros

\* The next block begins where a block ends.
LEMMA NextBlock ==
    ASSUME NEW b \in Nat
    PROVE  /\ b * BlockSize \in Nat
           /\ (b + 1) * BlockSize = b * BlockSize + BlockSize
           /\ ((b + 1) - 1) * BlockSize = b * BlockSize
BY BlockSizeAssumption

LEMMA BlocksOrdered ==
    ASSUME NEW a \in Nat, NEW b \in Nat, a <= b
    PROVE  a * BlockSize <= b * BlockSize
<1>1. PICK n \in Nat : n = b - a
  OBVIOUS
<1>2. b = a + n
  BY <1>1
<1>3. (a + n) * BlockSize = a * BlockSize + n * BlockSize
  BY BlockSizeAssumption
<1>4. a * BlockSize \in Nat /\ n * BlockSize \in Nat
  BY BlockSizeAssumption
<1>. QED BY <1>2, <1>3, <1>4

\* The bytes of a message before block c.
Before(c) == (c - 1) * BlockSize

\* The part of a sequence after its first a elements.
LEMMA Part ==
    ASSUME NEW S, NEW s \in Seq(S), NEW a \in Nat, NEW z \in Nat, a <= z, z <= Len(s)
    PROVE  /\ SubSeq(s, a + 1, z) \in Seq(S)
           /\ Len(SubSeq(s, a + 1, z)) = z - a
           /\ \A i \in 1..(z - a) : SubSeq(s, a + 1, z)[i] = s[a + i]
<1>1. PICK c \in Int : c = a + 1
  OBVIOUS
<1>2. z \in Int /\ \A i \in c..z : s[i] \in S
  BY <1>1
<1>3. /\ SubSeq(s, c, z) \in Seq(S)
      /\ Len(SubSeq(s, c, z)) = IF c <= z THEN z - c + 1 ELSE 0
      /\ \A i \in 1..(z - c + 1) : SubSeq(s, c, z)[i] = s[c + i - 1]
  BY <1>2, PartOfSequence, SMT
<1>. DEFINE t == SubSeq(s, c, z)
<1>4. t \in Seq(S) /\ Len(t) = (IF c <= z THEN z - c + 1 ELSE 0)
      /\ \A i \in 1..(z - c + 1) : t[i] = s[c + i - 1]
  BY <1>3, Zenon
<1>. HIDE DEF t
<1>5. t \in Seq(S) /\ Len(t) = z - a /\ \A i \in 1..(z - a) : t[i] = s[a + i]
  <2>1. \A i \in 1..(z - a) : i \in 1..(z - c + 1) /\ c + i - 1 = a + i
    BY <1>1
  <2>. QED BY <1>1, <1>4, <2>1
<1>. QED BY <1>1, <1>5 DEF t

\* Block c, the last one of a message perhaps.
LEMMA BlockBytes ==
    ASSUME NEW m \in Seq(Byte), NEW c \in Nat \ {0}, Before(c) <= Len(m)
    PROVE  /\ BlockOf(m, c) \in Seq(Byte)
           /\ Before(c) + Len(BlockOf(m, c)) = MinOf(Before(c) + BlockSize, Len(m))
           /\ \A i \in 1..Len(BlockOf(m, c)) : BlockOf(m, c)[i] = m[Before(c) + i]
<1>1. PICK b \in Nat : b = c - 1
  OBVIOUS
<1>2. PICK k \in Nat : k = Before(c)
  BY BlockSizeAssumption DEF Before
<1>3. (c - 1) * BlockSize + 1 = k + 1 /\ c * BlockSize = k + BlockSize
  BY <1>1, <1>2, NextBlock DEF Before
<1>4. PICK z \in Nat : z = Len(m)
  OBVIOUS
<1>5. PICK n \in Nat : n = MinOf(k + BlockSize, Len(m))
  <2>1. MinOf(k + BlockSize, Len(m)) \in Nat
    BY <1>4, BlockSizeAssumption DEF MinOf
  <2>. QED BY <2>1
<1>6. BlockOf(m, c) = SubSeq(m, k + 1, n)
  BY Zenon, <1>3, <1>5 DEF BlockOf
<1>7. n <= z /\ n >= k
  BY <1>2, <1>4, <1>5, BlockSizeAssumption DEF MinOf
<1>8. /\ SubSeq(m, k + 1, n) \in Seq(Byte)
      /\ Len(SubSeq(m, k + 1, n)) = n - k
      /\ \A i \in 1..(n - k) : SubSeq(m, k + 1, n)[i] = m[k + i]
  BY <1>4, <1>7, Part
<1>9. k + (n - k) = n
  OBVIOUS
<1>. QED BY <1>2, <1>5, <1>6, <1>8, <1>9, Zenon

\* Bytes of the right number are that block.
LEMMA IsBlock ==
    ASSUME NEW m \in Seq(Byte), NEW c \in Nat \ {0}, NEW d \in Seq(Byte),
           Before(c) + Len(d) = MinOf(Before(c) + BlockSize, Len(m)),
           \A i \in 1..Len(d) : d[i] = m[Before(c) + i]
    PROVE  d = BlockOf(m, c)
<1>1. Before(c) \in Nat
  BY BlockSizeAssumption DEF Before
<1>2. Before(c) <= Len(m)
  BY <1>1, BlockSizeAssumption DEF MinOf
<1>3. /\ BlockOf(m, c) \in Seq(Byte)
      /\ Before(c) + Len(BlockOf(m, c)) = MinOf(Before(c) + BlockSize, Len(m))
      /\ \A i \in 1..Len(BlockOf(m, c)) : BlockOf(m, c)[i] = m[Before(c) + i]
  BY <1>2, BlockBytes
<1>4. Len(d) = Len(BlockOf(m, c))
  BY <1>1, <1>3
<1>5. \A i \in 1..Len(d) : d[i] = BlockOf(m, c)[i]
  BY <1>3, <1>4
<1>. QED BY <1>3, <1>4, <1>5, SameSequence

\* A full block of zeros.
LEMMA IsZeroBlock ==
    ASSUME NEW m \in Seq(Byte), NEW c \in Nat \ {0},
           Before(c) + BlockSize <= Len(m),
           \A i \in 1..BlockSize : m[Before(c) + i] = 0
    PROVE  BlockOf(m, c) = ZeroMd
<1>1. ZeroMd \in Seq(Byte) /\ Len(ZeroMd) = BlockSize /\ \A i \in 1..BlockSize : ZeroMd[i] = 0
  BY ZeroBytes, BlockSizeAssumption DEF ZeroMd
<1>2. Before(c) \in Nat
  BY BlockSizeAssumption DEF Before
<1>3. Before(c) + Len(ZeroMd) = MinOf(Before(c) + BlockSize, Len(m))
  BY <1>1, <1>2, BlockSizeAssumption DEF MinOf
<1>4. \A i \in 1..Len(ZeroMd) : ZeroMd[i] = m[Before(c) + i]
  BY <1>1
<1>. QED BY <1>1, <1>3, <1>4, IsBlock

\* Bytes that are added do not change a full block.
LEMMA BlockKept ==
    ASSUME NEW m \in Seq(Byte), NEW s \in Seq(Byte), NEW c \in Nat \ {0},
           c * BlockSize <= Len(m)
    PROVE  BlockOf(m \o s, c) = BlockOf(m, c)
<1>1. PICK k \in Nat : k = Before(c)
  BY BlockSizeAssumption DEF Before
<1>2. c * BlockSize = k + BlockSize
  <2>1. PICK b \in Nat : b = c - 1
    OBVIOUS
  <2>. QED BY <1>1, <2>1, NextBlock DEF Before
<1>. DEFINE t == m \o s
            d == BlockOf(m, c)
<1>3. /\ t \in Seq(Byte) /\ Len(t) = Len(m) + Len(s)
      /\ \A i \in 1..Len(m) : t[i] = m[i]
  BY Concatenation
<1>. HIDE DEF t
<1>4. /\ MinOf(k + BlockSize, Len(m)) = k + BlockSize
      /\ MinOf(k + BlockSize, Len(t)) = k + BlockSize
      /\ k <= Len(m)
  BY <1>2, <1>3, BlockSizeAssumption DEF MinOf
<1>5. /\ d \in Seq(Byte) /\ k + Len(d) = MinOf(k + BlockSize, Len(m))
      /\ \A i \in 1..Len(d) : d[i] = m[k + i]
  BY <1>1, <1>4, BlockBytes
<1>. HIDE DEF d
<1>6. \A i \in 1..Len(d) : k + i \in 1..Len(m)
  BY <1>2, <1>4, <1>5
<1>7. \A i \in 1..Len(d) : d[i] = t[k + i]
  BY <1>3, <1>5, <1>6
<1>8. d = BlockOf(t, c)
  <2>1. /\ Before(c) + Len(d) = MinOf(Before(c) + BlockSize, Len(t))
        /\ \A i \in 1..Len(d) : d[i] = t[Before(c) + i]
    BY Zenon, <1>1, <1>4, <1>5, <1>7
  <2>. QED BY Zenon, <1>3, <1>5, <2>1, IsBlock
<1>. QED BY <1>8 DEF d, t

-----------------------------------------------------------------------------
(* The pending buffer *)

LEMMA Stored ==
    ASSUME NEW d \in [1..BlockSize -> Byte], NEW bytes \in Seq(Byte), NEW from \in Nat,
           from + Len(bytes) <= BlockSize
    PROVE  /\ Store(d, from, bytes) \in [1..BlockSize -> Byte]
           /\ \A i \in 1..BlockSize :
                 Store(d, from, bytes)[i] = IF i > from /\ i <= from + Len(bytes)
                                            THEN bytes[i - from] ELSE d[i]
<1>1. PICK n \in Nat : n = Len(bytes)
  OBVIOUS
<1>2. BlockSize \in Nat
  BY BlockSizeAssumption
<1>3. \A i \in 1..BlockSize : i \in from + 1 .. from + n <=> i > from /\ i <= from + n
  BY <1>2
<1>4. \A i \in 1..BlockSize : i > from /\ i <= from + n => bytes[i - from] \in Byte
  <2>1. \A i \in 1..BlockSize : i > from /\ i <= from + n => i - from \in 1..n
    BY <1>2
  <2>. QED BY <1>1, <2>1
<1>. QED BY <1>1, <1>3, <1>4 DEF Store

\* add_pending_data() keeps the bytes before those it adds.
LEMMA AddsData ==
    ASSUME pending \in Pending, NEW bytes \in Seq(Byte), NEW n \in Nat, n = pending.len,
           n + Len(bytes) <= BlockSize, NEW k \in Nat, Holds(pending, k),
           \A i \in 1..Len(bytes) : message[(k + n) + i] = bytes[i],
           NEW p, p = add_pending_data(bytes)
    PROVE  /\ p \in Pending /\ p.len = n + Len(bytes) /\ p.zero = FALSE
           /\ Holds(p, k)
<1>. DEFINE old == IF pending.zero THEN Store(pending.data, 0, Zeros(n)) ELSE pending.data
            new == Store(old, n, bytes)
<1>0. /\ n \in 0..BlockSize /\ pending.data \in [1..BlockSize -> Byte]
      /\ pending.zero \in BOOLEAN /\ BlockSize \in Nat
  BY BlockSizeAssumption DEF Pending
<1>1. old \in [1..BlockSize -> Byte] /\ \A i \in 1..n : old[i] = message[k + i]
  <2>1. \A i \in 1..n : message[k + i] = IF pending.zero THEN 0 ELSE pending.data[i]
    BY DEF Holds
  <2>2. CASE pending.zero
    <3>1. Zeros(n) \in Seq(Byte) /\ Len(Zeros(n)) = n /\ \A i \in 1..n : Zeros(n)[i] = 0
      BY Zenon, ZeroBytes
    <3>. DEFINE z == Zeros(n)
    <3>2. z \in Seq(Byte) /\ Len(z) = n /\ \A i \in 1..n : z[i] = 0
      BY <3>1
    <3>. HIDE DEF z
    <3>3. /\ Store(pending.data, 0, z) \in [1..BlockSize -> Byte]
          /\ \A i \in 1..BlockSize : Store(pending.data, 0, z)[i]
                  = IF i > 0 /\ i <= 0 + Len(z) THEN z[i - 0] ELSE pending.data[i]
      <4>1. 0 \in Nat /\ 0 + Len(z) <= BlockSize
        BY <1>0, <3>2
      <4>. QED BY <1>0, <3>2, <4>1, Stored, Zenon
    <3>4. \A i \in 1..n : i \in 1..BlockSize /\ i > 0 /\ i <= 0 + n /\ i - 0 = i
      BY <1>0
    <3>5. \A i \in 1..n : Store(pending.data, 0, z)[i] = 0
      BY <3>2, <3>3, <3>4
    <3>. QED BY <2>1, <2>2, <3>3, <3>5 DEF z
  <2>3. CASE ~pending.zero
    BY <1>0, <2>1, <2>3
  <2>. QED BY Zenon, <2>2, <2>3
<1>. HIDE DEF old
<1>2. /\ new \in [1..BlockSize -> Byte]
      /\ \A i \in 1..BlockSize : new[i] = IF i > n /\ i <= n + Len(bytes)
                                          THEN bytes[i - n] ELSE old[i]
  BY <1>0, <1>1, Stored
<1>3. p = [data |-> new, len |-> n + Len(bytes), zero |-> FALSE]
  BY DEF old, add_pending_data
<1>. HIDE DEF new
<1>4. PICK m \in Nat : m = Len(bytes)
  OBVIOUS
<1>5. n + m \in 0..BlockSize
  BY <1>0, <1>4
<1>6. p \in Pending /\ p.len = n + m /\ p.zero = FALSE /\ p.data = new
  BY <1>2, <1>3, <1>4, <1>5 DEF Pending
<1>7. ASSUME NEW i \in 1..(n + m) PROVE message[k + i] = new[i]
  <2>1. i \in 1..BlockSize
    BY <1>0, <1>5
  <2>2. CASE i <= n
    BY <1>1, <1>2, <2>1, <2>2
  <2>3. CASE i > n
    <3>1. i - n \in 1..m /\ (k + n) + (i - n) = k + i /\ i <= n + m
      BY <2>3
    <3>2. new[i] = bytes[i - n]
      BY <1>2, <1>4, <2>1, <2>3, <3>1
    <3>. QED BY <1>4, <3>1, <3>2
  <2>. QED BY <2>2, <2>3
<1>. QED BY Zenon, <1>4, <1>6, <1>7 DEF Holds

\* add_pending_zeros() counts zeros, or writes them after data.
LEMMA AddsZeros ==
    ASSUME pending \in Pending, NEW m \in Nat, NEW n \in Nat, n = pending.len,
           n + m <= BlockSize, NEW k \in Nat, Holds(pending, k),
           \A i \in 1..m : message[(k + n) + i] = 0,
           NEW p, p = add_pending_zeros(m)
    PROVE  /\ p \in Pending /\ p.len = n + m
           /\ Holds(p, k)
<1>. DEFINE new == IF n > 0 /\ ~pending.zero THEN Store(pending.data, n, Zeros(m))
                   ELSE pending.data
            zero == n = 0 \/ pending.zero
<1>0. /\ n \in 0..BlockSize /\ pending.data \in [1..BlockSize -> Byte]
      /\ pending.zero \in BOOLEAN /\ BlockSize \in Nat
  BY BlockSizeAssumption DEF Pending
<1>1. \A i \in 1..n : message[k + i] = IF pending.zero THEN 0 ELSE pending.data[i]
  BY DEF Holds
<1>2. /\ new \in [1..BlockSize -> Byte]
      /\ ~zero => \A i \in 1..BlockSize : new[i] = IF i > n /\ i <= n + m THEN 0
                                                   ELSE pending.data[i]
  <2>1. Zeros(m) \in Seq(Byte) /\ Len(Zeros(m)) = m /\ \A i \in 1..m : Zeros(m)[i] = 0
    BY ZeroBytes
  <2>. DEFINE z == Zeros(m)
  <2>2. z \in Seq(Byte) /\ Len(z) = m /\ \A i \in 1..m : z[i] = 0
    BY <2>1
  <2>. HIDE DEF z
  <2>3. /\ Store(pending.data, n, z) \in [1..BlockSize -> Byte]
        /\ \A i \in 1..BlockSize : Store(pending.data, n, z)[i]
                = IF i > n /\ i <= n + Len(z) THEN z[i - n] ELSE pending.data[i]
    BY Zenon, <1>0, <2>2, Stored
  <2>4. \A i \in 1..BlockSize : i > n /\ i <= n + m => i - n \in 1..m
    BY <1>0
  <2>5. \A i \in 1..BlockSize : Store(pending.data, n, z)[i]
                = IF i > n /\ i <= n + m THEN 0 ELSE pending.data[i]
    BY <2>2, <2>3, <2>4
  <2>6. CASE n > 0 /\ ~pending.zero
    <3>1. new = Store(pending.data, n, z)
      BY Zenon, <2>6 DEF z
    <3>. QED BY Zenon, <2>3, <2>5, <3>1
  <2>7. CASE ~(n > 0 /\ ~pending.zero)
    <3>1. new = pending.data /\ zero
      BY <1>0, <2>7
    <3>. QED BY Zenon, <1>0, <3>1
  <2>. QED BY Zenon, <2>6, <2>7
<1>3. p = [data |-> new, len |-> n + m, zero |-> zero]
  BY DEF add_pending_zeros
<1>4. zero \in BOOLEAN /\ (zero <=> n = 0 \/ pending.zero)
  OBVIOUS
<1>. HIDE DEF new, zero
<1>5. n + m \in 0..BlockSize
  BY <1>0
<1>6. p \in Pending /\ p.len = n + m /\ p.zero = zero /\ p.data = new
  BY <1>2, <1>3, <1>4, <1>5 DEF Pending
<1>7. ASSUME NEW i \in 1..(n + m) PROVE message[k + i] = IF zero THEN 0 ELSE new[i]
  <2>1. i \in 1..BlockSize
    BY <1>0, <1>5
  <2>2. CASE i <= n
    BY <1>1, <1>2, <1>4, <2>1, <2>2
  <2>3. CASE i > n
    <3>1. i - n \in 1..m /\ (k + n) + (i - n) = k + i /\ i <= n + m
      BY <2>3
    <3>2. message[k + i] = 0
      BY <3>1
    <3>. QED BY <1>2, <2>1, <2>3, <3>1, <3>2
  <2>. QED BY <2>2, <2>3
<1>. QED BY <1>6, <1>7 DEF Holds

\* What consume_pending() submits.
LEMMA PendingData ==
    ASSUME NEW p \in Pending, NEW d, d = SubSeq(PendingBytes(p), 1, p.len)
    PROVE  /\ PendingBytes(p) \in [1..BlockSize -> Byte]
           /\ d \in Seq(Byte) /\ Len(d) = p.len
           /\ \A i \in 1..p.len : d[i] = IF p.zero THEN 0 ELSE p.data[i]
<1>. DEFINE b == PendingBytes(p)
<1>0. /\ p.len \in 0..BlockSize /\ p.data \in [1..BlockSize -> Byte]
      /\ p.zero \in BOOLEAN /\ BlockSize \in Nat
  BY BlockSizeAssumption DEF Pending
<1>1. PICK n \in Nat : n = p.len /\ n <= BlockSize
  BY <1>0
<1>2. b \in [1..BlockSize -> Byte] /\ \A i \in 1..n : b[i] = IF p.zero THEN 0 ELSE p.data[i]
  <2>1. CASE p.zero
    <3>. DEFINE z == Zeros(n)
    <3>1. z \in Seq(Byte) /\ Len(z) = n /\ \A i \in 1..n : z[i] = 0
      BY ZeroBytes
    <3>. HIDE DEF z
    <3>2. /\ Store(p.data, 0, z) \in [1..BlockSize -> Byte]
          /\ \A i \in 1..BlockSize : Store(p.data, 0, z)[i]
                  = IF i > 0 /\ i <= 0 + Len(z) THEN z[i - 0] ELSE p.data[i]
      <4>1. 0 \in Nat /\ 0 + Len(z) <= BlockSize
        BY <1>0, <1>1, <3>1
      <4>. QED BY <1>0, <3>1, <4>1, Stored, Zenon
    <3>3. \A i \in 1..n : i \in 1..BlockSize /\ i > 0 /\ i <= 0 + n /\ i - 0 = i
      BY <1>0, <1>1
    <3>4. \A i \in 1..n : Store(p.data, 0, z)[i] = 0
      BY <3>1, <3>2, <3>3
    <3>5. b = Store(p.data, 0, z)
      BY <1>1, <2>1 DEF z, PendingBytes
    <3>. QED BY <2>1, <3>2, <3>4, <3>5
  <2>2. CASE ~p.zero
    BY <1>0, <2>2 DEF PendingBytes
  <2>. QED BY <2>1, <2>2
<1>3. d = SubSeq(b, 0 + 1, n)
  BY <1>1
<1>. HIDE DEF b
<1>4. b \in Seq(Byte) /\ Len(b) = BlockSize
  BY <1>0, <1>2
<1>5. /\ SubSeq(b, 0 + 1, n) \in Seq(Byte) /\ Len(SubSeq(b, 0 + 1, n)) = n - 0
      /\ \A i \in 1..(n - 0) : SubSeq(b, 0 + 1, n)[i] = b[0 + i]
  BY <1>1, <1>4, Part
<1>6. n - 0 = n /\ \A i \in 1..n : 0 + i = i
  OBVIOUS
<1>7. d \in Seq(Byte) /\ Len(d) = n /\ \A i \in 1..n : d[i] = b[i]
  BY Zenon, <1>3, <1>5, <1>6
<1>. QED BY <1>1, <1>2, <1>7 DEF b

-----------------------------------------------------------------------------
(* Taking blocks *)

\* A full block that is_zero() accepts.
LEMMA ZeroData ==
    ASSUME NEW d \in Seq(Byte), is_zero_block(d)
    PROVE  d = ZeroMd
<1>1. Len(d) = BlockSize /\ is_zero(d)
  BY DEF is_zero_block
<1>2. Len(d) >= WordSize
  BY <1>1, SizesAssumption, BlockSizeAssumption
<1>3. \A i \in 1..Len(d) : d[i] = 0
  BY <1>1, <1>2, AllZero
<1>4. ZeroMd \in Seq(Byte) /\ Len(ZeroMd) = BlockSize /\ \A i \in 1..BlockSize : ZeroMd[i] = 0
  BY ZeroBytes, BlockSizeAssumption DEF ZeroMd
<1>5. \A i \in 1..Len(d) : d[i] = ZeroMd[i]
  BY <1>1, <1>3, <1>4
<1>. QED BY <1>1, <1>4, <1>5, SameSequence

\* A data block is submitted, or counted as a zero block.
LEMMA TakesData ==
    ASSUME block_index \in Nat, NEW d \in Seq(Byte), NEW cp \in BOOLEAN,
           NEW after \in {"blocks", "clear"}, consume_data_block(d, cp, after)
    PROVE  /\ pc' \in {"submit", after} /\ (pc' = "submit" => cont' = after)
           /\ block_index' \in Nat /\ Taken' = block_index + 1
           /\ \/ block_index' = block_index + 1 /\ d = ZeroMd /\ Waiting' = FALSE
              \/ block_index' = block_index /\ Waiting' = TRUE
                 /\ block'.data = d /\ block'.copy = cp
           /\ pc' = "submit" => block' \in Block
           /\ pc' # "submit" => block' = block /\ cont' = cont
<1>1. CASE cp /\ is_zero_block(d)
  <2>1. consume_zero_blocks(1, after)
    BY <1>1 DEF consume_data_block
  <2>2. /\ block_index' = block_index + 1
        /\ \/ pc' = "submit" /\ block' = ZeroBlock /\ cont' = after
           \/ pc' = after /\ block' = block /\ cont' = cont
    BY <2>1 DEF consume_zero_blocks
  <2>3. ZeroBlock \in Block /\ ZeroBlock.zero = TRUE
    BY DEF ZeroBlock, Block
  <2>4. Waiting' = FALSE
    BY <2>2, <2>3 DEF Waiting
  <2>5. d = ZeroMd
    BY <1>1, ZeroData
  <2>6. Taken' = block_index + 1 /\ block_index' \in Nat
    BY <2>2, <2>4 DEF Taken
  <2>. QED BY <2>2, <2>3, <2>4, <2>5, <2>6
<1>2. CASE ~(cp /\ is_zero_block(d))
  <2>1. pc' = "submit" /\ block' = DataBlock(d, cp) /\ cont' = after /\ block_index' = block_index
    BY <1>2 DEF consume_data_block
  <2>2. /\ DataBlock(d, cp) \in Block /\ DataBlock(d, cp).zero = FALSE
        /\ DataBlock(d, cp).data = d /\ DataBlock(d, cp).copy = cp
    BY DEF DataBlock, Block
  <2>3. Waiting' = TRUE
    BY <2>1, <2>2 DEF Waiting
  <2>. QED BY <2>1, <2>2, <2>3 DEF Taken
<1>. QED BY Zenon, <1>1, <1>2

\* Zero blocks are counted.
LEMMA TakesZeros ==
    ASSUME block_index \in Nat, NEW n \in Nat, NEW after \in {"blocks", "clear"},
           consume_zero_blocks(n, after)
    PROVE  /\ pc' \in {"submit", after} /\ (pc' = "submit" => cont' = after)
           /\ block_index' = block_index + n /\ Waiting' = FALSE /\ Taken' = block_index + n
           /\ pc' = "submit" => block' \in Block
           /\ pc' # "submit" => block' = block /\ cont' = cont
<1>1. /\ block_index' = block_index + n
      /\ \/ pc' = "submit" /\ block' = ZeroBlock /\ cont' = after
         \/ pc' = after /\ block' = block /\ cont' = cont
  BY DEF consume_zero_blocks
<1>2. ZeroBlock \in Block /\ ZeroBlock.zero = TRUE
  BY DEF ZeroBlock, Block
<1>3. Waiting' = FALSE
  BY <1>1, <1>2 DEF Waiting
<1>. QED BY <1>1, <1>2, <1>3 DEF Taken

\* The pending block is taken.
LEMMA TakesPending ==
    ASSUME block_index \in Nat, NEW p \in Pending, consume_pending(p)
    PROVE  /\ pc' \in {"submit", "clear"} /\ (pc' = "submit" => cont' = "clear")
           /\ Clearing'
           /\ pending' \in Pending /\ pending'.len = p.len
           /\ block_index' \in Nat /\ Taken' = block_index + 1
           /\ pc' = "submit" => block' \in Block
           /\ pc' # "submit" => block' = block /\ cont' = cont
           /\ \E d \in Seq(Byte) :
                 /\ Len(d) = p.len
                 /\ \A i \in 1..p.len : d[i] = IF p.zero THEN 0 ELSE p.data[i]
                 /\ \/ block_index' = block_index + 1 /\ d = ZeroMd /\ Waiting' = FALSE
                    \/ block_index' = block_index /\ Waiting' = TRUE
                       /\ block'.data = d /\ block'.copy = TRUE
<1>0. p.len \in 0..BlockSize
  BY DEF Pending
<1>. DEFINE d == SubSeq(PendingBytes(p), 1, p.len)
<1>1. /\ PendingBytes(p) \in [1..BlockSize -> Byte]
      /\ d \in Seq(Byte) /\ Len(d) = p.len
      /\ \A i \in 1..p.len : d[i] = IF p.zero THEN 0 ELSE p.data[i]
  BY Zenon, PendingData
<1>2. CASE p.len = BlockSize /\ p.zero
  <2>1. pending' = p /\ consume_zero_blocks(1, "clear")
    BY <1>2 DEF consume_pending
  <2>2. /\ pc' \in {"submit", "clear"} /\ (pc' = "submit" => cont' = "clear")
        /\ block_index' = block_index + 1 /\ Waiting' = FALSE /\ Taken' = block_index + 1
        /\ pc' = "submit" => block' \in Block
        /\ pc' # "submit" => block' = block /\ cont' = cont
    BY Zenon, <2>1, TakesZeros
  <2>3. d = ZeroMd
    <3>1. /\ ZeroMd \in Seq(Byte) /\ Len(ZeroMd) = BlockSize
          /\ \A i \in 1..BlockSize : ZeroMd[i] = 0
      BY ZeroBytes, BlockSizeAssumption DEF ZeroMd
    <3>. HIDE DEF d
    <3>2. Len(d) = Len(ZeroMd) /\ \A i \in 1..Len(d) : d[i] = ZeroMd[i]
      BY <1>1, <1>2, <3>1
    <3>. QED BY <1>1, <3>1, <3>2, SameSequence
  <2>4. Clearing'
    BY <2>2 DEF Clearing
  <2>. HIDE DEF d
  <2>. QED BY <1>1, <2>1, <2>2, <2>3, <2>4
<1>3. CASE ~(p.len = BlockSize /\ p.zero)
  <2>. HIDE DEF d
  <2>1. /\ pending' = [p EXCEPT !.data = PendingBytes(p)]
        /\ consume_data_block(d, TRUE, "clear")
    BY Zenon, <1>3 DEF consume_pending, d
  <2>2. /\ pc' \in {"submit", "clear"} /\ (pc' = "submit" => cont' = "clear")
        /\ block_index' \in Nat /\ Taken' = block_index + 1
        /\ \/ block_index' = block_index + 1 /\ d = ZeroMd /\ Waiting' = FALSE
           \/ block_index' = block_index /\ Waiting' = TRUE
              /\ block'.data = d /\ block'.copy = TRUE
        /\ pc' = "submit" => block' \in Block
        /\ pc' # "submit" => block' = block /\ cont' = cont
    BY Zenon, <1>1, <2>1, TakesData
  <2>3. pending' \in Pending /\ pending'.len = p.len
    BY <1>1, <2>1 DEF Pending
  <2>4. Clearing'
    BY <2>2 DEF Clearing
  <2>. QED BY <1>1, <2>2, <2>3, <2>4
<1>. QED BY Zenon, <1>2, <1>3

-----------------------------------------------------------------------------
(* What the queue covers *)

LEMMA SubmissionType ==
    ASSUME NEW sub \in Submission
    PROVE  /\ sub.index \in Nat /\ sub.zero \in BOOLEAN /\ sub.data \in Seq(Byte)
           /\ sub.copy \in BOOLEAN /\ sub.completed \in BOOLEAN /\ sub.error \in Int
           /\ End(sub) \in Nat /\ (sub.zero => sub.completed)
           /\ sub.zero => End(sub) = sub.index
           /\ ~sub.zero => End(sub) = sub.index + 1
BY DEF Submission, End

\* QueueCoversMessage in terms of From.
LEMMA QueueCovers ==
    QueueCoversMessage <=>
        (error = 0 =>
            \A i \in DOMAIN sq :
                /\ From(i) <= sq[i].index
                /\ \A b \in From(i) + 1 .. sq[i].index : BlockOf(message, b) = ZeroMd
                /\ ~sq[i].zero => sq[i].data = BlockOf(message, sq[i].index + 1))
BY DEF QueueCoversMessage, From, End

\* The same of the next state.
LEMMA QueueCoversNext ==
    QueueCoversMessage' <=>
        (error' = 0 =>
            \A i \in DOMAIN sq' :
                /\ From(i)' <= sq'[i].index
                /\ \A b \in From(i)' + 1 .. sq'[i].index : BlockOf(message', b) = ZeroMd
                /\ ~sq'[i].zero => sq'[i].data = BlockOf(message', sq'[i].index + 1))
BY DEF QueueCoversMessage, From, End

LEMMA FromType ==
    ASSUME TypeOK, NEW i \in 1..(Len(sq) + 1)
    PROVE  From(i) \in Nat
<1>0. sq \in Seq(Submission) /\ hashed_index \in Nat
  BY DEF TypeOK
<1>1. CASE i = 1
  BY <1>0, <1>1 DEF From
<1>2. CASE i # 1
  <2>1. i - 1 \in 1..Len(sq)
    BY <1>0, <1>2
  <2>2. sq[i - 1] \in Submission
    BY <1>0, <2>1
  <2>. QED BY <1>2, <2>2, SubmissionType DEF From
<1>. QED BY <1>1, <1>2

\* Taking blocks leaves the queue alone; zero blocks may be counted.
LEMMA CoverKept ==
    ASSUME IInv, UNCHANGED <<sq, hashed_index, message, outer, error>>,
           NEW n \in Nat, block_index' = block_index + n,
           error = 0 => \A b \in block_index + 1 .. block_index + n :
                            BlockOf(message, b) = ZeroMd
    PROVE  OuterIsPrefix' /\ QueueCoversMessage' /\ Covered'
<1>0. /\ block_index \in Nat /\ hashed_index \in Nat /\ sq \in Seq(Submission)
      /\ TypeOK /\ OuterIsPrefix /\ QueueCoversMessage /\ Covered
  BY DEF IInv, TypeOK
<1>1. OuterIsPrefix' /\ QueueCoversMessage'
  BY <1>0 DEF OuterIsPrefix, QueueCoversMessage
<1>. SUFFICES ASSUME error' = 0 PROVE Covered'
  BY <1>1 DEF Covered
<1>2. /\ hashed_index <= block_index
      /\ \A i \in DOMAIN sq : End(sq[i]) <= block_index
      /\ \A b \in From(Len(sq) + 1) + 1 .. block_index : BlockOf(message, b) = ZeroMd
  BY <1>0 DEF Covered
<1>3. \A i \in DOMAIN sq : End(sq[i]) \in Nat
  BY <1>0, SubmissionType
<1>4. hashed_index' <= block_index' /\ \A i \in DOMAIN sq' : End(sq'[i]) <= block_index'
  BY <1>0, <1>2, <1>3
<1>5. PICK f \in Nat : f = From(Len(sq) + 1)
  <2>1. Len(sq) + 1 \in 1..(Len(sq) + 1)
    BY <1>0
  <2>. QED BY <1>0, <2>1, FromType
<1>6. From(Len(sq) + 1)' = f
  BY <1>5 DEF From
<1>7. \A b \in f + 1 .. block_index' : BlockOf(message', b) = ZeroMd
  <2>. SUFFICES ASSUME NEW b \in f + 1 .. block_index + n PROVE BlockOf(message, b) = ZeroMd
    OBVIOUS
  <2>1. b \in f + 1 .. block_index \/ b \in block_index + 1 .. block_index + n
    BY <1>0
  <2>. QED BY <1>2, <1>5, <2>1
<1>. QED BY <1>4, <1>6, <1>7 DEF Covered

\* What a step does that takes the block after the first block_index.
BlockTaken(d, cp) ==
    \/ block_index' = block_index + 1 /\ d = ZeroMd /\ Waiting' = FALSE
    \/ block_index' = block_index /\ Waiting' = TRUE
       /\ block'.data = d /\ block'.copy = cp

LEMMA CoverTaken ==
    ASSUME IInv, UNCHANGED <<sq, hashed_index, message, outer, error>>,
           NEW d, d = BlockOf(message, block_index + 1), NEW cp, BlockTaken(d, cp)
    PROVE  /\ OuterIsPrefix' /\ QueueCoversMessage' /\ Covered'
           /\ Waiting' => block'.data = BlockOf(message', block_index' + 1)
<1>0. block_index \in Nat
  BY DEF IInv, TypeOK
<1>1. CASE block_index' = block_index + 1 /\ d = ZeroMd /\ Waiting' = FALSE
  <2>1. 1 \in Nat /\ \A b \in block_index + 1 .. block_index + 1 : BlockOf(message, b) = ZeroMd
    <3>1. \A b \in block_index + 1 .. block_index + 1 : b = block_index + 1
      BY <1>0
    <3>. QED BY <1>1, <3>1
  <2>2. OuterIsPrefix' /\ QueueCoversMessage' /\ Covered'
    BY <1>1, <2>1, CoverKept
  <2>. QED BY <1>1, <2>2
<1>2. CASE block_index' = block_index /\ Waiting' = TRUE /\ block'.data = d
  <2>1. 0 \in Nat /\ block_index' = block_index + 0
        /\ \A b \in block_index + 1 .. block_index + 0 : BlockOf(message, b) = ZeroMd
    BY <1>0, <1>2
  <2>2. OuterIsPrefix' /\ QueueCoversMessage' /\ Covered'
    BY <2>1, CoverKept
  <2>. QED BY <1>2, <2>2
<1>. QED BY Zenon, <1>1, <1>2 DEF BlockTaken

\* Nothing is taken.
LEMMA CoverSame ==
    ASSUME IInv, UNCHANGED <<sq, hashed_index, message, outer, error, block_index>>
    PROVE  OuterIsPrefix' /\ QueueCoversMessage' /\ Covered'
<1>0. block_index \in Nat
  BY DEF IInv, TypeOK
<1>1. 0 \in Nat /\ block_index' = block_index + 0
      /\ \A b \in block_index + 1 .. block_index + 0 : BlockOf(message, b) = ZeroMd
  BY <1>0
<1>. QED BY <1>1, CoverKept

\* The bytes that d holds are the block after the first block_index.
LEMMA NextBlockIs ==
    ASSUME TypeOK, NEW k \in Nat, k = block_index * BlockSize, NEW d \in Seq(Byte),
           k + Len(d) = MinOf(k + BlockSize, Len(message)),
           \A i \in 1..Len(d) : d[i] = message[k + i]
    PROVE  d = BlockOf(message, block_index + 1)
<1>0. block_index \in Nat /\ message \in Seq(Byte)
  BY DEF TypeOK
<1>1. PICK c \in Nat \ {0} : c = block_index + 1
  BY <1>0
<1>2. Before(c) = k
  BY <1>0, <1>1 DEF Before
<1>3. /\ Before(c) + Len(d) = MinOf(Before(c) + BlockSize, Len(message))
      /\ \A i \in 1..Len(d) : d[i] = message[Before(c) + i]
  BY <1>2
<1>4. d = BlockOf(message, c)
  BY <1>0, <1>3, IsBlock
<1>. QED BY <1>1, <1>4

\* consume_pending() of bytes that are the next of the message.
LEMMA PendingTaken ==
    ASSUME IInv, UNCHANGED <<sq, hashed_index, message, outer, error>>,
           NEW k \in Nat, k = block_index * BlockSize, NEW p \in Pending,
           error = 0 => /\ k + p.len = MinOf(k + BlockSize, Len(message))
                        /\ Holds(p, k),
           consume_pending(p)
    PROVE  /\ pc' \in {"submit", "clear"} /\ (pc' = "submit" => cont' = "clear")
           /\ Clearing' /\ Taken' = block_index + 1
           /\ pending' \in Pending /\ block_index' \in Nat
           /\ pc' = "submit" => block' \in Block
           /\ pc' # "submit" => block' = block /\ cont' = cont
           /\ p.len # BlockSize => pc' = "submit" /\ Waiting'
           /\ Waiting' => block'.copy = TRUE
           /\ OuterIsPrefix' /\ QueueCoversMessage' /\ Covered'
           /\ error = 0 /\ Waiting' => block'.data = BlockOf(message', block_index' + 1)
<1>0. block_index \in Nat /\ TypeOK /\ p.len \in Nat
  BY BlockSizeAssumption DEF IInv, TypeOK, Pending
<1>1. PICK d \in Seq(Byte) :
          /\ Len(d) = p.len
          /\ \A i \in 1..p.len : d[i] = IF p.zero THEN 0 ELSE p.data[i]
          /\ BlockTaken(d, TRUE)
  BY Zenon, <1>0, TakesPending DEF BlockTaken
<1>2. /\ pc' \in {"submit", "clear"} /\ (pc' = "submit" => cont' = "clear")
      /\ Clearing' /\ Taken' = block_index + 1
      /\ pending' \in Pending /\ block_index' \in Nat
      /\ pc' = "submit" => block' \in Block
      /\ pc' # "submit" => block' = block /\ cont' = cont
  BY Zenon, <1>0, TakesPending
<1>3. p.len # BlockSize => pc' = "submit" /\ Waiting'
  <2>1. Len(ZeroMd) = BlockSize
    BY ZeroBytes, BlockSizeAssumption DEF ZeroMd
  <2>2. p.len # BlockSize => d # ZeroMd
    BY <1>1, <2>1
  <2>. QED BY <1>1, <2>2 DEF BlockTaken, Waiting
<1>4. Waiting' => block'.copy = TRUE
  BY <1>1 DEF BlockTaken
<1>5. CASE error = 0
  <2>1. k + Len(d) = MinOf(k + BlockSize, Len(message))
    BY <1>1, <1>5
  <2>2. \A i \in 1..Len(d) : d[i] = message[k + i]
    BY <1>1, <1>5 DEF Holds
  <2>3. d = BlockOf(message, block_index + 1)
    BY <1>0, <2>1, <2>2, NextBlockIs
  <2>4. /\ OuterIsPrefix' /\ QueueCoversMessage' /\ Covered'
        /\ Waiting' => block'.data = BlockOf(message', block_index' + 1)
    BY Zenon, <1>1, <2>3, CoverTaken
  <2>. QED BY <1>2, <1>3, <1>4, <2>4
<1>6. CASE error # 0
  <2>1. OuterIsPrefix' /\ QueueCoversMessage' /\ Covered'
    BY <1>6 DEF OuterIsPrefix, QueueCoversMessage, Covered
  <2>. QED BY <1>2, <1>3, <1>4, <1>6, <2>1
<1>. QED BY Zenon, <1>5, <1>6

\* What holds of a call that adds bytes while it has no data block to submit.
LEMMA InCall ==
    ASSUME IInv, pc \in {"fill", "blocks"}
    PROVE  /\ error = 0 /\ finalized = FALSE /\ ~Clearing /\ Waiting = FALSE
           /\ op \in Adding /\ Taken = block_index
           /\ pending.len \in Nat /\ pending.len < BlockSize
           /\ Position = block_index * BlockSize + pending.len
           /\ block_index * BlockSize \in Nat
           /\ block_index * BlockSize + pending.len + Len(buf) + len = Len(message)
           /\ Holds(pending, block_index * BlockSize)
           /\ pc = "blocks" /\ pending.len > 0 => buf = <<>> /\ len = 0
<1>0. /\ TypeOK /\ Control /\ Accounted /\ Placed
      /\ block_index \in Nat /\ finalized \in BOOLEAN /\ pending.len \in Nat
  BY BlockSizeAssumption DEF IInv, TypeOK, Pending
<1>1. error = 0 /\ op \in Adding
  BY <1>0 DEF Control
<1>2. finalized = FALSE
  BY <1>0, <1>1 DEF Control, Adding
<1>3. ~Clearing /\ Waiting = FALSE
  BY DEF Clearing, Waiting
<1>4. Taken = block_index
  BY <1>0, <1>3 DEF Taken
<1>5. Position = block_index * BlockSize + pending.len
  BY <1>3, <1>4 DEF Position
<1>6. block_index * BlockSize \in Nat
  BY <1>0, NextBlock
<1>7. /\ Position + Len(buf) + len = Len(message)
      /\ pending.len < BlockSize
      /\ pc = "blocks" /\ pending.len > 0 => buf = <<>> /\ len = 0
  BY <1>0, <1>1, <1>2, <1>3 DEF Accounted
<1>8. Holds(pending, block_index * BlockSize)
  BY <1>0, <1>1, <1>3, <1>4 DEF Placed
<1>. QED BY <1>0, <1>1, <1>2, <1>3, <1>4, <1>5, <1>6, <1>7, <1>8

-----------------------------------------------------------------------------
(* The steps that cut the message into blocks *)

\* What these steps keep.
Cut == Accounted /\ Placed /\ Covered /\ Complete /\ OuterIsPrefix /\ QueueCoversMessage

CutTypes ==
    /\ pending \in Pending /\ block_index \in Nat /\ block \in Block
    /\ buf \in Seq(Byte) /\ len \in Nat

\* The counters after a step of a call that took the pending bytes: k bytes are
\* in blocks, the last b are left.
LEMMA AfterTaking ==
    ASSUME error' = 0, finalized' = FALSE, op' \in Adding, Clearing',
           NEW k \in Nat, k = Taken' * BlockSize,
           k + Len(buf') + len' = Len(message'),
           \A i \in 1..Len(buf') : message'[k + i] = buf'[i],
           \A i \in 1..len' : message'[k + i] = 0,
           Waiting' => block'.data = BlockOf(message', block_index' + 1)
    PROVE  Accounted' /\ Placed' /\ Complete'
<1>1. Position' = k
  BY DEF Position
<1>2. op' # "final"
  BY DEF Adding
<1>. QED BY <1>1, <1>2 DEF Accounted, Placed, Complete

\* The counters after a step that leaves n bytes pending.
LEMMA AfterPending ==
    ASSUME error' = 0, finalized' = FALSE, op' \in Adding \cup {"none"}, ~Clearing',
           NEW k \in Nat, k = Taken' * BlockSize, NEW n \in Nat, n = pending'.len,
           n < BlockSize, Holds(pending, k)',
           k + n + Len(buf') + len' = Len(message'),
           n > 0 => pc' = "fill" \/ (buf' = <<>> /\ len' = 0),
           \A i \in 1..Len(buf') : message'[(k + n) + i] = buf'[i],
           \A i \in 1..len' : message'[(k + n) + i] = 0,
           Waiting' => block'.data = BlockOf(message', block_index' + 1)
    PROVE  Accounted' /\ Placed' /\ Complete'
<1>1. Position' = k + n
  BY DEF Position
<1>2. op' # "final"
  BY DEF Adding
<1>3. Holds(pending, Taken * BlockSize)'
  BY DEF Holds
<1>. QED BY <1>1, <1>2, <1>3 DEF Accounted, Placed, Complete

LEMMA NextFillData == IInv /\ FillData => Cut' /\ CutTypes'
<1>. SUFFICES ASSUME IInv, FillData PROVE Cut' /\ CutTypes'
  OBVIOUS
<1>0. /\ TypeOK /\ Control /\ pending \in Pending /\ block_index \in Nat
      /\ block \in Block /\ buf \in Seq(Byte) /\ len \in Nat /\ BlockSize \in Nat
  BY BlockSizeAssumption DEF IInv, TypeOK
<1>1. /\ pc = "fill" /\ op \in {"update", "aio_update"} /\ op' = op
      /\ UNCHANGED <<sq, hashed_index, message, outer, error>>
      /\ finalized' = finalized /\ len' = len
  BY DEF FillData
<1>2. /\ error = 0 /\ finalized = FALSE /\ ~Clearing /\ Waiting = FALSE
      /\ Taken = block_index /\ pending.len \in Nat /\ pending.len < BlockSize
      /\ Position = block_index * BlockSize + pending.len
      /\ block_index * BlockSize \in Nat
      /\ block_index * BlockSize + pending.len + Len(buf) + len = Len(message)
      /\ Holds(pending, block_index * BlockSize)
  BY <1>1, InCall
<1>3. len = 0
  BY <1>0, <1>1 DEF Control
<1>4. PICK k \in Nat : k = block_index * BlockSize
  BY <1>2
<1>5. PICK m \in Nat : m = pending.len
  BY <1>2
<1>6. PICK l \in Nat : l = Len(buf)
  BY <1>0
<1>7. PICK z \in Nat : z = Len(message)
  BY <1>0 DEF TypeOK
<1>8. k + m + l = z /\ m < BlockSize
  BY <1>2, <1>3, <1>4, <1>5, <1>6, <1>7
<1>9. \A i \in 1..l : message[(k + m) + i] = buf[i]
  BY <1>2, <1>4, <1>5, <1>6 DEF IInv, Placed
<1>. DEFINE nn == MinOf(Len(buf), Room)
<1>10. nn \in Nat /\ nn = MinOf(l, BlockSize - m)
  BY <1>0, <1>5, <1>6, <1>8 DEF MinOf, Room
<1>11. PICK n \in Nat : n = nn
  BY <1>10
<1>. HIDE DEF nn
<1>12. n <= l /\ m + n <= BlockSize /\ (m + n # BlockSize => n = l)
  BY <1>0, <1>8, <1>10, <1>11 DEF MinOf
<1>. DEFINE bytes == SubSeq(buf, 1, n)
            p == add_pending_data(bytes)
<1>13. bytes \in Seq(Byte) /\ Len(bytes) = n /\ \A i \in 1..n : bytes[i] = buf[i]
  <2>1. /\ SubSeq(buf, 0 + 1, n) \in Seq(Byte) /\ Len(SubSeq(buf, 0 + 1, n)) = n - 0
        /\ \A i \in 1..(n - 0) : SubSeq(buf, 0 + 1, n)[i] = buf[0 + i]
    BY <1>0, <1>6, <1>12, Part
  <2>2. 0 + 1 = 1 /\ n - 0 = n /\ \A i \in 1..n : 0 + i = i
    OBVIOUS
  <2>. QED BY <2>1, <2>2
<1>14. /\ buf' \in Seq(Byte) /\ Len(buf') = l - n /\ \A i \in 1..(l - n) : buf'[i] = buf[n + i]
  <2>1. buf' = SubSeq(buf, n + 1, l)
    BY <1>6, <1>11 DEF FillData, nn
  <2>. QED BY <1>0, <1>6, <1>12, <2>1, Part
<1>15. IF p.len = BlockSize THEN consume_pending(p)
       ELSE pending' = p /\ pc' = "blocks" /\ UNCHANGED <<block, cont, block_index>>
  BY <1>11 DEF FillData, nn
<1>16. p \in Pending /\ p.len = m + n /\ Holds(p, k)
  <2>. DEFINE bb == bytes
  <2>1. /\ bb \in Seq(Byte) /\ m + Len(bb) <= BlockSize
        /\ \A i \in 1..Len(bb) : message[(k + m) + i] = bb[i]
    BY <1>9, <1>12, <1>13
  <2>2. p = add_pending_data(bb)
    OBVIOUS
  <2>. HIDE DEF bb, p, bytes
  <2>3. pending \in Pending /\ m = pending.len /\ Holds(pending, k)
    BY <1>0, <1>2, <1>4, <1>5
  <2>4. p \in Pending /\ p.len = m + Len(bb) /\ Holds(p, k)
    BY Zenon, <2>1, <2>2, <2>3, AddsData
  <2>. QED BY <1>13, <2>4 DEF bb
<1>. HIDE DEF p, bytes
<1>17. \A i \in 1..(l - n) : message'[((k + m) + n) + i] = buf'[i]
  <2>. SUFFICES ASSUME NEW i \in 1..(l - n)
                PROVE  message[((k + m) + n) + i] = buf'[i]
    BY <1>1
  <2>1. n + i \in 1..l /\ (k + m) + (n + i) = ((k + m) + n) + i
    BY <1>12
  <2>2. message[(k + m) + (n + i)] = buf[n + i]
    BY <1>9, <2>1
  <2>. QED BY <1>14, <2>1, <2>2
<1>18. CASE p.len = BlockSize
  <2>1. consume_pending(p)
    BY <1>15, <1>18
  <2>2. k + p.len = MinOf(k + BlockSize, Len(message))
    BY <1>0, <1>7, <1>8, <1>12, <1>16, <1>18 DEF MinOf
  <2>3. /\ Clearing' /\ Taken' = block_index + 1
        /\ pending' \in Pending /\ block_index' \in Nat
        /\ pc' = "submit" => block' \in Block
        /\ pc' # "submit" => block' = block
        /\ OuterIsPrefix' /\ QueueCoversMessage' /\ Covered'
        /\ Waiting' => block'.data = BlockOf(message', block_index' + 1)
    BY Zenon, <1>1, <1>2, <1>4, <1>16, <2>1, <2>2, PendingTaken
  <2>4. PICK q \in Nat : q = k + BlockSize
    BY <1>0
  <2>5. q = Taken' * BlockSize /\ q = (k + m) + n
    BY <1>0, <1>4, <1>16, <1>18, <2>3, <2>4, NextBlock
  <2>6. q + Len(buf') + len' = Len(message')
    BY <1>1, <1>3, <1>7, <1>8, <1>12, <1>14, <2>5
  <2>7. \A i \in 1..Len(buf') : message'[q + i] = buf'[i]
    BY Zenon, <1>14, <1>17, <2>5
  <2>8. \A i \in 1..len' : message'[q + i] = 0
    BY <1>1, <1>3
  <2>9. error' = 0 /\ finalized' = FALSE /\ op' \in Adding
    BY <1>1, <1>2 DEF Adding
  <2>10. Accounted' /\ Placed' /\ Complete'
    BY Zenon, <2>3, <2>5, <2>6, <2>7, <2>8, <2>9, AfterTaking
  <2>. QED BY <1>0, <1>1, <1>14, <2>3, <2>10 DEF Cut, CutTypes
<1>19. CASE p.len # BlockSize
  <2>1. /\ pending' = p /\ pc' = "blocks" /\ block' = block /\ block_index' = block_index
    BY <1>15, <1>19
  <2>2. n = l /\ m + n < BlockSize
    BY <1>0, <1>12, <1>16, <1>19
  <2>3. ~Clearing' /\ Waiting' = FALSE /\ Taken' = block_index
    BY <1>0, <2>1 DEF Clearing, Waiting, Taken
  <2>4. OuterIsPrefix' /\ QueueCoversMessage' /\ Covered'
    BY <1>1, <2>1, CoverSame
  <2>5. Len(buf') = 0 /\ buf' = <<>>
    BY <1>14, <2>2
  <2>6. Holds(pending, k)'
    BY <1>1, <1>16, <2>1 DEF Holds
  <2>7. PICK q \in Nat : q = m + n
    OBVIOUS
  <2>8. /\ q = pending'.len /\ q < BlockSize /\ k = Taken' * BlockSize
        /\ k + q + Len(buf') + len' = Len(message')
    BY <1>1, <1>3, <1>4, <1>7, <1>8, <1>16, <2>1, <2>2, <2>3, <2>5, <2>7
  <2>9. /\ \A i \in 1..Len(buf') : message'[(k + q) + i] = buf'[i]
        /\ \A i \in 1..len' : message'[(k + q) + i] = 0
    BY <1>1, <1>3, <2>5
  <2>10. error' = 0 /\ finalized' = FALSE /\ op' \in Adding /\ len' = 0
    BY <1>1, <1>2, <1>3 DEF Adding
  <2>11. Accounted' /\ Placed' /\ Complete'
    BY Zenon, <2>3, <2>5, <2>6, <2>8, <2>9, <2>10, AfterPending
  <2>. QED BY <1>0, <1>1, <1>14, <1>16, <2>1, <2>4, <2>11 DEF Cut, CutTypes
<1>. QED BY <1>18, <1>19

LEMMA NextFillZeros == IInv /\ FillZeros => Cut' /\ CutTypes'
<1>. SUFFICES ASSUME IInv, FillZeros PROVE Cut' /\ CutTypes'
  OBVIOUS
<1>0. /\ TypeOK /\ Control /\ pending \in Pending /\ block_index \in Nat
      /\ block \in Block /\ buf \in Seq(Byte) /\ len \in Nat /\ BlockSize \in Nat
  BY BlockSizeAssumption DEF IInv, TypeOK
<1>1. /\ pc = "fill" /\ op = "zero" /\ op' = op
      /\ UNCHANGED <<sq, hashed_index, message, outer, error>>
      /\ finalized' = finalized /\ buf' = buf
  BY DEF FillZeros
<1>2. /\ error = 0 /\ finalized = FALSE /\ ~Clearing /\ Waiting = FALSE
      /\ Taken = block_index /\ pending.len \in Nat /\ pending.len < BlockSize
      /\ Position = block_index * BlockSize + pending.len
      /\ block_index * BlockSize \in Nat
      /\ block_index * BlockSize + pending.len + Len(buf) + len = Len(message)
      /\ Holds(pending, block_index * BlockSize)
  BY <1>1, InCall
<1>3. buf = <<>> /\ Len(buf) = 0
  BY <1>0, <1>1 DEF Control
<1>4. PICK k \in Nat : k = block_index * BlockSize
  BY <1>2
<1>5. PICK m \in Nat : m = pending.len
  BY <1>2
<1>6. PICK l \in Nat : l = len
  BY <1>0
<1>7. PICK z \in Nat : z = Len(message)
  BY <1>0 DEF TypeOK
<1>8. k + m + l = z /\ m < BlockSize
  BY <1>2, <1>3, <1>4, <1>5, <1>6, <1>7
<1>9. \A i \in 1..l : message[(k + m) + i] = 0
  BY <1>2, <1>4, <1>5, <1>6 DEF IInv, Placed
<1>. DEFINE nn == MinOf(len, Room)
<1>10. nn \in Nat /\ nn = MinOf(l, BlockSize - m)
  BY <1>0, <1>5, <1>6, <1>8 DEF MinOf, Room
<1>11. PICK n \in Nat : n = nn
  BY <1>10
<1>. HIDE DEF nn
<1>12. n <= l /\ m + n <= BlockSize /\ (m + n # BlockSize => n = l)
  BY <1>0, <1>8, <1>10, <1>11 DEF MinOf
<1>. DEFINE p == add_pending_zeros(n)
<1>14. len' = l - n /\ len' \in Nat
  <2>1. len' = len - nn
    BY DEF FillZeros, nn
  <2>. QED BY <1>6, <1>11, <1>12, <2>1
<1>15. IF p.len = BlockSize THEN consume_pending(p)
       ELSE pending' = p /\ pc' = "blocks" /\ UNCHANGED <<block, cont, block_index>>
  BY <1>11 DEF FillZeros, nn
<1>16. p \in Pending /\ p.len = m + n /\ Holds(p, k)
  <2>1. m + n <= BlockSize /\ \A i \in 1..n : message[(k + m) + i] = 0
    BY <1>9, <1>12
  <2>2. p = add_pending_zeros(n)
    OBVIOUS
  <2>. HIDE DEF p
  <2>. QED BY Zenon, <1>0, <1>2, <1>4, <1>5, <2>1, <2>2, AddsZeros
<1>. HIDE DEF p
<1>17. \A i \in 1..(l - n) : message'[((k + m) + n) + i] = 0
  <2>. SUFFICES ASSUME NEW i \in 1..(l - n)
                PROVE  message[((k + m) + n) + i] = 0
    BY <1>1
  <2>1. n + i \in 1..l /\ (k + m) + (n + i) = ((k + m) + n) + i
    BY <1>12
  <2>. QED BY <1>9, <2>1
<1>18. CASE p.len = BlockSize
  <2>1. consume_pending(p)
    BY <1>15, <1>18
  <2>2. k + p.len = MinOf(k + BlockSize, Len(message))
    BY <1>0, <1>7, <1>8, <1>12, <1>16, <1>18 DEF MinOf
  <2>3. /\ Clearing' /\ Taken' = block_index + 1
        /\ pending' \in Pending /\ block_index' \in Nat
        /\ pc' = "submit" => block' \in Block
        /\ pc' # "submit" => block' = block
        /\ OuterIsPrefix' /\ QueueCoversMessage' /\ Covered'
        /\ Waiting' => block'.data = BlockOf(message', block_index' + 1)
    BY Zenon, <1>1, <1>2, <1>4, <1>16, <2>1, <2>2, PendingTaken
  <2>4. PICK q \in Nat : q = k + BlockSize
    BY <1>0
  <2>5. q = Taken' * BlockSize /\ q = (k + m) + n
    BY <1>0, <1>4, <1>16, <1>18, <2>3, <2>4, NextBlock
  <2>6. q + Len(buf') + len' = Len(message')
    BY <1>1, <1>3, <1>7, <1>8, <1>12, <1>14, <2>5
  <2>7. \A i \in 1..Len(buf') : message'[q + i] = buf'[i]
    BY <1>1, <1>3
  <2>8. \A i \in 1..len' : message'[q + i] = 0
    BY Zenon, <1>14, <1>17, <2>5
  <2>9. error' = 0 /\ finalized' = FALSE /\ op' \in Adding
    BY <1>1, <1>2 DEF Adding
  <2>10. Accounted' /\ Placed' /\ Complete'
    BY Zenon, <2>3, <2>5, <2>6, <2>7, <2>8, <2>9, AfterTaking
  <2>. QED BY <1>0, <1>1, <1>14, <2>3, <2>10 DEF Cut, CutTypes
<1>19. CASE p.len # BlockSize
  <2>1. /\ pending' = p /\ pc' = "blocks" /\ block' = block /\ block_index' = block_index
    BY <1>15, <1>19
  <2>2. n = l /\ m + n < BlockSize
    BY <1>0, <1>12, <1>16, <1>19
  <2>3. ~Clearing' /\ Waiting' = FALSE /\ Taken' = block_index
    BY <1>0, <2>1 DEF Clearing, Waiting, Taken
  <2>4. OuterIsPrefix' /\ QueueCoversMessage' /\ Covered'
    BY <1>1, <2>1, CoverSame
  <2>5. Len(buf') = 0 /\ buf' = <<>> /\ len' = 0
    BY <1>1, <1>3, <1>14, <2>2
  <2>6. Holds(pending, k)'
    BY <1>1, <1>16, <2>1 DEF Holds
  <2>7. PICK q \in Nat : q = m + n
    OBVIOUS
  <2>8. /\ q = pending'.len /\ q < BlockSize /\ k = Taken' * BlockSize
        /\ k + q + Len(buf') + len' = Len(message')
    BY <1>1, <1>3, <1>4, <1>7, <1>8, <1>16, <2>1, <2>2, <2>3, <2>5, <2>7
  <2>9. /\ \A i \in 1..Len(buf') : message'[(k + q) + i] = buf'[i]
        /\ \A i \in 1..len' : message'[(k + q) + i] = 0
    BY <1>1, <1>3, <2>5
  <2>10. error' = 0 /\ finalized' = FALSE /\ op' \in Adding
    BY <1>1, <1>2 DEF Adding
  <2>11. Accounted' /\ Placed' /\ Complete'
    BY Zenon, <2>3, <2>5, <2>6, <2>8, <2>9, <2>10, AfterPending
  <2>. QED BY Zenon, <1>0, <1>1, <1>14, <1>16, <2>1, <2>4, <2>11 DEF Cut, CutTypes
<1>. QED BY <1>18, <1>19

LEMMA NextDataBlocks == IInv /\ DataBlocks => Cut' /\ CutTypes'
<1>. SUFFICES ASSUME IInv, DataBlocks PROVE Cut' /\ CutTypes'
  OBVIOUS
<1>0. /\ TypeOK /\ Control /\ pending \in Pending /\ block_index \in Nat
      /\ block \in Block /\ buf \in Seq(Byte) /\ len \in Nat /\ copy \in BOOLEAN
      /\ BlockSize \in Nat /\ BlockSize > 0
  BY BlockSizeAssumption DEF IInv, TypeOK
<1>1. /\ pc = "blocks" /\ Len(buf) >= BlockSize /\ op' = op
      /\ UNCHANGED <<sq, hashed_index, message, outer, error>>
      /\ finalized' = finalized /\ len' = len /\ pending' = pending
      /\ buf' = SubSeq(buf, BlockSize + 1, Len(buf))
      /\ consume_data_block(SubSeq(buf, 1, BlockSize), copy, "blocks")
  BY DEF DataBlocks
<1>2. /\ error = 0 /\ finalized = FALSE /\ op \in Adding
      /\ pending.len \in Nat
      /\ Position = block_index * BlockSize + pending.len
      /\ block_index * BlockSize \in Nat
      /\ block_index * BlockSize + pending.len + Len(buf) + len = Len(message)
      /\ pending.len > 0 => buf = <<>> /\ len = 0
  BY <1>1, InCall
<1>3. pending.len = 0 /\ len = 0
  <2>1. buf # <<>>
    BY <1>0, <1>1
  <2>. QED BY <1>0, <1>2, <2>1 DEF Control, Adding
<1>4. PICK k \in Nat : k = block_index * BlockSize
  BY <1>2
<1>5. PICK l \in Nat : l = Len(buf)
  BY <1>0
<1>6. k + l = Len(message) /\ l >= BlockSize /\ Position = k
  BY <1>1, <1>2, <1>3, <1>4, <1>5
<1>7. \A i \in 1..l : message[k + i] = buf[i]
  BY Zenon, <1>2, <1>5, <1>6 DEF IInv, Placed
<1>. DEFINE d == SubSeq(buf, 1, BlockSize)
<1>8. d \in Seq(Byte) /\ Len(d) = BlockSize /\ \A i \in 1..BlockSize : d[i] = buf[i]
  <2>1. /\ SubSeq(buf, 0 + 1, BlockSize) \in Seq(Byte)
        /\ Len(SubSeq(buf, 0 + 1, BlockSize)) = BlockSize - 0
        /\ \A i \in 1..(BlockSize - 0) : SubSeq(buf, 0 + 1, BlockSize)[i] = buf[0 + i]
    BY <1>0, <1>5, <1>6, Part
  <2>2. 0 + 1 = 1 /\ BlockSize - 0 = BlockSize /\ \A i \in 1..BlockSize : 0 + i = i
    BY <1>0
  <2>. QED BY <2>1, <2>2
<1>9. /\ buf' \in Seq(Byte) /\ Len(buf') = l - BlockSize
      /\ \A i \in 1..(l - BlockSize) : buf'[i] = buf[BlockSize + i]
  <2>1. buf \in Seq(Byte) /\ BlockSize \in Nat /\ l <= Len(buf) /\ BlockSize <= l
    BY <1>0, <1>5, <1>6
  <2>2. /\ SubSeq(buf, BlockSize + 1, l) \in Seq(Byte)
        /\ Len(SubSeq(buf, BlockSize + 1, l)) = l - BlockSize
        /\ \A i \in 1..(l - BlockSize) : SubSeq(buf, BlockSize + 1, l)[i] = buf[BlockSize + i]
    BY Zenon, <2>1, Part
  <2>3. buf' = SubSeq(buf, BlockSize + 1, l)
    BY Zenon, <1>1, <1>5
  <2>. QED BY Zenon, <2>2, <2>3
<1>10. consume_data_block(d, copy, "blocks")
  BY <1>1
<1>. HIDE DEF d
<1>11. /\ pc' \in {"submit", "blocks"} /\ (pc' = "submit" => cont' = "blocks")
       /\ block_index' \in Nat /\ Taken' = block_index + 1
       /\ BlockTaken(d, copy)
       /\ pc' = "submit" => block' \in Block
       /\ pc' # "submit" => block' = block
  BY Zenon, <1>0, <1>8, <1>10, TakesData DEF BlockTaken
<1>12. d = BlockOf(message, block_index + 1)
  <2>1. k + Len(d) = MinOf(k + BlockSize, Len(message))
    BY <1>0, <1>6, <1>8 DEF MinOf
  <2>2. \A i \in 1..Len(d) : d[i] = message[k + i]
    BY <1>0, <1>6, <1>7, <1>8
  <2>. QED BY Zenon, <1>0, <1>4, <1>8, <2>1, <2>2, NextBlockIs
<1>13. /\ OuterIsPrefix' /\ QueueCoversMessage' /\ Covered'
       /\ Waiting' => block'.data = BlockOf(message', block_index' + 1)
  BY <1>1, <1>11, <1>12, CoverTaken
<1>14. PICK q \in Nat : q = k + BlockSize
  BY <1>0
<1>15. q = Taken' * BlockSize /\ ~Clearing'
  <2>1. q = Taken' * BlockSize
    BY <1>0, <1>4, <1>11, <1>14, NextBlock
  <2>. QED BY <1>11, <2>1 DEF Clearing
<1>16. PICK n \in Nat : n = 0
  OBVIOUS
<1>17. /\ n = pending'.len /\ n < BlockSize /\ (n > 0 => buf' = <<>> /\ len' = 0)
       /\ Holds(pending, q)' /\ \A i \in 1..len' : message'[(q + n) + i] = 0
       /\ q + n + Len(buf') + len' = Len(message')
  <2>1. pending'.len = 0 /\ len' = 0 /\ message' = message
    BY <1>1, <1>3
  <2>2. q + n + (l - BlockSize) + 0 = k + l
    BY <1>0, <1>14, <1>16
  <2>3. q + n + Len(buf') + len' = Len(message')
    BY <1>6, <1>9, <2>1, <2>2
  <2>4. Holds(pending, q)'
    BY <2>1 DEF Holds
  <2>. QED BY <1>0, <1>16, <2>1, <2>3, <2>4
<1>18. \A i \in 1..Len(buf') : message'[(q + n) + i] = buf'[i]
  <2>. SUFFICES ASSUME NEW i \in 1..(l - BlockSize) PROVE message[(q + n) + i] = buf'[i]
    BY <1>1, <1>9
  <2>1. BlockSize + i \in 1..l /\ k + (BlockSize + i) = (q + n) + i
    BY <1>0, <1>14, <1>16
  <2>2. message[k + (BlockSize + i)] = buf[BlockSize + i]
    BY <1>7, <2>1
  <2>. QED BY <1>9, <2>1, <2>2
<1>19. error' = 0 /\ finalized' = FALSE /\ op' \in Adding
  BY <1>1, <1>2
<1>20. Accounted' /\ Placed' /\ Complete'
  BY Zenon, <1>13, <1>15, <1>17, <1>18, <1>19, AfterPending
<1>. QED BY <1>0, <1>1, <1>9, <1>11, <1>13, <1>20 DEF Cut, CutTypes

LEMMA Divide ==
    \A n, d \in Nat : d > 0 => /\ n \div d \in Nat /\ n % d \in Nat /\ n % d < d
                               /\ n = (n \div d) * d + (n % d)
<1>1. \A n, d \in Nat : d > 0 => n \div d \in Nat
  BY Z3
<1>2. \A n, d \in Nat : d > 0 => n % d \in Nat /\ n % d < d
  BY Z3
<1>3. \A n, d \in Nat : d > 0 => n = (n \div d) * d + (n % d)
  BY Z3
<1>. QED BY <1>1, <1>2, <1>3, Zenon

\* Full blocks among zeros that are left.
LEMMA CountBlocks ==
    ASSUME NEW n \in Nat
    PROVE  /\ n \div BlockSize \in Nat /\ n % BlockSize \in Nat
           /\ n % BlockSize < BlockSize
           /\ n = (n \div BlockSize) * BlockSize + (n % BlockSize)
<1>1. n \in Nat /\ BlockSize \in Nat /\ BlockSize > 0
  BY BlockSizeAssumption
<1>. QED BY <1>1, Divide, Zenon

LEMMA NextZeroBlocks == IInv /\ ZeroBlocks => Cut' /\ CutTypes'
<1>. SUFFICES ASSUME IInv, ZeroBlocks PROVE Cut' /\ CutTypes'
  OBVIOUS
<1>0. /\ TypeOK /\ Control /\ pending \in Pending /\ block_index \in Nat
      /\ block \in Block /\ buf \in Seq(Byte) /\ len \in Nat /\ message \in Seq(Byte)
      /\ BlockSize \in Nat /\ BlockSize > 0
  BY BlockSizeAssumption DEF IInv, TypeOK
<1>1. /\ pc = "blocks" /\ len >= BlockSize /\ op' = op
      /\ UNCHANGED <<sq, hashed_index, message, outer, error>>
      /\ finalized' = finalized /\ pending' = pending /\ buf' = buf
      /\ len' = len % BlockSize
      /\ consume_zero_blocks(len \div BlockSize, "blocks")
  BY DEF ZeroBlocks, ZeroRest
<1>2. /\ error = 0 /\ finalized = FALSE /\ op \in Adding
      /\ pending.len \in Nat
      /\ Position = block_index * BlockSize + pending.len
      /\ block_index * BlockSize \in Nat
      /\ block_index * BlockSize + pending.len + Len(buf) + len = Len(message)
      /\ pending.len > 0 => buf = <<>> /\ len = 0
  BY <1>1, InCall
<1>3. pending.len = 0 /\ buf = <<>> /\ Len(buf) = 0
  <2>1. len # 0
    BY <1>0, <1>1
  <2>. QED BY <1>0, <1>2, <2>1 DEF Control, Adding
<1>4. PICK k \in Nat : k = block_index * BlockSize
  BY <1>2
<1>5. PICK l \in Nat : l = len
  BY <1>0
<1>6. k + l = Len(message) /\ Position = k
  BY <1>2, <1>3, <1>4, <1>5
<1>7. \A i \in 1..l : message[k + i] = 0
  BY Zenon, <1>2, <1>5, <1>6 DEF IInv, Placed
<1>8. PICK c \in Nat : c = len \div BlockSize
  BY <1>0, CountBlocks
<1>9. PICK r \in Nat : r = len % BlockSize
  BY <1>0, CountBlocks
<1>10. PICK w \in Nat : w = c * BlockSize
  BY <1>0
<1>11. l = w + r /\ r < BlockSize
  BY <1>0, <1>5, <1>8, <1>9, <1>10, CountBlocks
<1>12. /\ pc' \in {"submit", "blocks"} /\ (pc' = "submit" => cont' = "blocks")
       /\ block_index' = block_index + c /\ Waiting' = FALSE /\ Taken' = block_index + c
       /\ pc' = "submit" => block' \in Block
       /\ pc' # "submit" => block' = block
  BY Zenon, <1>0, <1>1, <1>8, TakesZeros
<1>13. (block_index + c) * BlockSize = k + w
  BY <1>0, <1>4, <1>10
<1>14. \A b \in block_index + 1 .. block_index + c : BlockOf(message, b) = ZeroMd
  <2>. SUFFICES ASSUME NEW b \in block_index + 1 .. block_index + c
                PROVE  BlockOf(message, b) = ZeroMd
    OBVIOUS
  <2>1. b \in Nat \ {0} /\ b <= block_index + c /\ block_index <= b - 1 /\ b - 1 \in Nat
    BY <1>0
  <2>2. PICK f \in Nat : f = Before(b)
    BY <1>0, <2>1 DEF Before
  <2>3. f >= k
    <3>1. block_index * BlockSize <= (b - 1) * BlockSize
      BY <1>0, <2>1, BlocksOrdered
    <3>. QED BY <1>4, <2>2, <3>1 DEF Before
  <2>4. f + BlockSize <= k + w
    <3>1. b * BlockSize <= (block_index + c) * BlockSize
      BY <1>0, <2>1, BlocksOrdered
    <3>2. b * BlockSize = f + BlockSize
      <4>1. PICK a \in Nat : a = b - 1
        BY <2>1
      <4>. QED BY <2>1, <2>2, <4>1, NextBlock DEF Before
    <3>. QED BY <1>13, <3>1, <3>2
  <2>5. f + BlockSize <= Len(message)
    BY <1>0, <1>6, <1>11, <2>4
  <2>6. \A i \in 1..BlockSize : message[f + i] = 0
    <3>. SUFFICES ASSUME NEW i \in 1..BlockSize PROVE message[f + i] = 0
      OBVIOUS
    <3>1. (f - k) + i \in 1..l /\ k + ((f - k) + i) = f + i
      BY <1>0, <1>11, <2>3, <2>4
    <3>. QED BY <1>7, <3>1
  <2>. QED BY Zenon, <1>0, <2>1, <2>2, <2>5, <2>6, IsZeroBlock
<1>15. OuterIsPrefix' /\ QueueCoversMessage' /\ Covered'
  BY <1>1, <1>12, <1>14, CoverKept
<1>16. PICK q \in Nat : q = k + w
  OBVIOUS
<1>17. q = Taken' * BlockSize /\ ~Clearing'
  BY <1>12, <1>13, <1>16 DEF Clearing
<1>18. PICK n \in Nat : n = 0
  OBVIOUS
<1>19. /\ n = pending'.len /\ n < BlockSize /\ (n > 0 => buf' = <<>> /\ len' = 0)
       /\ Holds(pending, q)' /\ \A i \in 1..Len(buf') : message'[(q + n) + i] = buf'[i]
       /\ q + n + Len(buf') + len' = Len(message')
  <2>1. pending'.len = 0 /\ Len(buf') = 0 /\ message' = message /\ len' = r
    BY <1>1, <1>3, <1>9
  <2>2. q + n + 0 + r = k + l
    BY <1>11, <1>16, <1>18
  <2>3. q + n + Len(buf') + len' = Len(message')
    BY <1>6, <2>1, <2>2
  <2>4. Holds(pending, q)'
    BY <2>1 DEF Holds
  <2>. QED BY <1>0, <1>18, <2>1, <2>3, <2>4
<1>20. \A i \in 1..len' : message'[(q + n) + i] = 0
  <2>. SUFFICES ASSUME NEW i \in 1..r PROVE message[(q + n) + i] = 0
    BY <1>1, <1>9
  <2>1. w + i \in 1..l /\ k + (w + i) = (q + n) + i
    BY <1>11, <1>16, <1>18
  <2>. QED BY <1>7, <2>1
<1>21. error' = 0 /\ finalized' = FALSE /\ op' \in Adding
  BY <1>1, <1>2
<1>22. Accounted' /\ Placed' /\ Complete'
  BY Zenon, <1>12, <1>17, <1>19, <1>20, <1>21, AfterPending
<1>23. block_index' \in Nat /\ block' \in Block /\ len' \in Nat
  BY <1>0, <1>1, <1>9, <1>12
<1>. QED BY <1>0, <1>1, <1>15, <1>22, <1>23 DEF Cut, CutTypes

LEMMA NextRest == IInv /\ Rest => Cut' /\ CutTypes'
<1>. SUFFICES ASSUME IInv, Rest PROVE Cut' /\ CutTypes'
  OBVIOUS
<1>0. /\ TypeOK /\ Control /\ pending \in Pending /\ block_index \in Nat
      /\ buf \in Seq(Byte) /\ len \in Nat /\ BlockSize \in Nat
  BY BlockSizeAssumption DEF IInv, TypeOK
<1>1. /\ pc = "blocks" /\ Len(buf) < BlockSize /\ len < BlockSize /\ Return(0)
      /\ pending' = IF buf # <<>> THEN add_pending_data(buf)
                    ELSE IF len > 0 THEN add_pending_zeros(len) ELSE pending
      /\ UNCHANGED <<sq, hashed_index, message, outer, error, block_index>>
      /\ finalized' = finalized
  BY DEF Rest, indexVars
<1>2. /\ pc' = "idle" /\ op' = "none" /\ buf' = <<>> /\ len' = 0 /\ block' = ZeroBlock
      /\ Len(buf') = 0
  BY <1>1 DEF Return
<1>3. /\ error = 0 /\ finalized = FALSE /\ op \in Adding
      /\ pending.len \in Nat /\ pending.len < BlockSize
      /\ Position = block_index * BlockSize + pending.len
      /\ block_index * BlockSize \in Nat
      /\ block_index * BlockSize + pending.len + Len(buf) + len = Len(message)
      /\ Holds(pending, block_index * BlockSize)
      /\ pending.len > 0 => buf = <<>> /\ len = 0
  BY <1>1, InCall
<1>4. PICK k \in Nat : k = block_index * BlockSize
  BY <1>3
<1>5. PICK m \in Nat : m = pending.len
  BY <1>3
<1>6. /\ \A i \in 1..Len(buf) : message[(k + m) + i] = buf[i]
      /\ \A i \in 1..len : message[(k + m) + i] = 0
  BY <1>3, <1>4, <1>5 DEF IInv, Placed
<1>7. buf = <<>> \/ (buf # <<>> /\ m = 0 /\ len = 0)
  BY <1>0, <1>3, <1>5 DEF Control, Adding
<1>8. /\ pending' \in Pending /\ Holds(pending', k)
      /\ pending'.len = m + Len(buf) + len /\ pending'.len < BlockSize
  <2>1. CASE buf # <<>>
    <3>1. m + Len(buf) <= BlockSize
      BY <1>0, <1>1, <1>7, <2>1
    <3>5. len = 0 /\ m = 0
      BY <1>7, <2>1
    <3>. DEFINE p == add_pending_data(buf)
    <3>2. pending' = p
      BY <1>1, <2>1
    <3>4. p = add_pending_data(buf)
      OBVIOUS
    <3>. HIDE DEF p
    <3>3. p \in Pending /\ p.len = m + Len(buf) /\ Holds(p, k)
      <4>1. pending \in Pending /\ Holds(pending, k) /\ m = pending.len
        BY <1>0, <1>3, <1>4, <1>5
      <4>. QED BY Zenon, <1>0, <1>6, <3>1, <3>4, <4>1, AddsData
    <3>. QED BY <1>0, <1>1, <3>2, <3>3, <3>5
  <2>2. CASE buf = <<>> /\ len > 0
    <3>1. m + len <= BlockSize
      BY <1>0, <1>1, <1>3, <1>5, <2>2
    <3>5. Len(buf) = 0 /\ m = 0
      BY <1>0, <1>3, <1>5, <2>2
    <3>. DEFINE p == add_pending_zeros(len)
    <3>2. pending' = p
      BY <1>1, <2>2
    <3>4. p = add_pending_zeros(len)
      OBVIOUS
    <3>. HIDE DEF p
    <3>3. p \in Pending /\ p.len = m + len /\ Holds(p, k)
      <4>1. pending \in Pending /\ Holds(pending, k) /\ m = pending.len
        BY <1>0, <1>3, <1>4, <1>5
      <4>. QED BY Zenon, <1>0, <1>6, <3>1, <3>4, <4>1, AddsZeros
    <3>. QED BY <1>0, <1>1, <3>2, <3>3, <3>5
  <2>3. CASE buf = <<>> /\ ~(len > 0)
    <3>1. Len(buf) = 0 /\ len = 0
      BY <1>0, <2>3
    <3>2. pending' = pending
      BY <1>1, <2>3
    <3>. QED BY <1>0, <1>3, <1>4, <1>5, <3>1, <3>2
  <2>. QED BY <2>1, <2>2, <2>3
<1>9. Holds(pending, k)'
  BY <1>1, <1>8 DEF Holds
<1>10. ~Clearing' /\ Waiting' = FALSE /\ Taken' = block_index
  BY <1>0, <1>1, <1>2 DEF Clearing, Waiting, Taken
<1>11. OuterIsPrefix' /\ QueueCoversMessage' /\ Covered'
  BY <1>1, CoverSame
<1>12. PICK n \in Nat : n = m + Len(buf) + len
  BY <1>0
<1>13. /\ n = pending'.len /\ n < BlockSize /\ k = Taken' * BlockSize
       /\ k + n + Len(buf') + len' = Len(message')
  <2>1. k + m + Len(buf) + len = Len(message)
    BY <1>3, <1>4, <1>5
  <2>2. k + n + 0 + 0 = k + m + Len(buf) + len
    BY <1>0, <1>12
  <2>3. Len(buf') = 0 /\ len' = 0 /\ message' = message
    BY <1>1, <1>2
  <2>. QED BY <1>4, <1>8, <1>10, <1>12, <2>1, <2>2, <2>3
<1>14. /\ error' = 0 /\ finalized' = FALSE /\ op' \in Adding \cup {"none"}
       /\ n > 0 => buf' = <<>> /\ len' = 0
       /\ \A i \in 1..Len(buf') : message'[(k + n) + i] = buf'[i]
       /\ \A i \in 1..len' : message'[(k + n) + i] = 0
  BY <1>1, <1>2, <1>3
<1>15. Accounted' /\ Placed' /\ Complete'
  BY Zenon, <1>9, <1>10, <1>13, <1>14, AfterPending
<1>16. block' \in Block /\ buf' \in Seq(Byte) /\ len' \in Nat
  BY <1>2 DEF ZeroBlock, Block
<1>. QED BY <1>0, <1>1, <1>8, <1>11, <1>15, <1>16 DEF Cut, CutTypes

LEMMA NextClear == IInv /\ Clear => Cut' /\ CutTypes'
<1>. SUFFICES ASSUME IInv, Clear PROVE Cut' /\ CutTypes'
  OBVIOUS
<1>0. /\ TypeOK /\ Control /\ Accounted /\ Placed /\ Complete
      /\ pending \in Pending /\ block_index \in Nat /\ block \in Block
      /\ buf \in Seq(Byte) /\ len \in Nat /\ BlockSize \in Nat /\ BlockSize > 0
      /\ finalized \in BOOLEAN
  BY BlockSizeAssumption DEF IInv, TypeOK
<1>1. /\ pc = "clear" /\ pending' = [pending EXCEPT !.len = 0, !.zero = FALSE]
      /\ pc' = IF op = "final" THEN "inflight" ELSE "blocks"
      /\ UNCHANGED <<sq, hashed_index, message, outer, error, block_index>>
      /\ finalized' = finalized /\ op' = op /\ buf' = buf /\ len' = len /\ block' = block
  BY DEF Clear, indexVars, callVars
<1>2. pending' \in Pending /\ pending'.len = 0
  <2>1. 0 \in 0..BlockSize /\ FALSE \in BOOLEAN
    BY <1>0
  <2>. QED BY Zenon, <1>0, <1>1, <2>1 DEF Pending
<1>3. OuterIsPrefix' /\ QueueCoversMessage' /\ Covered'
  BY <1>1, CoverSame
<1>4. Clearing /\ Waiting = FALSE /\ Taken = block_index
  BY <1>0, <1>1 DEF Clearing, Waiting, Taken
<1>5. ~Clearing' /\ Waiting' = FALSE /\ Taken' = block_index
  BY <1>0, <1>1 DEF Clearing, Waiting, Taken
<1>6. PICK k \in Nat : k = block_index * BlockSize
  BY <1>0
<1>7. Position = k /\ Position' = k
  BY <1>2, <1>4, <1>5, <1>6 DEF Position
<1>8. Accounted'
  <2>. SUFFICES ASSUME error' = 0 PROVE Accounted'
    BY DEF Accounted
  <2>1. error = 0
    BY <1>1
  <2>2. /\ ~finalized => k + Len(buf) + len = Len(message)
        /\ finalized => k >= Len(message) /\ k < Len(message) + BlockSize
    BY <1>0, <1>4, <1>6, <1>7, <2>1 DEF Accounted
  <2>3. /\ ~finalized' => Position' + Len(buf') + len' = Len(message')
        /\ finalized' => Taken' * BlockSize >= Len(message')
                         /\ Taken' * BlockSize < Len(message') + BlockSize
    BY <1>1, <1>5, <1>6, <1>7, <2>2
  <2>4. pending'.len < BlockSize /\ ~(pending'.len > 0)
    BY <1>0, <1>2
  <2>. QED BY <1>2, <2>3, <2>4 DEF Accounted
<1>9. Placed'
  <2>. SUFFICES ASSUME error' = 0 PROVE Placed'
    BY DEF Placed
  <2>1. /\ \A i \in 1..Len(buf) : message[k + i] = buf[i]
        /\ \A i \in 1..len : message[k + i] = 0
    BY <1>0, <1>1, <1>7 DEF Placed
  <2>2. Holds(pending, Taken * BlockSize)'
    BY <1>2 DEF Holds
  <2>. QED BY <1>1, <1>5, <1>7, <2>1, <2>2 DEF Placed
<1>10. Complete'
  <2>. SUFFICES ASSUME error' = 0, op' = "final" PROVE Complete'
    BY DEF Complete
  <2>1. /\ From(Len(sq) + 1) = block_index
        /\ sq # <<>> => sq[Len(sq)].zero \/ sq[Len(sq)].copy
    BY <1>0, <1>1 DEF Complete
  <2>2. From(Len(sq) + 1)' = block_index'
    BY <1>1, <2>1 DEF From
  <2>. QED BY <1>1, <1>5, <2>1, <2>2 DEF Complete
<1>. QED BY Zenon, <1>0, <1>1, <1>2, <1>3, <1>8, <1>9, <1>10 DEF Cut, CutTypes

\* blkhash_final(): the last block is taken, or all blocks were.
LEMMA NextFinal == IInv /\ Final => Cut' /\ CutTypes'
<1>. SUFFICES ASSUME IInv, Final PROVE Cut' /\ CutTypes'
  OBVIOUS
<1>0. /\ TypeOK /\ Control /\ Accounted /\ Placed
      /\ pending \in Pending /\ block_index \in Nat /\ block \in Block
      /\ buf \in Seq(Byte) /\ len \in Nat /\ BlockSize \in Nat /\ BlockSize > 0
      /\ finalized \in BOOLEAN /\ message \in Seq(Byte)
  BY BlockSizeAssumption DEF IInv, TypeOK
<1>1. /\ pc = "idle" /\ finalized = FALSE /\ finalized' = TRUE /\ op' = "final"
      /\ IF pending.len > 0 THEN consume_pending(pending)
         ELSE SubmitTail /\ UNCHANGED <<pending, block_index>>
      /\ UNCHANGED <<sq, hashed_index, message, outer, error>>
      /\ buf' = buf /\ len' = len
  BY <1>0 DEF Final, MayCall
<1>2. buf = <<>> /\ len = 0 /\ Len(buf) = 0
  BY <1>0, <1>1 DEF Control
<1>3. ~Clearing /\ Waiting = FALSE /\ Taken = block_index
  BY <1>0, <1>1 DEF Clearing, Waiting, Taken
<1>4. PICK k \in Nat : k = block_index * BlockSize
  BY <1>0
<1>5. PICK m \in Nat : m = pending.len
  BY <1>0 DEF Pending
<1>6. error = 0 => k + m = Len(message) /\ m < BlockSize /\ Holds(pending, k)
  <2>. SUFFICES ASSUME error = 0
                PROVE  k + m = Len(message) /\ m < BlockSize /\ Holds(pending, k)
    OBVIOUS
  <2>1. Position = k + m
    BY <1>3, <1>4, <1>5 DEF Position
  <2>2. Position + Len(buf) + len = Len(message) /\ m < BlockSize
    BY <1>0, <1>1, <1>3, <1>5 DEF Accounted
  <2>3. Holds(pending, k)
    BY <1>0, <1>3, <1>4 DEF Placed
  <2>. QED BY <1>2, <2>1, <2>2, <2>3
<1>7. CASE m > 0
  <2>1. consume_pending(pending)
    BY <1>1, <1>5, <1>7
  <2>2. error = 0 => k + pending.len = MinOf(k + BlockSize, Len(message))
    BY <1>0, <1>5, <1>6 DEF MinOf
  <2>3. /\ pc' \in {"submit", "clear"}
        /\ Clearing' /\ Taken' = block_index + 1
        /\ pending' \in Pending /\ block_index' \in Nat
        /\ pc' = "submit" => block' \in Block
        /\ pc' # "submit" => block' = block
        /\ pending.len # BlockSize => pc' = "submit" /\ Waiting'
        /\ Waiting' => block'.copy = TRUE
        /\ OuterIsPrefix' /\ QueueCoversMessage' /\ Covered'
        /\ error = 0 /\ Waiting' => block'.data = BlockOf(message', block_index' + 1)
    BY Zenon, <1>0, <1>1, <1>4, <1>6, <2>1, <2>2, PendingTaken
  <2>4. PICK q \in Nat : q = k + BlockSize
    BY <1>0
  <2>5. q = Taken' * BlockSize /\ Position' = q
    <3>1. q = Taken' * BlockSize
      BY <1>0, <1>4, <2>3, <2>4, NextBlock
    <3>. QED BY <2>3, <3>1 DEF Position
  <2>6. error = 0 => q >= Len(message) /\ q < Len(message) + BlockSize
    BY <1>0, <1>6, <1>7, <2>4
  <2>7. Accounted'
    BY <1>1, <2>3, <2>5, <2>6 DEF Accounted
  <2>8. Placed'
    <3>1. Len(buf') = 0 /\ len' = 0
      BY <1>1, <1>2
    <3>. QED BY <1>1, <2>3, <3>1 DEF Placed
  <2>9. Complete'
    <3>1. error' = 0 => pc' = "submit"
      BY <1>0, <1>1, <1>5, <1>6, <2>3
    <3>. QED BY <2>3, <3>1 DEF Complete
  <2>10. block' \in Block
    BY <1>0, <2>3
  <2>. QED BY <1>0, <1>1, <2>3, <2>7, <2>8, <2>9, <2>10 DEF Cut, CutTypes
<1>8. CASE ~(m > 0)
  <2>1. /\ pc' = "submit" /\ block' = ZeroBlock /\ cont' = "inflight"
        /\ pending' = pending /\ block_index' = block_index
    BY <1>1, <1>5, <1>8 DEF SubmitTail
  <2>2. m = 0 /\ pending'.len = 0
    BY <1>5, <1>8, <2>1
  <2>3. ZeroBlock \in Block /\ ZeroBlock.zero = TRUE
    BY DEF ZeroBlock, Block
  <2>4. Waiting' = FALSE /\ ~Clearing' /\ Taken' = block_index
    BY <1>0, <2>1, <2>3 DEF Waiting, Clearing, Taken
  <2>5. OuterIsPrefix' /\ QueueCoversMessage' /\ Covered'
    BY <1>1, <2>1, CoverSame
  <2>6. Accounted'
    <3>1. k = Taken' * BlockSize
      BY <1>4, <2>4
    <3>2. error' = 0 => k >= Len(message') /\ k < Len(message') + BlockSize
      BY <1>0, <1>1, <1>6, <2>2
    <3>. QED BY <1>0, <1>1, <2>2, <3>1, <3>2 DEF Accounted
  <2>7. Placed'
    <3>1. Len(buf') = 0 /\ len' = 0
      BY <1>1, <1>2
    <3>2. Holds(pending, Taken * BlockSize)'
      BY <2>2 DEF Holds
    <3>. QED BY <2>4, <3>1, <3>2 DEF Placed
  <2>8. Complete'
    BY Zenon, <2>1, <2>4 DEF Complete
  <2>. QED BY <1>0, <1>1, <2>1, <2>3, <2>5, <2>6, <2>7, <2>8 DEF Cut, CutTypes
<1>. QED BY Zenon, <1>7, <1>8

\* A call that adds bytes: the blocks that were taken are those of the longer message.
LEMMA NextAccept ==
    ASSUME IInv, NEW name \in Adding, NEW bytes \in Seq(Byte), Accept(name, bytes),
           \/ buf' = bytes /\ len' = 0
           \/ /\ buf' = <<>> /\ len' = Len(bytes)
              /\ \A i \in 1..Len(bytes) : bytes[i] = 0
    PROVE  Cut' /\ CutTypes' /\ message' \in Seq(Byte) /\ message_length' = Len(message')
<1>0. /\ TypeOK /\ Control /\ Accounted /\ Placed /\ Covered /\ OuterIsPrefix
      /\ QueueCoversMessage /\ hashed_index \in Nat /\ sq \in Seq(Submission)
      /\ pending \in Pending /\ block_index \in Nat /\ block \in Block
      /\ BlockSize \in Nat /\ BlockSize > 0
      /\ finalized \in BOOLEAN /\ message \in Seq(Byte) /\ message_length = Len(message)
  BY BlockSizeAssumption DEF IInv, TypeOK
<1>1. /\ pc = "idle" /\ finalized = FALSE /\ error = 0
      /\ message' = message \o bytes /\ message_length' = message_length + Len(bytes)
      /\ op' = name /\ pc' = IF pending.len > 0 THEN "fill" ELSE "blocks"
      /\ UNCHANGED <<sq, hashed_index, outer, error, finalized, block_index, block, pending>>
  BY <1>0 DEF Accept, MayCall, indexVars
<1>2. buf = <<>> /\ len = 0 /\ Len(buf) = 0
  BY <1>0, <1>1 DEF Control
<1>3. ~Clearing /\ Waiting = FALSE /\ Taken = block_index
  BY <1>0, <1>1 DEF Clearing, Waiting, Taken
<1>4. PICK k \in Nat : k = block_index * BlockSize
  BY <1>0
<1>5. PICK m \in Nat : m = pending.len
  BY <1>0 DEF Pending
<1>6. PICK z \in Nat : z = Len(message)
  BY <1>0
<1>7. PICK w \in Nat : w = Len(bytes)
  OBVIOUS
<1>8. k + m = z /\ m < BlockSize /\ Holds(pending, k)
  <2>1. Position = k + m
    BY <1>3, <1>4, <1>5 DEF Position
  <2>2. Position + Len(buf) + len = z /\ m < BlockSize
    BY <1>0, <1>1, <1>3, <1>5, <1>6 DEF Accounted
  <2>3. Holds(pending, k)
    BY Zenon, <1>0, <1>1, <1>3, <1>4 DEF Placed
  <2>. QED BY <1>2, <2>1, <2>2, <2>3
<1>9. /\ message' \in Seq(Byte) /\ Len(message') = z + w
      /\ \A i \in 1..z : message'[i] = message[i]
      /\ \A i \in 1..w : message'[z + i] = bytes[i]
  <2>. DEFINE t == message \o bytes
  <2>1. /\ t \in Seq(Byte) /\ Len(t) = Len(message) + Len(bytes)
        /\ \A i \in 1..(Len(message) + Len(bytes)) :
              t[i] = IF i <= Len(message) THEN message[i] ELSE bytes[i - Len(message)]
    BY <1>0, Concatenation
  <2>. HIDE DEF t
  <2>2. t \in Seq(Byte) /\ Len(t) = z + w /\ \A i \in 1..z : t[i] = message[i]
    BY <1>6, <1>7, <2>1
  <2>3. ASSUME NEW i \in 1..w PROVE t[z + i] = bytes[i]
    <3>1. z + i \in 1..(z + w) /\ ~(z + i <= z) /\ (z + i) - z = i
      OBVIOUS
    <3>. QED BY <1>6, <1>7, <2>1, <3>1
  <2>. QED BY Zenon, <1>1, <2>2, <2>3 DEF t
<1>10. \A b \in 1..block_index : BlockOf(message', b) = BlockOf(message, b)
  <2>. SUFFICES ASSUME NEW b \in 1..block_index
                PROVE  BlockOf(message \o bytes, b) = BlockOf(message, b)
    BY <1>1
  <2>1. b \in Nat \ {0} /\ b \in Nat /\ b <= block_index
    BY <1>0
  <2>2. b * BlockSize <= block_index * BlockSize
    BY <1>0, <2>1, BlocksOrdered
  <2>3. b * BlockSize <= Len(message)
    <3>1. b * BlockSize \in Nat
      BY <1>0, <2>1
    <3>. QED BY <1>4, <1>6, <1>8, <2>2, <3>1
  <2>. QED BY <1>0, <2>1, <2>3, BlockKept
<1>11. /\ hashed_index <= block_index
       /\ \A i \in DOMAIN sq : End(sq[i]) <= block_index
       /\ \A b \in From(Len(sq) + 1) + 1 .. block_index : BlockOf(message, b) = ZeroMd
  BY <1>0, <1>1 DEF Covered
<1>12. OuterIsPrefix'
  <2>1. Len(outer) = hashed_index /\ \A i \in 1..hashed_index : outer[i] = BlockOf(message, i)
    BY <1>0, <1>1 DEF OuterIsPrefix
  <2>2. \A i \in 1..hashed_index : i \in 1..block_index
    BY <1>0, <1>11
  <2>. QED BY <1>1, <1>10, <2>1, <2>2 DEF OuterIsPrefix
<1>13. QueueCoversMessage'
  <2>. SUFFICES ASSUME NEW i \in DOMAIN sq
                PROVE  /\ From(i) <= sq[i].index
                       /\ \A b \in From(i) + 1 .. sq[i].index : BlockOf(message', b) = ZeroMd
                       /\ ~sq[i].zero => sq[i].data = BlockOf(message', sq[i].index + 1)
    <3>1. sq' = sq /\ \A i \in DOMAIN sq : From(i)' = From(i)
      BY Zenon, <1>1 DEF From
    <3>. QED BY Zenon, <3>1, QueueCoversNext
  <2>1. /\ From(i) <= sq[i].index
        /\ \A b \in From(i) + 1 .. sq[i].index : BlockOf(message, b) = ZeroMd
        /\ ~sq[i].zero => sq[i].data = BlockOf(message, sq[i].index + 1)
    BY <1>0, <1>1, QueueCovers
  <2>2. i \in 1..(Len(sq) + 1) /\ sq[i] \in Submission
    BY <1>0
  <2>3. From(i) \in Nat /\ sq[i].index \in Nat /\ End(sq[i]) \in Nat
    BY Zenon, <1>0, <2>2, FromType, SubmissionType
  <2>4. /\ sq[i].index <= block_index
        /\ ~sq[i].zero => sq[i].index + 1 \in 1..block_index
    <3>1. /\ sq[i].zero => End(sq[i]) = sq[i].index
          /\ ~sq[i].zero => End(sq[i]) = sq[i].index + 1
          /\ sq[i].zero \in BOOLEAN /\ End(sq[i]) <= block_index
      BY Zenon, <1>11, <2>2, SubmissionType
    <3>2. PICK j \in Nat, e \in Nat : j = sq[i].index /\ e = End(sq[i])
      BY Zenon, <2>3
    <3>. QED BY <1>0, <3>1, <3>2
  <2>5. \A b \in From(i) + 1 .. sq[i].index : b \in 1..block_index
    BY <1>0, <2>3, <2>4
  <2>. QED BY Zenon, <1>10, <2>1, <2>4, <2>5
<1>14. Covered'
  <2>1. PICK f \in Nat : f = From(Len(sq) + 1)
    <3>1. Len(sq) + 1 \in 1..(Len(sq) + 1)
      BY <1>0
    <3>. QED BY <1>0, <3>1, FromType
  <2>2. From(Len(sq) + 1)' = f /\ sq' = sq
    BY <1>1, <2>1 DEF From
  <2>3. \A b \in f + 1 .. block_index : b \in 1..block_index
    BY <1>0
  <2>4. \A b \in f + 1 .. block_index : BlockOf(message', b) = ZeroMd
    BY <1>10, <1>11, <2>1, <2>3
  <2>. QED BY <1>1, <1>11, <2>2, <2>4 DEF Covered
<1>15. ~Clearing' /\ Waiting' = FALSE /\ Taken' = block_index
  BY <1>0, <1>1 DEF Clearing, Waiting, Taken
<1>16. Holds(pending, k)'
  <2>1. \A i \in 1..m : k + i \in 1..z
    BY <1>8
  <2>. QED BY Zenon, <1>1, <1>5, <1>8, <1>9, <2>1 DEF Holds
<1>17. buf' \in Seq(Byte) /\ len' \in Nat /\ Len(buf') + len' = w
  <2>1. CASE buf' = bytes /\ len' = 0
    BY <1>7, <2>1
  <2>2. CASE buf' = <<>> /\ len' = Len(bytes)
    <3>1. Len(buf') = 0 /\ buf' \in Seq(Byte)
      BY <2>2
    <3>. QED BY <1>7, <2>2, <3>1
  <2>. QED BY <2>1, <2>2
<1>18. /\ \A i \in 1..Len(buf') : message'[(k + m) + i] = buf'[i]
       /\ \A i \in 1..len' : message'[(k + m) + i] = 0
  <2>1. CASE buf' = bytes /\ len' = 0
    BY <1>7, <1>8, <1>9, <2>1
  <2>2. CASE buf' = <<>> /\ len' = w /\ \A i \in 1..w : bytes[i] = 0
    <3>1. Len(buf') = 0
      BY <2>2
    <3>2. \A i \in 1..w : message'[z + i] = 0
      BY Zenon, <1>9, <2>2
    <3>3. \A i \in 1..w : message'[(k + m) + i] = 0
      BY <1>8, <3>2, Zenon
    <3>4. \A i \in 1..len' : message'[(k + m) + i] = 0
      BY <2>2, <3>3, Zenon
    <3>. QED BY <3>1, <3>4
  <2>. QED BY <1>7, <2>1, <2>2
<1>19. /\ error' = 0 /\ finalized' = FALSE /\ op' \in Adding \cup {"none"}
       /\ m = pending'.len /\ k = Taken' * BlockSize /\ (m > 0 => pc' = "fill")
  BY <1>1, <1>4, <1>5, <1>15
<1>20. k + m + Len(buf') + len' = Len(message')
  <2>1. Len(buf') \in Nat
    BY <1>17
  <2>2. PICK x \in Nat, y \in Nat : x = Len(buf') /\ y = len' /\ x + y = w
    BY <1>17, <2>1
  <2>3. z = k + m /\ Len(message') = z + w
    BY <1>8, <1>9
  <2>4. k + m + x + y = Len(message')
    <3>1. k + m + x + y = (k + m) + (x + y)
      BY <2>2
    <3>. QED BY Zenon, <2>2, <2>3, <3>1
  <2>. QED BY <2>2, <2>4
<1>21. Accounted' /\ Placed' /\ Complete'
  BY Zenon, <1>8, <1>15, <1>16, <1>18, <1>19, <1>20, AfterPending
<1>22. message_length' = Len(message')
  BY <1>0, <1>1, <1>6, <1>7, <1>9
<1>. QED BY Zenon, <1>0, <1>1, <1>9, <1>12, <1>13, <1>14, <1>17, <1>21, <1>22 DEF Cut, CutTypes

-----------------------------------------------------------------------------
(* The steps that submit blocks and hash submissions *)

\* A submission of the next block, or of the zero blocks before it.
LEMMA Appended ==
    ASSUME IInv, NEW sub \in Submission, sub.index = block_index,
           error = 0 /\ ~sub.zero => sub.data = BlockOf(message, block_index + 1),
           sq' = Append(sq, sub), block_index' = End(sub),
           UNCHANGED <<hashed_index, message, outer, error>>
    PROVE  /\ OuterIsPrefix' /\ QueueCoversMessage' /\ Covered'
           /\ sq' \in Seq(Submission) /\ sq' # <<>> /\ sq'[Len(sq')] = sub
           /\ From(Len(sq) + 1)' = block_index'
<1>0. /\ TypeOK /\ Covered /\ OuterIsPrefix /\ QueueCoversMessage
      /\ block_index \in Nat /\ hashed_index \in Nat /\ sq \in Seq(Submission)
  BY DEF IInv, TypeOK
<1>1. PICK n \in Nat : n = Len(sq)
  BY <1>0
<1>2. /\ sq' \in Seq(Submission) /\ sq' # <<>> /\ Len(sq') = n + 1
      /\ \A i \in 1..n : sq'[i] = sq[i]
      /\ sq'[n + 1] = sub
  BY <1>0, <1>1, OneMore
<1>3. \A i \in 1..(n + 1) : From(i)' = From(i)
  <2>. SUFFICES ASSUME NEW i \in 1..(n + 1), i # 1 PROVE From(i)' = From(i)
    BY Zenon DEF From
  <2>1. i - 1 \in 1..n
    OBVIOUS
  <2>. QED BY <1>2, <2>1 DEF From, End
<1>4. From(Len(sq) + 1)' = End(sub)
  <2>1. (n + 1) + 1 # 1 /\ ((n + 1) + 1) - 1 = n + 1
    OBVIOUS
  <2>. QED BY <1>2, <2>1 DEF From, End
<1>5. /\ sub.index \in Nat /\ End(sub) \in Nat
      /\ sub.zero => End(sub) = block_index
      /\ ~sub.zero => End(sub) = block_index + 1
  BY SubmissionType
<1>6. block_index <= End(sub)
  BY <1>0, <1>5
<1>7. OuterIsPrefix'
  BY <1>0 DEF OuterIsPrefix
<1>. SUFFICES ASSUME error = 0 PROVE QueueCoversMessage' /\ Covered'
  BY Zenon, <1>2, <1>4, <1>7, <1>1 DEF QueueCoversMessage, Covered
<1>8. /\ hashed_index <= block_index
      /\ \A i \in 1..n : End(sq[i]) <= block_index
      /\ \A b \in From(n + 1) + 1 .. block_index : BlockOf(message, b) = ZeroMd
  BY <1>0, <1>1 DEF Covered
<1>9. \A i \in 1..n : sq[i] \in Submission /\ End(sq[i]) \in Nat
  BY <1>0, <1>1, SubmissionType
<1>10. From(n + 1) <= block_index
  <2>1. CASE n = 0
    BY <1>8, <2>1 DEF From
  <2>2. CASE n # 0
    <3>1. n + 1 # 1 /\ (n + 1) - 1 = n /\ n \in 1..n
      BY <2>2
    <3>. QED BY <1>8, <3>1 DEF From
  <2>. QED BY <2>1, <2>2
<1>11. QueueCoversMessage'
  <2>. SUFFICES ASSUME NEW i \in 1..(n + 1)
                PROVE  /\ From(i) <= sq'[i].index
                       /\ \A b \in From(i) + 1 .. sq'[i].index : BlockOf(message, b) = ZeroMd
                       /\ ~sq'[i].zero => sq'[i].data = BlockOf(message, sq'[i].index + 1)
    <3>1. DOMAIN sq' = 1..(n + 1) /\ message' = message
      BY <1>2
    <3>. QED BY Zenon, <1>3, <3>1, QueueCoversNext
  <2>1. CASE i \in 1..n
    BY <1>0, <1>1, <1>2, <2>1, QueueCovers
  <2>2. CASE i = n + 1
    BY <1>2, <1>8, <1>10, <2>2
  <2>3. i \in 1..n \/ i = n + 1
    OBVIOUS
  <2>. QED BY Zenon, <2>1, <2>2, <2>3
<1>12. Covered'
  <2>1. hashed_index' <= block_index'
    BY <1>0, <1>5, <1>6, <1>8
  <2>2. \A i \in DOMAIN sq' : End(sq'[i]) <= block_index'
    <3>0. DOMAIN sq' = 1..(n + 1) /\ block_index' = End(sub)
      BY <1>2
    <3>. SUFFICES ASSUME NEW i \in 1..(n + 1) PROVE End(sq'[i]) <= End(sub)
      BY Zenon, <3>0
    <3>1. CASE i \in 1..n
      BY <1>0, <1>2, <1>5, <1>6, <1>8, <1>9, <3>1
    <3>2. CASE i = n + 1
      BY <1>2, <1>5, <3>2
    <3>3. i \in 1..n \/ i = n + 1
      OBVIOUS
    <3>. QED BY Zenon, <3>1, <3>2, <3>3
  <2>3. \A b \in From(Len(sq) + 1)' + 1 .. block_index' : FALSE
    BY <1>4, <1>5
  <2>. QED BY Zenon, <2>1, <2>2, <2>3 DEF Covered
<1>. QED BY <1>11, <1>12

LEMMA NextSubmitZero == IInv /\ SubmitZero => Cut' /\ CutTypes' /\ sq' \in Seq(Submission)
<1>. SUFFICES ASSUME IInv, SubmitZero PROVE Cut' /\ CutTypes' /\ sq' \in Seq(Submission)
  OBVIOUS
<1>0. /\ TypeOK /\ CutTypes /\ Accounted /\ Placed /\ block_index \in Nat
  BY DEF IInv, TypeOK, CutTypes
<1>1. /\ pc = "submit" /\ block.zero /\ sq' = Append(sq, create_zero) /\ pc' = "collect"
      /\ UNCHANGED <<hashed_index, message, outer, error, block_index, block>>
      /\ pending' = pending /\ finalized' = finalized /\ buf' = buf /\ len' = len
      /\ op' = op /\ cont' = cont
  BY Zenon DEF SubmitZero, callVars
<1>. DEFINE sub == create_zero
<1>2. sub \in Submission /\ sub.index = block_index /\ sub.zero = TRUE
  BY <1>0 DEF create_zero, Submission
<1>3. sq' = Append(sq, sub)
  BY <1>1
<1>. HIDE DEF sub
<1>4. block_index' = End(sub)
  <2>1. End(sub) = sub.index
    BY Zenon, <1>2, SubmissionType
  <2>. QED BY Zenon, <1>1, <1>2, <2>1
<1>5. /\ OuterIsPrefix' /\ QueueCoversMessage' /\ Covered'
      /\ sq' \in Seq(Submission) /\ sq'[Len(sq')] = sub
      /\ From(Len(sq) + 1)' = block_index'
  BY <1>1, <1>2, <1>3, <1>4, Appended
<1>6. Waiting = FALSE /\ Waiting' = FALSE /\ (Clearing' <=> Clearing)
  BY <1>1 DEF Waiting, Clearing
<1>7. Taken' = Taken /\ Position' = Position
  BY <1>1, <1>6 DEF Taken, Position
<1>8. Accounted'
  BY <1>0, <1>1, <1>6, <1>7 DEF Accounted
<1>9. Placed'
  <2>1. Holds(pending, Taken * BlockSize)' <=> Holds(pending, Taken * BlockSize)
    BY <1>1, <1>7 DEF Holds
  <2>. QED BY Zenon, <1>0, <1>1, <1>6, <1>7, <2>1 DEF Placed
<1>10. Complete'
  BY <1>2, <1>5, <1>6 DEF Complete
<1>. QED BY <1>0, <1>1, <1>5, <1>8, <1>9, <1>10 DEF Cut, CutTypes

LEMMA NextSubmitData == IInv /\ SubmitData => Cut' /\ CutTypes' /\ sq' \in Seq(Submission)
<1>. SUFFICES ASSUME IInv, SubmitData PROVE Cut' /\ CutTypes' /\ sq' \in Seq(Submission)
  OBVIOUS
<1>0. /\ TypeOK /\ CutTypes /\ Accounted /\ Placed /\ Complete /\ block_index \in Nat
      /\ block \in Block
  BY DEF IInv, TypeOK, CutTypes
<1>1. /\ pc = "submit" /\ ~block.zero /\ sq' = Append(sq, create_data) /\ pc' = "collect"
      /\ block_index' = block_index + 1
      /\ UNCHANGED <<hashed_index, message, outer, error, block>>
      /\ pending' = pending /\ finalized' = finalized /\ buf' = buf /\ len' = len
      /\ op' = op /\ cont' = cont
  BY Zenon DEF SubmitData, callVars
<1>. DEFINE sub == create_data
<1>2. /\ sub \in Submission /\ sub.index = block_index /\ sub.zero = FALSE
      /\ sub.data = block.data /\ sub.copy = block.copy
  BY <1>0 DEF create_data, Submission, Block
<1>3. sq' = Append(sq, sub)
  BY <1>1
<1>. HIDE DEF sub
<1>4. block_index' = End(sub)
  BY <1>1, <1>2 DEF End
<1>5. Waiting = TRUE /\ Waiting' = FALSE /\ (Clearing' <=> Clearing)
  BY <1>1 DEF Waiting, Clearing
<1>6. error = 0 => sub.data = BlockOf(message, block_index + 1)
  BY Zenon, <1>0, <1>2, <1>5 DEF Placed
<1>7. /\ OuterIsPrefix' /\ QueueCoversMessage' /\ Covered'
      /\ sq' \in Seq(Submission) /\ sq'[Len(sq')] = sub
      /\ From(Len(sq) + 1)' = block_index'
  BY <1>1, <1>2, <1>3, <1>4, <1>6, Appended
<1>8. Taken' = Taken /\ Position' = Position
  <2>1. Taken' = Taken
    BY <1>0, <1>1, <1>5 DEF Taken
  <2>. QED BY <1>1, <1>5, <2>1 DEF Position
<1>9. Accounted'
  BY Zenon, <1>0, <1>1, <1>5, <1>8 DEF Accounted
<1>10. Placed'
  <2>1. Holds(pending, Taken * BlockSize)' <=> Holds(pending, Taken * BlockSize)
    BY Zenon, <1>1, <1>8 DEF Holds
  <2>. QED BY Zenon, <1>0, <1>1, <1>5, <1>8, <2>1 DEF Placed
<1>11. Complete'
  BY <1>0, <1>1, <1>2, <1>5, <1>7 DEF Complete
<1>12. block_index' \in Nat
  BY <1>0, <1>1
<1>. QED BY Zenon, <1>0, <1>1, <1>7, <1>9, <1>10, <1>11, <1>12 DEF Cut, CutTypes

\* A worker changes no block: it may only find that a data block is zero.
LEMMA Relabelled ==
    ASSUME IInv, sq' \in Seq(Submission), Len(sq') = Len(sq),
           UNCHANGED <<block_index, hashed_index, message, outer, error, op, pc, block>>,
           \A i \in DOMAIN sq :
              /\ sq'[i].index = sq[i].index /\ sq'[i].data = sq[i].data
              /\ sq'[i].copy = sq[i].copy
              /\ \/ sq'[i].zero = sq[i].zero
                 \/ /\ ~sq[i].zero /\ sq'[i].zero
                    /\ ~sq[i].copy /\ sq[i].data = ZeroMd
    PROVE  OuterIsPrefix' /\ QueueCoversMessage' /\ Covered' /\ Complete'
<1>0. /\ TypeOK /\ Covered /\ OuterIsPrefix /\ QueueCoversMessage /\ Complete
      /\ block_index \in Nat /\ hashed_index \in Nat /\ sq \in Seq(Submission)
  BY Zenon DEF IInv, TypeOK
<1>1. PICK n \in Nat : n = Len(sq)
  BY <1>0
<1>2. DOMAIN sq = 1..n /\ DOMAIN sq' = 1..n /\ Len(sq') = n
  BY <1>0, <1>1
<1>3. \A i \in 1..n : sq[i] \in Submission /\ sq'[i] \in Submission
  BY <1>0, <1>2
<1>. SUFFICES ASSUME error = 0 PROVE OuterIsPrefix' /\ QueueCoversMessage' /\ Covered' /\ Complete'
  BY Zenon, <1>0 DEF OuterIsPrefix, QueueCoversMessage, Covered, Complete
<1>4. /\ hashed_index <= block_index
      /\ \A i \in 1..n : End(sq[i]) <= block_index
      /\ \A b \in From(n + 1) + 1 .. block_index : BlockOf(message, b) = ZeroMd
  BY Zenon, <1>0, <1>1, <1>2 DEF Covered
<1>5. \A i \in 1..n :
         /\ From(i) <= sq[i].index
         /\ \A b \in From(i) + 1 .. sq[i].index : BlockOf(message, b) = ZeroMd
         /\ ~sq[i].zero => sq[i].data = BlockOf(message, sq[i].index + 1)
  BY Zenon, <1>0, <1>2, QueueCovers
<1>6. \A i \in 1..n : /\ End(sq'[i]) \in Nat /\ End(sq[i]) \in Nat /\ End(sq'[i]) <= End(sq[i])
                      /\ \A b \in End(sq'[i]) + 1 .. End(sq[i]) : BlockOf(message, b) = ZeroMd
  <2>. SUFFICES ASSUME NEW i \in 1..n
                PROVE  /\ End(sq'[i]) \in Nat /\ End(sq[i]) \in Nat /\ End(sq'[i]) <= End(sq[i])
                       /\ \A b \in End(sq'[i]) + 1 .. End(sq[i]) : BlockOf(message, b) = ZeroMd
    OBVIOUS
  <2>1. sq[i].index \in Nat /\ End(sq'[i]) \in Nat /\ End(sq[i]) \in Nat
    BY Zenon, <1>3, SubmissionType
  <2>2. CASE sq'[i].zero = sq[i].zero
    BY SMTT(30), <1>2, <2>1, <2>2 DEF End
  <2>3. CASE ~sq[i].zero /\ sq'[i].zero /\ sq[i].data = ZeroMd
    <3>1. BlockOf(message, sq[i].index + 1) = ZeroMd
      BY Zenon, <1>5, <2>3
    <3>2. End(sq'[i]) = sq[i].index /\ End(sq[i]) = sq[i].index + 1
      BY <1>2, <2>1, <2>3 DEF End
    <3>3. PICK k \in Nat : k = sq[i].index
      BY Zenon, <2>1
    <3>4. k <= k + 1 /\ \A b \in k + 1 .. k + 1 : b = k + 1
      OBVIOUS
    <3>. QED BY Zenon, <2>1, <3>1, <3>2, <3>3, <3>4
  <2>. QED BY Zenon, <1>2, <2>2, <2>3
<1>7. \A i \in 1..(n + 1) : /\ From(i) \in Nat /\ From(i)' \in Nat /\ From(i)' <= From(i)
                            /\ \A b \in From(i)' + 1 .. From(i) : BlockOf(message, b) = ZeroMd
  <2>. SUFFICES ASSUME NEW i \in 1..(n + 1)
                PROVE  /\ From(i) \in Nat /\ From(i)' \in Nat /\ From(i)' <= From(i)
                       /\ \A b \in From(i)' + 1 .. From(i) : BlockOf(message, b) = ZeroMd
    BY Zenon
  <2>1. CASE i = 1
    <3>1. From(i) = hashed_index /\ From(i)' = hashed_index
      BY Zenon, <2>1 DEF From
    <3>. QED BY <1>0, <3>1
  <2>2. CASE i # 1
    <3>1. PICK j \in 1..n : j = i - 1
      BY <2>2
    <3>2. From(i) = End(sq[j]) /\ From(i)' = End(sq'[j])
      BY Zenon, <2>2, <3>1 DEF From, End
    <3>. QED BY <1>6, <3>2
  <2>. QED BY Zenon, <2>1, <2>2
<1>8. QueueCoversMessage'
  <2>. SUFFICES ASSUME NEW i \in 1..n
                PROVE  /\ From(i)' <= sq'[i].index
                       /\ \A b \in From(i)' + 1 .. sq'[i].index : BlockOf(message, b) = ZeroMd
                       /\ ~sq'[i].zero => sq'[i].data = BlockOf(message, sq'[i].index + 1)
    BY Zenon, <1>2, QueueCoversNext
  <2>1. i \in 1..(n + 1) /\ sq[i].index \in Nat /\ sq'[i].index = sq[i].index
    <3>1. sq[i] \in Submission /\ sq'[i].index = sq[i].index
      BY Zenon, <1>2, <1>3
    <3>2. i \in 1..(n + 1)
      OBVIOUS
    <3>. QED BY Zenon, <3>1, <3>2, SubmissionType
  <2>2. /\ From(i) \in Nat /\ From(i)' \in Nat /\ From(i)' <= From(i)
        /\ \A b \in From(i)' + 1 .. From(i) : BlockOf(message, b) = ZeroMd
    BY <1>7, <2>1
  <2>3. PICK f \in Nat : f = From(i)'
    BY Zenon, <2>2
  <2>4. f <= sq[i].index
    BY SMTT(30), <1>5, <2>1, <2>2, <2>3
  <2>5. \A b \in f + 1 .. sq[i].index : BlockOf(message, b) = ZeroMd
    BY SMTT(30), <1>5, <2>1, <2>2, <2>3
  <2>6. ~sq'[i].zero => sq'[i].data = BlockOf(message, sq'[i].index + 1)
    BY Zenon, <1>2, <1>5, <2>1
  <2>. QED BY Zenon, <2>1, <2>3, <2>4, <2>5, <2>6
<1>9. Covered'
  <2>1. \A i \in 1..n : End(sq'[i]) <= block_index
    BY <1>0, <1>4, <1>6
  <2>2. n + 1 \in 1..(n + 1)
    OBVIOUS
  <2>3. PICK f \in Nat, g \in Nat : f = From(n + 1)' /\ g = From(n + 1)
    BY Zenon, <1>7, <2>2
  <2>4. \A b \in f + 1 .. block_index : BlockOf(message, b) = ZeroMd
    BY <1>0, <1>4, <1>7, <2>2, <2>3
  <2>. QED BY Zenon, <1>2, <1>4, <2>1, <2>3, <2>4 DEF Covered
<1>10. Complete'
  <2>. SUFFICES ASSUME op = "final", pc # "submit"
                PROVE  /\ From(n + 1)' = block_index
                       /\ sq' # <<>> => sq'[n].zero \/ sq'[n].copy
    <3>1. (Waiting => block.copy)' \/ op' # "final"
      BY <1>0 DEF Complete, Waiting
    <3>. QED BY <1>2, <3>1 DEF Complete
  <2>1. From(n + 1) = block_index /\ (sq # <<>> => sq[n].zero \/ sq[n].copy)
    BY <1>0, <1>1 DEF Complete
  <2>2. CASE n = 0
    <3>1. From(n + 1) = hashed_index /\ From(n + 1)' = hashed_index
      BY <2>2 DEF From
    <3>2. sq' = <<>>
      BY Zenon, <1>2, <2>2, EmptySequence
    <3>. QED BY Zenon, <2>1, <3>1, <3>2
  <2>3. CASE n # 0
    <3>0. sq # <<>>
      BY Zenon, <1>1, <2>3, EmptySequence
    <3>1. n \in 1..n /\ sq # <<>> /\ n + 1 # 1 /\ (n + 1) - 1 = n
      BY <2>3, <3>0
    <3>2. From(n + 1) = End(sq[n]) /\ From(n + 1)' = End(sq'[n])
      BY <3>1 DEF From, End
    <3>3. sq'[n].zero = sq[n].zero /\ sq'[n].copy = sq[n].copy /\ sq'[n].index = sq[n].index
      BY Zenon, <1>2, <1>3, <2>1, <3>1, SubmissionType
    <3>. QED BY <2>1, <3>1, <3>2, <3>3 DEF End
  <2>. QED BY Zenon, <2>2, <2>3
<1>11. OuterIsPrefix'
  BY <1>0 DEF OuterIsPrefix
<1>. QED BY Zenon, <1>8, <1>9, <1>10, <1>11

\* The caller's side when only the queue changes.
LEMMA CallerSame ==
    ASSUME IInv,
           UNCHANGED <<pending, block_index, error, finalized, pc, callVars, block, cont, message>>
    PROVE  Accounted' /\ Placed' /\ CutTypes'
<1>0. /\ Accounted /\ Placed /\ CutTypes
      /\ pending' = pending /\ finalized' = finalized /\ buf' = buf /\ len' = len
      /\ op' = op /\ cont' = cont /\ block' = block /\ pc' = pc /\ message' = message
      /\ block_index' = block_index /\ error' = error
  BY DEF IInv, TypeOK, CutTypes, callVars
<1>1. (Waiting' <=> Waiting) /\ (Clearing' <=> Clearing)
  BY <1>0 DEF Waiting, Clearing
<1>2. Taken' = Taken /\ Position' = Position
  BY <1>0, <1>1 DEF Taken, Position
<1>3. Accounted'
  BY <1>0, <1>1, <1>2 DEF Accounted
<1>4. Placed'
  <2>1. Holds(pending, Taken * BlockSize)' <=> Holds(pending, Taken * BlockSize)
    BY <1>0, <1>2 DEF Holds
  <2>. QED BY <1>0, <1>1, <1>2, <2>1 DEF Placed
<1>. QED BY Zenon, <1>0, <1>3, <1>4 DEF CutTypes

LEMMA NextHashBlock ==
    ASSUME IInv, NEW i \in DOMAIN sq, HashBlock(i) \/ HashBlockFails(i)
    PROVE  Cut' /\ CutTypes' /\ sq' \in Seq(Submission)
<1>0. sq \in Seq(Submission) /\ TypeOK
  BY Zenon DEF IInv, TypeOK
<1>1. /\ UNCHANGED <<pending, block_index, hashed_index, outer, error, finalized, pc, callVars,
                     block, cont, message, op>>
      /\ ~sq[i].completed
  BY DEF HashBlock, HashBlockFails, indexVars, callVars
<1>2. PICK sub : /\ sub \in Submission /\ sq' = [sq EXCEPT ![i] = sub]
                 /\ sub.index = sq[i].index /\ sub.data = sq[i].data /\ sub.copy = sq[i].copy
                 /\ \/ sub.zero = sq[i].zero
                    \/ ~sq[i].zero /\ sub.zero /\ ~sq[i].copy /\ sq[i].data = ZeroMd
  <2>0. sq[i] \in Submission
    BY <1>0
  <2>1. ~sq[i].zero /\ sq[i].zero = FALSE
    BY Zenon, <1>1, <2>0, SubmissionType
  <2>2. CASE HashBlock(i)
    <3>. DEFINE sub == Hashed(sq[i])
    <3>1. /\ sub \in Submission /\ sub.index = sq[i].index /\ sub.data = sq[i].data
          /\ sub.copy = sq[i].copy
          /\ sub.zero = (~sq[i].copy /\ is_zero_block(sq[i].data))
      BY Zenon, <2>0 DEF Hashed, Submission
    <3>2. sub.zero => ~sq[i].copy /\ sq[i].data = ZeroMd
      BY Zenon, <2>0, <3>1, ZeroData, SubmissionType
    <3>3. sq' = [sq EXCEPT ![i] = sub]
      BY <2>2 DEF HashBlock
    <3>. QED BY Zenon, <2>0, <2>1, <3>1, <3>2, <3>3, SubmissionType
  <2>3. CASE HashBlockFails(i)
    <3>. DEFINE sub == [sq[i] EXCEPT !.completed = TRUE, !.error = ENOMEM]
    <3>1. /\ sub \in Submission /\ sub.index = sq[i].index /\ sub.data = sq[i].data
          /\ sub.copy = sq[i].copy /\ sub.zero = sq[i].zero
      <4>1. ENOMEM \in Int
        BY DEF ENOMEM
      <4>. QED BY Zenon, <2>0, <4>1 DEF Submission
    <3>2. sq' = [sq EXCEPT ![i] = sub]
      BY Zenon, <2>3 DEF HashBlockFails
    <3>. QED BY Zenon, <3>1, <3>2
  <2>. QED BY <2>2, <2>3
<1>3. /\ sq' \in Seq(Submission) /\ Len(sq') = Len(sq)
      /\ \A j \in DOMAIN sq : sq'[j] = IF j = i THEN sub ELSE sq[j]
  BY <1>0, <1>2, ReplacedElement
<1>4. OuterIsPrefix' /\ QueueCoversMessage' /\ Covered' /\ Complete'
  BY Zenon, <1>1, <1>2, <1>3, Relabelled
<1>5. Accounted' /\ Placed' /\ CutTypes'
  BY Zenon, <1>1, CallerSame
<1>. QED BY Zenon, <1>3, <1>4, <1>5 DEF Cut

\* What a submission adds to the outer digest.
LEMMA UpdatesAre ==
    ASSUME NEW sub \in Submission, hashed_index \in Nat
    PROVE  /\ OuterUpdates(sub) \in Seq(Seq(Byte))
           /\ hashed_index <= sub.index =>
                 /\ hashed_index + Len(OuterUpdates(sub)) = End(sub)
                 /\ \A i \in 1..(sub.index - hashed_index) : OuterUpdates(sub)[i] = ZeroMd
                 /\ ~sub.zero => OuterUpdates(sub)[sub.index - hashed_index + 1] = sub.data
<1>1. /\ sub.index \in Nat /\ sub.data \in Seq(Byte) /\ sub.zero \in BOOLEAN
      /\ sub.zero => End(sub) = sub.index
      /\ ~sub.zero => End(sub) = sub.index + 1
  BY Zenon, SubmissionType
<1>. DEFINE m == IF hashed_index < sub.index THEN sub.index - hashed_index ELSE 0
            s == [i \in 1..m |-> ZeroMd]
            t == IF sub.zero THEN <<>> ELSE <<sub.data>>
<1>2. m \in Nat /\ (hashed_index <= sub.index => m = sub.index - hashed_index)
  BY <1>1
<1>. HIDE DEF m
<1>3. s \in Seq(Seq(Byte)) /\ Len(s) = m /\ \A i \in 1..m : s[i] = ZeroMd
  <2>1. ZeroMd \in Seq(Byte)
    BY ZeroBytes, BlockSizeAssumption DEF ZeroMd
  <2>. QED BY <1>2, <2>1
<1>4. /\ t \in Seq(Seq(Byte)) /\ Len(t) = (IF sub.zero THEN 0 ELSE 1)
      /\ ~sub.zero => t[1] = sub.data
  BY <1>1
<1>5. OuterUpdates(sub) = s \o t
  BY DEF OuterUpdates, m
<1>. HIDE DEF s, t
<1>6. /\ s \o t \in Seq(Seq(Byte))
      /\ Len(s \o t) = Len(s) + Len(t)
      /\ \A i \in 1 .. Len(s) + Len(t) :
            (s \o t)[i] = IF i <= Len(s) THEN s[i] ELSE t[i - Len(s)]
  BY Zenon, <1>3, <1>4, Concatenation
<1>. DEFINE u == s \o t
<1>7. /\ u \in Seq(Seq(Byte)) /\ Len(u) = m + (IF sub.zero THEN 0 ELSE 1)
      /\ \A i \in 1..m : u[i] = ZeroMd
      /\ ~sub.zero => u[m + 1] = sub.data
  <2>1. u \in Seq(Seq(Byte)) /\ Len(u) = m + (IF sub.zero THEN 0 ELSE 1)
    BY <1>3, <1>4, <1>6
  <2>2. \A i \in 1..m : i \in 1 .. Len(s) + Len(t) /\ i <= Len(s)
    BY <1>2, <1>3, <1>4
  <2>3. \A i \in 1..m : u[i] = ZeroMd
    BY <1>3, <1>6, <2>2
  <2>4. ASSUME ~sub.zero PROVE u[m + 1] = sub.data
    <3>1. m + 1 \in 1 .. Len(s) + Len(t) /\ ~(m + 1 <= Len(s)) /\ (m + 1) - Len(s) = 1
      BY <1>2, <1>3, <1>4, <2>4
    <3>. QED BY <1>4, <1>6, <2>4, <3>1
  <2>. QED BY Zenon, <2>1, <2>3, <2>4
<1>. HIDE DEF u
<1>8. OuterUpdates(sub) = u
  BY <1>5 DEF u
<1>9. ASSUME hashed_index <= sub.index
      PROVE  /\ hashed_index + Len(u) = End(sub)
             /\ \A i \in 1..(sub.index - hashed_index) : u[i] = ZeroMd
             /\ ~sub.zero => u[sub.index - hashed_index + 1] = sub.data
  <2>1. m = sub.index - hashed_index /\ hashed_index + m = sub.index
    BY <1>1, <1>2, <1>9
  <2>2. hashed_index + Len(u) = End(sub)
    <3>1. hashed_index + Len(u) = sub.index + (IF sub.zero THEN 0 ELSE 1)
      BY <1>1, <1>2, <1>7, <2>1
    <3>. QED BY <3>1 DEF End
  <2>. QED BY <1>7, <2>1, <2>2
<1>. QED BY Zenon, <1>7, <1>8, <1>9

\* hash_submission() takes the first submission.
LEMMA FirstTaken ==
    ASSUME IInv, sq # <<>>, sq' = Tail(sq), hash_submission(Head(sq)),
           UNCHANGED <<block_index, message, error, op, pc, block>>
    PROVE  OuterIsPrefix' /\ QueueCoversMessage' /\ Covered' /\ Complete'
<1>0. /\ TypeOK /\ Covered /\ OuterIsPrefix /\ QueueCoversMessage /\ Complete
      /\ block_index \in Nat /\ hashed_index \in Nat /\ sq \in Seq(Submission)
      /\ outer \in Seq(Seq(Byte))
  BY DEF IInv, TypeOK
<1>. DEFINE sub == sq[1]
<1>1. sub \in Submission /\ Head(sq) = sub /\ Len(sq) \in Nat /\ Len(sq) # 0
  BY <1>0, EmptySequence
<1>2. PICK n \in Nat : Len(sq) = n + 1
  <2>1. Len(sq) - 1 \in Nat /\ Len(sq) = (Len(sq) - 1) + 1
    BY <1>1
  <2>. QED BY Zenon, <2>1
<1>3. sq' \in Seq(Submission) /\ Len(sq') = n /\ \A i \in 1..n : sq'[i] = sq[i + 1]
  <2>1. /\ Tail(sq) \in Seq(Submission) /\ Len(Tail(sq)) = Len(sq) - 1
        /\ \A i \in 1 .. Len(Tail(sq)) : Tail(sq)[i] = sq[i + 1]
    BY <1>0, HeadAndTail
  <2>. QED BY <1>2, <2>1
<1>4. DOMAIN sq = 1..(n + 1) /\ DOMAIN sq' = 1..n
  BY <1>0, <1>2, <1>3
<1>. SUFFICES ASSUME error = 0 PROVE OuterIsPrefix' /\ QueueCoversMessage' /\ Covered' /\ Complete'
  BY Zenon, <1>0 DEF OuterIsPrefix, QueueCoversMessage, Covered, Complete
<1>5. /\ \A i \in 1..(n + 1) : End(sq[i]) <= block_index
      /\ \A b \in From(Len(sq) + 1) + 1 .. block_index : BlockOf(message, b) = ZeroMd
  BY Zenon, <1>0, <1>4 DEF Covered
<1>6. \A i \in 1..(n + 1) :
         /\ From(i) <= sq[i].index
         /\ \A b \in From(i) + 1 .. sq[i].index : BlockOf(message, b) = ZeroMd
         /\ ~sq[i].zero => sq[i].data = BlockOf(message, sq[i].index + 1)
  BY Zenon, <1>0, <1>4, QueueCovers
<1>7. /\ hashed_index <= sub.index
      /\ \A b \in hashed_index + 1 .. sub.index : BlockOf(message, b) = ZeroMd
      /\ ~sub.zero => sub.data = BlockOf(message, sub.index + 1)
  <2>1. 1 \in 1..(n + 1) /\ From(1) = hashed_index
    BY DEF From
  <2>. QED BY <1>6, <2>1
<1>. DEFINE u == OuterUpdates(sub)
<1>8. /\ outer' = outer \o u /\ hashed_index' = hashed_index + Len(u)
  BY Zenon, <1>1 DEF hash_submission
<1>9. /\ u \in Seq(Seq(Byte)) /\ hashed_index + Len(u) = End(sub)
      /\ \A i \in 1..(sub.index - hashed_index) : u[i] = ZeroMd
      /\ ~sub.zero => u[sub.index - hashed_index + 1] = sub.data
  BY Zenon, <1>0, <1>1, <1>7, UpdatesAre
<1>10. hashed_index' = End(sub)
  BY <1>8, <1>9
<1>. HIDE DEF u
<1>11. OuterIsPrefix'
  <2>1. Len(outer) = hashed_index /\ \A i \in 1..hashed_index : outer[i] = BlockOf(message, i)
    BY Zenon, <1>0 DEF OuterIsPrefix
  <2>2. /\ Len(outer \o u) = Len(outer) + Len(u)
        /\ \A i \in 1 .. Len(outer) + Len(u) :
              (outer \o u)[i] = IF i <= Len(outer) THEN outer[i] ELSE u[i - Len(outer)]
    BY <1>0, <1>9, Concatenation
  <2>3. PICK e \in Nat : e = End(sub) /\ e = hashed_index + Len(u)
    BY Zenon, <1>1, <1>9, SubmissionType
  <2>4. Len(outer') = e /\ \A i \in 1..e : outer'[i] = IF i <= hashed_index THEN outer[i]
                                                       ELSE u[i - hashed_index]
    BY Zenon, <1>8, <2>1, <2>2, <2>3
  <2>5. ASSUME NEW i \in 1..e PROVE outer'[i] = BlockOf(message, i)
    <3>0. sub.index \in Nat /\ (sub.zero => e = sub.index) /\ (~sub.zero => e = sub.index + 1)
      BY Zenon, <1>1, <2>3, SubmissionType
    <3>1. CASE i <= hashed_index
      <4>1. i \in 1..hashed_index
        BY <1>0, <3>1
      <4>. QED BY Zenon, <2>1, <2>4, <3>1, <4>1
    <3>2. CASE i > hashed_index /\ i <= sub.index
      <4>1. /\ i - hashed_index \in 1..(sub.index - hashed_index) /\ ~(i <= hashed_index)
            /\ i \in hashed_index + 1 .. sub.index
        BY <1>0, <3>0, <3>2
      <4>. QED BY Zenon, <1>7, <1>9, <2>4, <4>1
    <3>3. CASE i > sub.index
      <4>1. ~sub.zero /\ i = sub.index + 1
        BY <3>0, <3>3
      <4>2. ~(i <= hashed_index) /\ i - hashed_index = sub.index - hashed_index + 1
        BY <1>0, <1>7, <3>0, <4>1
      <4>. QED BY <1>7, <1>9, <2>4, <4>1, <4>2
    <3>. QED BY <1>0, <3>0, <3>1, <3>2, <3>3
  <2>. QED BY <1>10, <2>3, <2>4, <2>5 DEF OuterIsPrefix
<1>12. \A i \in 1..(n + 1) : From(i)' = From(i + 1)
  <2>. SUFFICES ASSUME NEW i \in 1..(n + 1) PROVE From(i)' = From(i + 1)
    OBVIOUS
  <2>1. i + 1 # 1 /\ (i + 1) - 1 = i
    OBVIOUS
  <2>2. CASE i = 1
    BY <1>10, <2>1, <2>2 DEF From
  <2>3. CASE i # 1
    <3>1. i - 1 \in 1..n /\ (i - 1) + 1 = i
      BY <2>3
    <3>2. sq'[i - 1] = sq[i]
      BY <1>3, <3>1
    <3>. QED BY Zenon, <2>1, <2>3, <3>2 DEF From, End
  <2>. QED BY <2>2, <2>3
<1>13. QueueCoversMessage'
  <2>. SUFFICES ASSUME NEW i \in 1..n
                PROVE  /\ From(i)' <= sq'[i].index
                       /\ \A b \in From(i)' + 1 .. sq'[i].index : BlockOf(message, b) = ZeroMd
                       /\ ~sq'[i].zero => sq'[i].data = BlockOf(message, sq'[i].index + 1)
    BY Zenon, <1>4, QueueCoversNext
  <2>1. i \in 1..(n + 1) /\ i + 1 \in 1..(n + 1)
    OBVIOUS
  <2>2. sq'[i] = sq[i + 1] /\ From(i)' = From(i + 1)
    BY <1>3, <1>12, <2>1
  <2>. QED BY Zenon, <1>6, <2>1, <2>2
<1>14. From(Len(sq) + 1)' = From(Len(sq) + 1)
  <2>1. n + 1 \in 1..(n + 1)
    OBVIOUS
  <2>. QED BY <1>2, <1>3, <1>12, <2>1
<1>15. Covered'
  <2>1. hashed_index' <= block_index'
    <3>1. 1 \in 1..(n + 1)
      OBVIOUS
    <3>. QED BY <1>5, <1>10, <3>1
  <2>2. \A i \in DOMAIN sq' : End(sq'[i]) <= block_index'
    <3>. SUFFICES ASSUME NEW i \in 1..n PROVE End(sq'[i]) <= block_index'
      BY <1>4
    <3>1. i + 1 \in 1..(n + 1) /\ sq'[i] = sq[i + 1]
      BY <1>3
    <3>. QED BY Zenon, <1>5, <3>1
  <2>. QED BY <1>5, <1>14, <2>1, <2>2 DEF Covered
<1>16. Complete'
  <2>1. Waiting' <=> Waiting
    BY DEF Waiting
  <2>2. sq' # <<>> => sq'[Len(sq')] = sq[Len(sq)]
    <3>. SUFFICES ASSUME sq' # <<>> PROVE sq'[Len(sq')] = sq[Len(sq)]
      OBVIOUS
    <3>1. n # 0
      BY <1>3, EmptySequence
    <3>2. n \in 1..n
      BY <3>1
    <3>. QED BY <1>2, <1>3, <3>2
  <2>. QED BY <1>0, <1>14, <2>1, <2>2 DEF Complete
<1>. QED BY Zenon, <1>11, <1>13, <1>15, <1>16

\* A call that fails returns with an error recorded.
LEMMA Failed ==
    ASSUME TypeOK, NEW err \in Int \ {0}, Fail(err), UNCHANGED <<pending, block_index>>
    PROVE  Cut' /\ CutTypes' /\ error' \in Int \ {0} /\ pc' = "idle" /\ op' = "none"
<1>0. pending \in Pending /\ block_index \in Nat /\ error \in Int
  BY DEF TypeOK
<1>1. error' \in Int \ {0}
  BY <1>0 DEF Fail
<1>2. /\ pc' = "idle" /\ op' = "none" /\ buf' = <<>> /\ len' = 0 /\ block' = ZeroBlock
  BY DEF Fail, Return
<1>3. buf' \in Seq(Byte) /\ block' \in Block
  BY <1>2 DEF Block, ZeroBlock
<1>4. CutTypes'
  BY <1>0, <1>2, <1>3 DEF CutTypes
<1>5. Cut'
  BY Zenon, <1>1 DEF Cut, Accounted, Placed, Covered, Complete, OuterIsPrefix, QueueCoversMessage
<1>. QED BY <1>1, <1>2, <1>4, <1>5

LEMMA NextCreateFails == IInv /\ CreateFails => Cut' /\ CutTypes' /\ error' \in Int
<1>. SUFFICES ASSUME IInv, CreateFails PROVE Cut' /\ CutTypes' /\ error' \in Int
  OBVIOUS
<1>1. TypeOK /\ Fail(ENOMEM) /\ UNCHANGED <<pending, block_index>> /\ ENOMEM \in Int \ {0}
  BY DEF IInv, CreateFails, indexVars, ENOMEM
<1>. QED BY <1>1, Failed

LEMMA NextSubmitRejected ==
    IInv /\ SubmitRejected => Cut' /\ CutTypes' /\ error' \in Int /\ sq' \in Seq(Submission)
<1>. SUFFICES ASSUME IInv, SubmitRejected
              PROVE  Cut' /\ CutTypes' /\ error' \in Int /\ sq' \in Seq(Submission)
  OBVIOUS
<1>1. /\ TypeOK /\ Fail(pool_error) /\ UNCHANGED <<pending, block_index>>
      /\ pool_error \in Int \ {0}
  BY DEF IInv, TypeOK, SubmitRejected, indexVars
<1>2. sq' \in Seq(Submission)
  <2>0. block_index \in Nat /\ block \in Block /\ sq \in Seq(Submission) /\ ~block.zero
    BY <1>1 DEF TypeOK, SubmitRejected
  <2>. DEFINE sub == [create_data EXCEPT !.completed = TRUE, !.error = pool_error]
  <2>1. sub \in Submission
    BY Zenon, <1>1, <2>0 DEF Submission, create_data, Block
  <2>2. sq' = Append(sq, sub)
    BY DEF SubmitRejected
  <2>. HIDE DEF sub
  <2>. QED BY Zenon, <2>0, <2>1, <2>2, OneMore
<1>3. Cut' /\ CutTypes' /\ error' \in Int
  BY <1>1, Failed
<1>. QED BY <1>2, <1>3

LEMMA NextHashFirst ==
    IInv /\ HashFirst => /\ Cut' /\ CutTypes' /\ error' \in Int /\ sq' \in Seq(Submission)
                         /\ outer' \in Seq(Seq(Byte)) /\ hashed_index' \in Nat
<1>. SUFFICES ASSUME IInv, HashFirst
              PROVE  /\ Cut' /\ CutTypes' /\ error' \in Int /\ sq' \in Seq(Submission)
                     /\ outer' \in Seq(Seq(Byte)) /\ hashed_index' \in Nat
  OBVIOUS
<1>0. /\ TypeOK /\ hashed_index \in Nat /\ sq \in Seq(Submission) /\ error \in Int
      /\ outer \in Seq(Seq(Byte))
  BY DEF IInv, TypeOK
<1>. DEFINE sub == Head(sq)
            u == OuterUpdates(sub)
<1>1. /\ sq # <<>> /\ sq' = Tail(sq)
      /\ UNCHANGED <<pending, block_index, finalized, message>>
      /\ \/ hash_submission(sub) /\ UNCHANGED <<error, pc, callVars, block, cont>>
         \/ hash_submission_fails(sub)
  BY DEF HashFirst, FirstCompleted
<1>2. sub \in Submission /\ sq' \in Seq(Submission)
  BY Zenon, <1>0, <1>1, HeadAndTail
<1>3. sub.error \in Int /\ u \in Seq(Seq(Byte)) /\ Len(u) \in Nat
  BY <1>0, <1>2, SubmissionType, UpdatesAre
<1>4. CASE hash_submission(sub) /\ UNCHANGED <<error, pc, callVars, block, cont>>
  <2>0. UNCHANGED <<error, pc, op, block, cont, callVars>>
    BY <1>4 DEF callVars
  <2>1. OuterIsPrefix' /\ QueueCoversMessage' /\ Covered' /\ Complete'
    BY <1>1, <1>4, <2>0, FirstTaken
  <2>2. Accounted' /\ Placed' /\ CutTypes'
    BY <1>1, <2>0, CallerSame
  <2>3. outer' = outer \o u /\ hashed_index' = hashed_index + Len(u)
    BY <1>4 DEF hash_submission
  <2>. HIDE DEF u
  <2>4. outer' \in Seq(Seq(Byte)) /\ hashed_index' \in Nat
    BY <1>0, <1>3, <2>3, Concatenation
  <2>. QED BY <1>0, <1>2, <2>0, <2>1, <2>2, <2>4 DEF Cut
<1>5. CASE hash_submission_fails(sub)
  <2>1. PICK err \in Int \ {0} : Fail(err)
    BY <1>3, <1>5 DEF hash_submission_fails, ENOMEM
  <2>2. Cut' /\ CutTypes' /\ error' \in Int
    BY <1>0, <1>1, <2>1, Failed
  <2>3. CASE UNCHANGED <<outer, hashed_index>>
    BY <1>0, <1>2, <2>2, <2>3
  <2>4. CASE \E n \in 0 .. Len(u) - 1 : /\ outer' = outer \o SubSeq(u, 1, n)
                                        /\ hashed_index' = hashed_index + n
    <3>. HIDE DEF u
    <3>1. PICK n \in 0 .. Len(u) - 1 : /\ outer' = outer \o SubSeq(u, 1, n)
                                       /\ hashed_index' = hashed_index + n
      BY Zenon, <2>4
    <3>2. 0 \in Nat /\ n \in Nat /\ 0 <= n /\ n <= Len(u) /\ 0 + 1 = 1
      BY <1>3
    <3>3. SubSeq(u, 0 + 1, n) \in Seq(Seq(Byte))
      BY <1>3, <3>2, Part
    <3>. DEFINE v == SubSeq(u, 1, n)
    <3>4. v \in Seq(Seq(Byte)) /\ outer' = outer \o v
      BY <3>1, <3>2, <3>3
    <3>. HIDE DEF v
    <3>5. outer' \in Seq(Seq(Byte))
      BY <1>0, <3>4, Concatenation
    <3>6. hashed_index' \in Nat
      BY <1>0, <3>1, <3>2
    <3>. QED BY <1>2, <2>2, <3>5, <3>6
  <2>. QED BY <1>5, <2>3, <2>4 DEF hash_submission_fails
<1>. QED BY <1>1, <1>4, <1>5

LEMMA NextCollected == IInv /\ Collected => Cut' /\ CutTypes'
<1>. SUFFICES ASSUME IInv, Collected PROVE Cut' /\ CutTypes'
  OBVIOUS
<1>0. /\ Control /\ Accounted /\ Placed /\ Covered /\ Complete /\ OuterIsPrefix
      /\ QueueCoversMessage /\ CutTypes
  BY DEF IInv, TypeOK, CutTypes
<1>1. /\ pc = "collect" /\ pc' = cont /\ block' = ZeroBlock
      /\ pending' = pending /\ finalized' = finalized /\ buf' = buf /\ len' = len
      /\ op' = op /\ message' = message /\ sq' = sq /\ outer' = outer
      /\ block_index' = block_index /\ hashed_index' = hashed_index /\ error' = error
  BY DEF Collected, callVars, indexVars
<1>2. cont \in {"clear", "inflight", "blocks"}
  BY <1>0, <1>1 DEF Control
<1>3. Waiting = FALSE /\ Waiting' = FALSE /\ (Clearing' <=> Clearing)
  BY <1>1, <1>2 DEF Waiting, Clearing
<1>4. Taken' = Taken /\ Position' = Position
  BY Zenon, <1>1, <1>3 DEF Taken, Position
<1>5. Accounted'
  BY <1>0, <1>1, <1>2, <1>3, <1>4 DEF Accounted
<1>6. Placed'
  <2>1. Holds(pending, Taken * BlockSize)' <=> Holds(pending, Taken * BlockSize)
    BY Zenon, <1>1, <1>4 DEF Holds
  <2>. QED BY Zenon, <1>0, <1>1, <1>3, <1>4, <2>1 DEF Placed
<1>7. OuterIsPrefix' /\ QueueCoversMessage'
  BY Zenon, <1>0, <1>1 DEF OuterIsPrefix, QueueCoversMessage
<1>8. From(Len(sq) + 1)' = From(Len(sq) + 1) /\ \A i \in DOMAIN sq : End(sq'[i]) = End(sq[i])
  BY <1>1 DEF From, End
<1>9. Covered'
  BY Zenon, <1>0, <1>1, <1>8 DEF Covered
<1>10. Complete'
  BY Zenon, <1>0, <1>1, <1>3, <1>8 DEF Complete
<1>11. block' \in Block
  BY <1>1 DEF Block, ZeroBlock
<1>. QED BY Zenon, <1>0, <1>1, <1>5, <1>6, <1>7, <1>9, <1>10, <1>11 DEF Cut, CutTypes

LEMMA NextFinish == IInv /\ Finish => Cut' /\ CutTypes' /\ error' \in Int
<1>. SUFFICES ASSUME IInv, Finish PROVE Cut' /\ CutTypes' /\ error' \in Int
  OBVIOUS
<1>0. /\ TypeOK /\ Control /\ Accounted /\ Placed /\ Covered /\ Complete /\ OuterIsPrefix
      /\ QueueCoversMessage /\ CutTypes /\ error \in Int
  BY DEF IInv, TypeOK, CutTypes
<1>1. /\ pc = "inflight" /\ pending' = pending /\ finalized' = finalized
      /\ message' = message /\ sq' = sq /\ outer' = outer
      /\ block_index' = block_index /\ hashed_index' = hashed_index
  BY DEF Finish, indexVars
<1>2. CASE Fail(ENOMEM)
  BY <1>0, <1>1, <1>2, Failed DEF ENOMEM
<1>3. CASE error' = error /\ \E value : Return(value)
  <2>1. /\ pc' = "idle" /\ op' = "none" /\ buf' = <<>> /\ len' = 0 /\ block' = ZeroBlock
        /\ error' = error
    BY <1>3 DEF Return
  <2>2. finalized /\ op = "final" /\ buf = <<>> /\ len = 0
    BY <1>0, <1>1 DEF Control
  <2>3. ~Waiting /\ ~Waiting' /\ ~Clearing /\ ~Clearing'
    BY <1>1, <2>1 DEF Waiting, Clearing
  <2>4. Taken' = Taken /\ Position' = Position
    BY Zenon, <1>1, <2>3 DEF Taken, Position
  <2>5. Accounted'
    BY Zenon, <1>0, <1>1, <2>1, <2>2, <2>3, <2>4 DEF Accounted
  <2>6. Placed'
    <3>1. Holds(pending, Taken * BlockSize)' <=> Holds(pending, Taken * BlockSize)
      BY <1>1, <2>4 DEF Holds
    <3>2. Len(buf') = 0 /\ len' = 0
      BY <2>1
    <3>. QED BY <1>0, <1>1, <2>1, <2>3, <2>4, <3>1, <3>2 DEF Placed
  <2>7. OuterIsPrefix' /\ QueueCoversMessage'
    BY Zenon, <1>0, <1>1, <2>1 DEF OuterIsPrefix, QueueCoversMessage
  <2>8. From(Len(sq) + 1)' = From(Len(sq) + 1) /\ \A i \in DOMAIN sq : End(sq'[i]) = End(sq[i])
    BY <1>1 DEF From, End
  <2>9. Covered'
    BY <1>0, <1>1, <2>1, <2>8 DEF Covered
  <2>10. Complete'
    BY Zenon, <2>1 DEF Complete
  <2>11. block' \in Block /\ buf' \in Seq(Byte)
    BY <2>1 DEF Block, ZeroBlock
  <2>. QED BY <1>0, <1>1, <2>1, <2>5, <2>6, <2>7, <2>9, <2>10, <2>11 DEF Cut, CutTypes
<1>. QED BY <1>2, <1>3 DEF Finish

-----------------------------------------------------------------------------
(* The inductive invariant *)

LEMMA BuffersAre ==
    ASSUME NEW bytes \in Buffers
    PROVE  bytes \in Seq(Byte)
BY SizesAssumption DEF Buffers

LEMMA NextUpdate ==
    ASSUME IInv, NEW bytes \in Buffers, NEW cp \in BOOLEAN, Update(bytes, cp)
    PROVE  /\ Cut' /\ CutTypes' /\ op' \in {"update", "aio_update"}
           /\ message' \in Seq(Byte) /\ message_length' = Len(message')
<1>. DEFINE name == IF cp THEN "update" ELSE "aio_update"
<1>1. name \in Adding /\ name \in {"update", "aio_update"}
  BY DEF Adding
<1>2. Accept(name, bytes) /\ buf' = bytes /\ len' = 0
  BY DEF Update
<1>. HIDE DEF name
<1>3. op' = name
  BY <1>2 DEF Accept
<1>. QED BY <1>1, <1>2, <1>3, BuffersAre, NextAccept

LEMMA NextZero ==
    ASSUME IInv, NEW n \in Nat, Zero(n)
    PROVE  /\ Cut' /\ CutTypes' /\ op' = "zero"
           /\ message' \in Seq(Byte) /\ message_length' = Len(message')
<1>. DEFINE bytes == Zeros(n)
<1>1. bytes \in Seq(Byte) /\ Len(bytes) = n /\ \A i \in 1..n : bytes[i] = 0
  BY ZeroBytes
<1>2. Accept("zero", bytes) /\ buf' = <<>> /\ len' = n
  BY DEF Zero
<1>. HIDE DEF bytes
<1>3. "zero" \in Adding /\ op' = "zero"
  BY <1>2 DEF Adding, Accept
<1>. QED BY <1>1, <1>2, <1>3, NextAccept

\* Calls that are refused change nothing but what they return, and a worker that does
\* not start changes nothing but the error of the pool.
LEMMA NextRefused ==
    ASSUME IInv, RefuseAfterError \/ FinalAgain \/ WorkerNotStarted \/ UNCHANGED vars
    PROVE  Cut' /\ CutTypes'
<1>1. UNCHANGED <<pending, block_index, hashed_index, sq, outer, error, finalized, pc, callVars,
                  block, cont, message, op>>
  BY DEF RefuseAfterError, FinalAgain, WorkerNotStarted, vars, indexVars, callVars
<1>2. sq \in Seq(Submission)
  BY DEF IInv, TypeOK
<1>3. OuterIsPrefix' /\ QueueCoversMessage' /\ Covered' /\ Complete'
  BY <1>1, <1>2, Relabelled
<1>4. Accounted' /\ Placed' /\ CutTypes'
  BY <1>1, CallerSame
<1>. QED BY <1>3, <1>4 DEF Cut

LEMMA NextCut == IInv /\ [Next]_vars => Cut' /\ CutTypes'
<1>. SUFFICES ASSUME IInv, [Next]_vars PROVE Cut' /\ CutTypes'
  OBVIOUS
<1>1. ASSUME NEW bytes \in Buffers, NEW cp \in BOOLEAN, Update(bytes, cp) PROVE Cut' /\ CutTypes'
  BY <1>1, NextUpdate
<1>2. ASSUME NEW n \in 0..MaxZeros, Zero(n) PROVE Cut' /\ CutTypes'
  BY <1>2, NextZero
<1>3. CASE RefuseAfterError \/ FinalAgain \/ WorkerNotStarted \/ UNCHANGED vars
  BY <1>3, NextRefused
<1>4. CASE Final
  BY <1>4, NextFinal
<1>5. CASE Step
  BY Zenon, <1>5, NextFillData, NextFillZeros, NextDataBlocks, NextZeroBlocks, NextRest, NextClear,
     NextCreateFails, NextSubmitZero, NextSubmitData, NextSubmitRejected, NextHashFirst,
     NextCollected, NextFinish DEF Step
<1>6. ASSUME NEW i \in DOMAIN sq, HashBlock(i) \/ HashBlockFails(i) PROVE Cut' /\ CutTypes'
  BY <1>6, NextHashBlock
<1>. QED BY <1>1, <1>2, <1>3, <1>4, <1>5, <1>6 DEF Next, Call, Work

\* The queue, the outer digest and the error.
LEMMA NextQueueTypes ==
    IInv /\ [Next]_vars => /\ sq' \in Seq(Submission) /\ outer' \in Seq(Seq(Byte))
                           /\ hashed_index' \in Nat /\ error' \in Int
<1>. SUFFICES ASSUME IInv, [Next]_vars
              PROVE  /\ sq' \in Seq(Submission) /\ outer' \in Seq(Seq(Byte))
                     /\ hashed_index' \in Nat /\ error' \in Int
  OBVIOUS
<1>0. /\ sq \in Seq(Submission) /\ outer \in Seq(Seq(Byte)) /\ hashed_index \in Nat /\ error \in Int
  BY DEF IInv, TypeOK
<1>1. CASE UNCHANGED <<sq, outer, hashed_index, error>>
  BY <1>0, <1>1
<1>2. CASE SubmitZero
  BY <1>0, <1>2, NextSubmitZero DEF SubmitZero
<1>3. CASE SubmitData
  BY <1>0, <1>3, NextSubmitData DEF SubmitData
<1>4. CASE SubmitRejected
  BY <1>0, <1>4, NextSubmitRejected DEF SubmitRejected, indexVars
<1>5. CASE HashFirst
  BY <1>5, NextHashFirst
<1>6. CASE CreateFails
  BY Zenon, <1>0, <1>6, NextCreateFails DEF CreateFails, indexVars
<1>7. CASE Finish
  BY <1>0, <1>7, NextFinish DEF Finish, indexVars
<1>8. ASSUME NEW i \in DOMAIN sq, HashBlock(i) \/ HashBlockFails(i)
      PROVE  /\ sq' \in Seq(Submission) /\ outer' \in Seq(Seq(Byte))
             /\ hashed_index' \in Nat /\ error' \in Int
  BY Zenon, <1>0, <1>8, NextHashBlock DEF HashBlock, HashBlockFails, indexVars
<1>9. CASE Call \/ WorkerNotStarted \/ UNCHANGED vars
  <2>1. UNCHANGED <<sq, outer, hashed_index, error>>
    BY <1>9 DEF WorkerNotStarted, Call, Update, Zero, Accept, RefuseAfterError, Final, FinalAgain, vars, indexVars
  <2>. QED BY Zenon, <1>1, <2>1
<1>10. CASE FillData \/ FillZeros \/ DataBlocks \/ ZeroBlocks \/ Rest \/ Clear \/ Collected
  <2>1. UNCHANGED <<sq, outer, hashed_index, error>>
    BY <1>10 DEF FillData, FillZeros, DataBlocks, ZeroBlocks, Rest, Clear, Collected, indexVars
  <2>. QED BY <1>1, <2>1
<1>. QED BY Zenon, <1>2, <1>3, <1>4, <1>5, <1>6, <1>7, <1>8, <1>9, <1>10 DEF Next, Step, Work

\* The message grows when a call is accepted.
LEMMA NextMessage ==
    IInv /\ [Next]_vars => /\ message' \in Seq(Byte) /\ message_length' = Len(message')
                           /\ copy' \in BOOLEAN /\ finalized' \in BOOLEAN
<1>. SUFFICES ASSUME IInv, [Next]_vars
              PROVE  /\ message' \in Seq(Byte) /\ message_length' = Len(message')
                     /\ copy' \in BOOLEAN /\ finalized' \in BOOLEAN
  OBVIOUS
<1>0. /\ message \in Seq(Byte) /\ message_length = Len(message) /\ copy \in BOOLEAN
      /\ finalized \in BOOLEAN
  BY DEF IInv, TypeOK
<1>1. ASSUME NEW bytes \in Buffers, NEW cp \in BOOLEAN, Update(bytes, cp)
      PROVE  /\ message' \in Seq(Byte) /\ message_length' = Len(message')
             /\ copy' = cp /\ finalized' = finalized
  BY <1>1, NextUpdate DEF Update, Accept
<1>2. ASSUME NEW n \in 0..MaxZeros, Zero(n)
      PROVE  /\ message' \in Seq(Byte) /\ message_length' = Len(message')
             /\ copy' = FALSE /\ finalized' = finalized
  <2>1. n \in Nat
    OBVIOUS
  <2>. QED BY Zenon, <1>2, <2>1, NextZero DEF Zero, Accept
<1>3. CASE Final
  BY <1>0, <1>3 DEF Final
<1>4. CASE RefuseAfterError \/ FinalAgain \/ WorkerNotStarted \/ UNCHANGED vars
  BY Zenon, <1>0, <1>4 DEF RefuseAfterError, FinalAgain, WorkerNotStarted, vars, callVars
<1>5. CASE Step
  <2>1. UNCHANGED <<message, message_length, finalized>> /\ (copy' = copy \/ copy' = FALSE)
    BY <1>5 DEF Step, FillData, FillZeros, DataBlocks, ZeroBlocks, Rest, Clear, CreateFails,
       SubmitZero, SubmitData, SubmitRejected, HashFirst, hash_submission_fails, Collected,
       Finish, Fail, Return, callVars
  <2>. QED BY Zenon, <1>0, <2>1
<1>6. ASSUME NEW i \in DOMAIN sq, HashBlock(i) \/ HashBlockFails(i)
      PROVE  UNCHANGED <<message, message_length, finalized, copy>>
  BY <1>6 DEF HashBlock, HashBlockFails, callVars
<1>. QED BY Zenon, <1>0, <1>1, <1>2, <1>3, <1>4, <1>5, <1>6 DEF Next, Call, Work

\* Where consuming a block leads.
LEMMA ConsumeMoves ==
    /\ \A n, after : consume_zero_blocks(n, after) =>
          \/ pc' = "submit" /\ cont' = after
          \/ pc' = after /\ cont' = cont
    /\ \A d, cp, after : consume_data_block(d, cp, after) =>
          \/ pc' = "submit" /\ cont' = after
          \/ pc' = after /\ cont' = cont
    /\ \A p : consume_pending(p) =>
          \/ pc' = "submit" /\ cont' = "clear"
          \/ pc' = "clear" /\ cont' = cont
<1>1. \A n, after : consume_zero_blocks(n, after) =>
          \/ pc' = "submit" /\ cont' = after
          \/ pc' = after /\ cont' = cont
  BY DEF consume_zero_blocks
<1>2. \A d, cp, after : consume_data_block(d, cp, after) =>
          \/ pc' = "submit" /\ cont' = after
          \/ pc' = after /\ cont' = cont
  BY <1>1 DEF consume_data_block
<1>3. \A p : consume_pending(p) =>
          \/ pc' = "submit" /\ cont' = "clear"
          \/ pc' = "clear" /\ cont' = cont
  BY Zenon, <1>1, <1>2 DEF consume_pending
<1>. QED BY <1>1, <1>2, <1>3

\* The types of the variables that Control is about.
ControlTypes ==
    /\ pc \in {"idle", "fill", "blocks", "submit", "collect", "clear", "inflight"}
    /\ op \in Adding \cup {"none", "final"}
    /\ cont \in {"idle", "blocks", "clear", "inflight"}

LEMMA NextControl == IInv /\ [Next]_vars => Control' /\ ControlTypes'
<1>. SUFFICES ASSUME IInv, [Next]_vars PROVE Control' /\ ControlTypes'
  OBVIOUS
<1>0. /\ Control /\ ControlTypes /\ finalized \in BOOLEAN /\ buf \in Seq(Byte) /\ len \in Nat
      /\ BlockSize \in Nat /\ BlockSize > 0
  BY BlockSizeAssumption DEF IInv, TypeOK, ControlTypes
<1>1. CASE RefuseAfterError \/ FinalAgain \/ WorkerNotStarted \/ UNCHANGED vars
  <2>1. UNCHANGED <<pc, op, cont, finalized, buf, len, error, digest>>
    BY Zenon, <1>1 DEF RefuseAfterError, FinalAgain, WorkerNotStarted, vars, callVars
  <2>. QED BY Zenon, <1>0, <2>1 DEF Control, ControlTypes
<1>2. ASSUME NEW bytes \in Buffers, NEW cp \in BOOLEAN, Update(bytes, cp)
      PROVE  Control' /\ ControlTypes'
  <2>1. op' \in {"update", "aio_update"}
    BY <1>2, NextUpdate
  <2>2. /\ pc = "idle" /\ ~finalized /\ finalized' = finalized /\ error' = 0 /\ len' = 0
        /\ pc' \in {"fill", "blocks"} /\ cont' = cont /\ digest' = digest
    BY Zenon, <1>2 DEF Update, Accept, MayCall
  <2>. QED BY <1>0, <2>1, <2>2 DEF Control, ControlTypes, Adding
<1>3. ASSUME NEW n \in 0..MaxZeros, Zero(n) PROVE Control' /\ ControlTypes'
  <2>1. /\ pc = "idle" /\ ~finalized /\ finalized' = finalized /\ error' = 0 /\ buf' = <<>>
        /\ pc' \in {"fill", "blocks"} /\ cont' = cont /\ digest' = digest /\ op' = "zero"
    BY Zenon, <1>3 DEF Zero, Accept, MayCall
  <2>. QED BY Zenon, <1>0, <2>1 DEF Control, ControlTypes, Adding
<1>4. CASE Final
  <2>1. /\ pc = "idle" /\ ~finalized /\ finalized' = TRUE /\ (error = 0 \/ FinalAfterError)
        /\ op' = "final" /\ UNCHANGED <<error, buf, len, digest>>
    BY <1>4 DEF Final, MayCall
  <2>2. \/ pc' = "submit" /\ cont' = "clear"
        \/ pc' = "clear" /\ cont' = cont
        \/ pc' = "submit" /\ cont' = "inflight"
    BY Zenon, <1>4, ConsumeMoves DEF Final, SubmitTail
  <2>. QED BY Zenon, <1>0, <2>1, <2>2 DEF Control, ControlTypes, Adding
<1>5. CASE FillData \/ FillZeros
  <2>1. /\ pc = "fill" /\ UNCHANGED <<error, finalized, op, digest>>
        /\ \/ op \in {"update", "aio_update"} /\ len' = len
           \/ op = "zero" /\ buf' = buf
    BY Zenon, <1>5 DEF FillData, FillZeros
  <2>2. \/ pc' = "submit" /\ cont' = "clear"
        \/ pc' = "clear" /\ cont' = cont
        \/ pc' = "blocks" /\ cont' = cont
    BY Zenon, <1>5, ConsumeMoves DEF FillData, FillZeros
  <2>. QED BY Zenon, <1>0, <2>1, <2>2 DEF Control, ControlTypes, Adding
<1>6. CASE DataBlocks \/ ZeroBlocks
  <2>1. /\ pc = "blocks" /\ UNCHANGED <<error, finalized, op, digest>>
        /\ \/ Len(buf) >= BlockSize /\ len' = len
           \/ len >= BlockSize /\ buf' = buf
    BY Zenon, <1>6 DEF DataBlocks, ZeroBlocks
  <2>2. \/ pc' = "submit" /\ cont' = "blocks"
        \/ pc' = "blocks" /\ cont' = cont
    BY <1>6, ConsumeMoves DEF DataBlocks, ZeroBlocks
  <2>3. \/ buf # <<>> /\ len' = len
        \/ len # 0 /\ buf' = buf
    BY <1>0, <2>1
  <2>. QED BY Zenon, <1>0, <2>1, <2>2, <2>3 DEF Control, ControlTypes, Adding
<1>7. CASE pc # "idle" /\ finalized' = finalized /\ \E value : Return(value)
  <2>1. /\ pc' = "idle" /\ op' = "none" /\ buf' = <<>> /\ len' = 0 /\ cont' = "idle"
    BY <1>7 DEF Return
  <2>2. finalized \/ digest' = digest \/ Finish
    BY Zenon, <1>0, <1>7 DEF Next, Call, Update, Zero, Accept, RefuseAfterError, Final, FinalAgain,
       MayCall, Step, FillData, FillZeros, DataBlocks, ZeroBlocks, Rest, Clear, CreateFails,
       SubmitZero, SubmitData, SubmitRejected, HashFirst, Collected, Work, HashBlock,
       HashBlockFails, WorkerNotStarted, vars
  <2>3. finalized \/ digest' = NoDigest
    BY <1>0, <1>7, <2>2 DEF Control, Finish
  <2>. QED BY <1>7, <2>1, <2>3 DEF Control, ControlTypes, Adding
<1>8. CASE Rest \/ CreateFails \/ SubmitRejected \/ Finish
  <2>1. pc # "idle" /\ finalized' = finalized /\ \E value : Return(value)
    BY Zenon, <1>8 DEF Rest, CreateFails, SubmitRejected, Finish, Fail
  <2>. QED BY Zenon, <1>7, <2>1
<1>9. CASE Clear
  <2>1. /\ pc = "clear" /\ pc' = IF op = "final" THEN "inflight" ELSE "blocks"
        /\ UNCHANGED <<error, finalized, op, buf, len, copy, cont, ret, digest>>
    BY Zenon, <1>9 DEF Clear, callVars
  <2>. QED BY <1>0, <2>1 DEF Control, ControlTypes, Adding
<1>10. CASE SubmitZero \/ SubmitData
  BY <1>0, <1>10 DEF SubmitZero, SubmitData, callVars, Control, ControlTypes, Adding
<1>11. CASE HashFirst
  <2>1. pc # "idle" /\ finalized' = finalized /\ digest' = digest
    BY Zenon, <1>11 DEF HashFirst
  <2>2. CASE UNCHANGED <<error, pc, callVars, block, cont, ret>>
    BY Zenon, <1>0, <2>1, <2>2 DEF callVars, Control, ControlTypes
  <2>3. CASE hash_submission_fails(Head(sq))
    <3>1. \E value : Return(value)
      BY Zenon, <2>3 DEF hash_submission_fails, Fail
    <3>. QED BY Zenon, <1>7, <2>1, <3>1
  <2>. QED BY <1>11, <2>2, <2>3 DEF HashFirst
<1>12. CASE Collected
  BY <1>0, <1>12 DEF Collected, callVars, Control, ControlTypes, Adding
<1>13. ASSUME NEW i \in DOMAIN sq, HashBlock(i) \/ HashBlockFails(i) PROVE Control' /\ ControlTypes'
  BY <1>0, <1>13 DEF HashBlock, HashBlockFails, callVars, Control, ControlTypes
<1>. QED BY Zenon, <1>1, <1>2, <1>3, <1>4, <1>5, <1>6, <1>8, <1>9, <1>10, <1>11, <1>12, <1>13
     DEF Next, Call, Step, Work

\* Only a worker sets the error of the pool.
LEMMA PoolErrorKept == [Next]_vars /\ ~WorkerNotStarted => pool_error' = pool_error
BY Zenon DEF Next, Call, Update, Zero, Accept, RefuseAfterError, Final, FinalAgain, Step,
   FillData, FillZeros, DataBlocks, ZeroBlocks, Rest, Clear, CreateFails, SubmitZero,
   SubmitData, SubmitRejected, HashFirst, Collected, Finish, Work, HashBlock, HashBlockFails,
   vars

LEMMA InitIInv == Init => IInv
<1>. SUFFICES ASSUME Init PROVE IInv
  OBVIOUS
<1>0. /\ pending = NoPending /\ block_index = 0 /\ hashed_index = 0 /\ message_length = 0
      /\ sq = <<>> /\ outer = <<>> /\ error = 0 /\ finalized = FALSE /\ pc = "idle"
      /\ op = "none" /\ buf = <<>> /\ len = 0 /\ copy = FALSE /\ block = ZeroBlock
      /\ cont = "idle" /\ message = <<>> /\ digest = NoDigest /\ pool_error = 0
  BY DEF Init
<1>1. BlockSize \in Nat /\ BlockSize > 0
  BY BlockSizeAssumption
<1>2. pending \in Pending /\ pending.len = 0
  <2>1. ZeroMd \in [1..BlockSize -> Byte] /\ 0 \in 0..BlockSize
    BY <1>1, ByteAssumption DEF ZeroMd, Zeros
  <2>. QED BY <1>0, <2>1 DEF Pending, NoPending
<1>3. block \in Block
  <2>1. <<>> \in Seq(Byte) /\ TRUE \in BOOLEAN /\ FALSE \in BOOLEAN
    OBVIOUS
  <2>2. block = [zero |-> TRUE, data |-> <<>>, copy |-> FALSE]
    BY <1>0 DEF ZeroBlock
  <2>. QED BY <2>1, <2>2 DEF Block
<1>4. TypeOK
  <2>1. /\ sq \in Seq(Submission) /\ outer \in Seq(Seq(Byte)) /\ buf \in Seq(Byte)
        /\ message \in Seq(Byte) /\ message_length = Len(message)
    BY <1>0
  <2>2. {block_index, hashed_index, len} \subseteq Nat /\ {error, pool_error} \subseteq Int
    BY <1>0
  <2>3. finalized \in BOOLEAN /\ copy \in BOOLEAN
    BY Zenon, <1>0
  <2>4. /\ pc \in {"idle", "fill", "blocks", "submit", "collect", "clear", "inflight"}
        /\ op \in Adding \cup {"none", "final"}
        /\ cont \in {"idle", "blocks", "clear", "inflight"}
    BY <1>0
  <2>. QED BY <1>2, <1>3, <2>1, <2>2, <2>3, <2>4 DEF TypeOK
<1>5. Control
  BY <1>0 DEF Control, Adding
<1>6. ~Clearing /\ Waiting = FALSE /\ Taken = 0
  BY <1>0 DEF Clearing, Waiting, Taken
<1>7. 0 * BlockSize = 0 /\ Len(buf) = 0 /\ Len(message) = 0 /\ DOMAIN sq = {} /\ Len(sq) = 0
  BY <1>0, <1>1
<1>8. Position = 0
  BY <1>2, <1>6, <1>7 DEF Position
<1>9. Accounted
  <2>1. Position + Len(buf) + len = Len(message)
    BY <1>0, <1>7, <1>8
  <2>. QED BY <1>0, <1>1, <1>2, <2>1 DEF Accounted
<1>10. Placed
  BY <1>0, <1>2, <1>6, <1>7, <1>8 DEF Placed, Holds
<1>11. From(Len(sq) + 1) = 0
  BY <1>0, <1>7 DEF From
<1>12. Covered
  BY <1>0, <1>7, <1>11 DEF Covered
<1>13. Complete
  BY <1>0 DEF Complete
<1>14. OuterIsPrefix /\ QueueCoversMessage
  BY <1>0, <1>7 DEF OuterIsPrefix, QueueCoversMessage
<1>. QED BY <1>4, <1>5, <1>9, <1>10, <1>12, <1>13, <1>14 DEF IInv

\* The bytes of the calls are where the counters say, and the queue covers the blocks
\* that were taken: this holds in every state.
THEOREM Invariance == Spec => []IInv
<1>1. Init => IInv
  BY InitIInv
<1>2. IInv /\ [Next]_vars => IInv'
  <2>. SUFFICES ASSUME IInv, [Next]_vars PROVE IInv'
    OBVIOUS
  <2>1. Cut' /\ CutTypes'
    BY NextCut
  <2>2. Control' /\ ControlTypes'
    BY NextControl
  <2>3. TypeOK'
    <3>1. /\ sq' \in Seq(Submission) /\ outer' \in Seq(Seq(Byte))
          /\ hashed_index' \in Nat /\ error' \in Int
      BY NextQueueTypes
    <3>2. /\ message' \in Seq(Byte) /\ message_length' = Len(message')
          /\ copy' \in BOOLEAN /\ finalized' \in BOOLEAN
      BY NextMessage
    <3>3. pool_error' \in Int
      <4>1. CASE WorkerNotStarted
        BY <4>1 DEF WorkerNotStarted, ENOMEM
      <4>2. CASE ~WorkerNotStarted
        BY <4>2, PoolErrorKept DEF IInv, TypeOK
      <4>. QED BY <4>1, <4>2
    <3>. QED BY <2>1, <2>2, <3>1, <3>2, <3>3 DEF TypeOK, CutTypes, ControlTypes
  <2>. QED BY <2>1, <2>2, <2>3 DEF IInv, Cut
<1>. QED BY <1>1, <1>2, PTL DEF Spec

\* The outer digest is fed with the digests of the blocks of the message in order, none
\* lost, repeated or swapped, however the message was cut into calls and the workers
\* ran (hash_submission() in lib/blkhash.c).
THEOREM OuterInOrder == Spec => []OuterIsPrefix
<1>1. IInv => OuterIsPrefix
  BY DEF IInv
<1>. QED BY <1>1, Invariance, PTL

\* The queue holds the blocks of the message in order, and what is between them is zero
\* (submit_data_block(), submit_zero_block() and the workers' zero detection).
THEOREM QueueIsInOrder == Spec => []QueueCoversMessage
<1>1. IInv => QueueCoversMessage
  BY Zenon DEF IInv
<1>. QED BY <1>1, Invariance, PTL

\* Between calls the full blocks and the pending bytes are the message, and the pending
\* buffer never overflows (do_update(), blkhash_zero(), consume_pending()).
THEOREM BytesAreAccounted == Spec => []BytesAccounted
<1>1. IInv => BytesAccounted
  <2>. SUFFICES ASSUME IInv PROVE BytesAccounted
    OBVIOUS
  <2>0. /\ Control /\ Accounted /\ Placed /\ pending \in Pending /\ block_index \in Nat
        /\ finalized \in BOOLEAN /\ message_length = Len(message) /\ BlockSize \in Nat
    BY BlockSizeAssumption DEF IInv, TypeOK
  <2>1. pending.len \in 0..BlockSize /\ pending.len <= BlockSize
    BY <2>0 DEF Pending
  <2>. SUFFICES ASSUME error = 0, pc = "idle", ~finalized
                PROVE  /\ pending.len < BlockSize
                       /\ block_index * BlockSize + pending.len = Len(message)
                       /\ \A i \in 1..pending.len :
                             message[block_index * BlockSize + i]
                                 = IF pending.zero THEN 0 ELSE pending.data[i]
    BY <2>0, <2>1 DEF BytesAccounted
  <2>2. ~Clearing /\ Waiting = FALSE /\ Taken = block_index
    BY <2>0 DEF Clearing, Waiting, Taken
  <2>3. Len(buf) = 0 /\ len = 0
    BY <2>0 DEF Control
  <2>4. PICK k \in Nat : k = block_index * BlockSize
    BY <2>0
  <2>5. Position = k + pending.len
    BY <2>2, <2>4 DEF Position
  <2>6. k + pending.len = Len(message) /\ pending.len < BlockSize
    <3>1. Position + Len(buf) + len = Len(message) /\ pending.len < BlockSize
      BY <2>0, <2>2 DEF Accounted
    <3>. QED BY <2>1, <2>3, <2>5, <3>1
  <2>7. Holds(pending, k)
    BY <2>0, <2>2, <2>4 DEF Placed
  <2>. QED BY <2>4, <2>6, <2>7 DEF Holds
<1>. QED BY <1>1, Invariance, PTL

-----------------------------------------------------------------------------
(* The refinement of HashAPI, for a caller that does not finalize a hash   *)
(* after an error.                                                         *)

\* An accepted call extends the message.
LEMMA AcceptImplements ==
    ASSUME IInv, NEW name, NEW bytes \in Seq(Byte), Accept(name, bytes)
    PROVE  API!Extend
<1>0. message \in Seq(Byte) /\ Control
  BY DEF IInv, TypeOK
<1>1. /\ pc = "idle" /\ ~finalized /\ error = 0 /\ error' = error /\ digest' = digest
      /\ message' = message \o bytes
  BY DEF Accept, MayCall
<1>2. digest = NoDigest
  BY Zenon, <1>0, <1>1 DEF Control
<1>3. /\ message \o bytes \in Seq(Byte) /\ Len(message \o bytes) = Len(message) + Len(bytes)
      /\ \A i \in 1 .. Len(message) + Len(bytes) : (message \o bytes)[i] =
            IF i <= Len(message) THEN message[i] ELSE bytes[i - Len(message)]
  BY <1>0, Concatenation
<1>. DEFINE m == message \o bytes
<1>4. PICK z \in Nat, y \in Nat : z = Len(message) /\ y = Len(bytes)
  BY <1>0
<1>5. m \in Seq(Byte) /\ Len(m) = z + y /\ \A i \in 1..z : m[i] = message[i]
  <2>1. \A i \in 1..z : i \in 1 .. z + y /\ i <= z
    OBVIOUS
  <2>. QED BY <1>3, <1>4, <2>1
<1>6. m = message'
  BY <1>1
<1>. HIDE DEF m
<1>7. 0 \in Nat /\ z \in Nat /\ 0 <= z /\ z <= Len(m) /\ 0 + 1 = 1 /\ z - 0 = z
  BY <1>4, <1>5
<1>8. /\ SubSeq(m, 0 + 1, z) \in Seq(Byte) /\ Len(SubSeq(m, 0 + 1, z)) = z - 0
      /\ \A i \in 1..(z - 0) : SubSeq(m, 0 + 1, z)[i] = m[0 + i]
  BY <1>5, <1>7, Part
<1>. DEFINE p == SubSeq(m, 1, z)
<1>9. p \in Seq(Byte) /\ Len(p) = z /\ \A i \in 1..z : p[i] = m[i]
  <2>1. \A i \in 1..z : 0 + i = i
    OBVIOUS
  <2>. QED BY <1>7, <1>8, <2>1
<1>. HIDE DEF p
<1>10. p = message
  BY Zenon, <1>0, <1>4, <1>5, <1>9, SameSequence
<1>11. SubSeq(message', 1, Len(message)) = message /\ Len(message') >= Len(message)
  BY <1>4, <1>5, <1>6, <1>10 DEF p
<1>. QED BY Zenon, <1>1, <1>2, <1>11 DEF API!Extend

\* A call that records an error.
LEMMA FailImplements ==
    ASSUME IInv, NEW err \in Int \ {0}, Fail(err), pc # "idle", UNCHANGED <<message, digest>>
    PROVE  API!Fail
<1>1. TypeOK /\ Control /\ error \in Int
  BY DEF IInv, TypeOK
<1>2. digest = NoDigest
  BY <1>1 DEF Control
<1>3. error' # 0
  BY <1>1 DEF Fail
<1>. QED BY Zenon, <1>2, <1>3 DEF API!Fail

\* When the last submission was hashed, all blocks of the message were.
LEMMA AllHashed ==
    ASSUME IInv, pc = "inflight", sq = <<>>, error = 0
    PROVE  hashed_index = BlockCount(message)
<1>0. /\ Control /\ Accounted /\ Complete /\ block_index \in Nat /\ hashed_index \in Nat
      /\ message \in Seq(Byte) /\ BlockSize \in Nat /\ BlockSize > 0
  BY BlockSizeAssumption DEF IInv, TypeOK
<1>1. op = "final" /\ finalized
  BY <1>0 DEF Control
<1>2. hashed_index = block_index
  BY <1>0, <1>1 DEF Complete, From
<1>3. Taken = block_index
  BY <1>0 DEF Taken, Waiting
<1>4. PICK z \in Nat : z = Len(message)
  BY <1>0
<1>5. PICK d \in Nat : d = BlockSize /\ d > 0
  BY <1>0
<1>6. block_index * d >= z /\ block_index * d < z + d
  BY <1>0, <1>1, <1>3, <1>4, <1>5 DEF Accounted
<1>7. PICK n \in Nat : n = z + d - 1
  BY <1>5
<1>8. PICK q \in Nat, r \in Nat : q = n \div d /\ r < d /\ n = q * d + r
  BY <1>5, Divide
<1>9. PICK b \in Nat : b = block_index
  BY <1>0
<1>10. b * d <= n /\ n < b * d + d
  <2>1. b * d \in Nat
    OBVIOUS
  <2>. QED BY <1>5, <1>6, <1>7, <1>9, <2>1
<1>11. q = b
  <2>1. ASSUME q < b PROVE FALSE
    <3>1. PICK e \in Nat : b = q + 1 + e
      <4>1. b - q - 1 \in Nat /\ b = q + 1 + (b - q - 1)
        BY <2>1
      <4>. QED BY <4>1
    <3>2. (q + 1 + e) * d = q * d + d + e * d
      OBVIOUS
    <3>3. q * d \in Nat /\ e * d \in Nat
      OBVIOUS
    <3>. QED BY <1>8, <1>10, <3>1, <3>2, <3>3
  <2>2. ASSUME b < q PROVE FALSE
    <3>1. PICK e \in Nat : q = b + 1 + e
      <4>1. q - b - 1 \in Nat /\ q = b + 1 + (q - b - 1)
        BY <2>2
      <4>. QED BY <4>1
    <3>2. (b + 1 + e) * d = b * d + d + e * d
      OBVIOUS
    <3>3. b * d \in Nat /\ e * d \in Nat
      OBVIOUS
    <3>. QED BY <1>8, <1>10, <3>1, <3>2, <3>3
  <2>. QED BY <2>1, <2>2
<1>12. BlockCount(message) = n \div d
  BY <1>4, <1>5, <1>7 DEF BlockCount
<1>. QED BY <1>2, <1>8, <1>9, <1>11, <1>12

\* blkhash_final() returns the digest of the message.
LEMMA FinishImplements ==
    ASSUME IInv, ~FinalAfterError, pc = "inflight", sq = <<>>,
           digest' = [blocks |-> outer, length |-> message_length], UNCHANGED <<message, error>>
    PROVE  API!Finalize
<1>0. /\ Control /\ OuterIsPrefix /\ outer \in Seq(Seq(Byte)) /\ message \in Seq(Byte)
      /\ message_length = Len(message) /\ hashed_index \in Nat
  BY DEF IInv, TypeOK
<1>1. error = 0 /\ digest = NoDigest
  BY <1>0 DEF Control
<1>2. hashed_index = BlockCount(message)
  BY <1>1, AllHashed
<1>3. Len(outer) = hashed_index /\ \A i \in 1..hashed_index : outer[i] = BlockOf(message, i)
  BY <1>0, <1>1 DEF OuterIsPrefix
<1>. DEFINE all == [i \in 1..BlockCount(message) |-> BlockOf(message, i)]
<1>4. outer = all
  <2>1. outer = [i \in 1..Len(outer) |-> outer[i]]
    BY SMTT(30), <1>0
  <2>. QED BY <1>2, <1>3, <2>1
<1>5. digest' = Digest(message)
  BY Zenon, <1>0, <1>4 DEF Digest
<1>6. API!Digest(message) = Digest(message)
  BY DEF API!Digest, Digest, API!BlockOf, BlockOf, API!BlockCount, BlockCount, API!MinOf, MinOf
<1>. QED BY Zenon, <1>1, <1>5, <1>6 DEF API!Finalize

\* A step of a caller that does not finalize a hash after an error is a step of HashAPI,
\* or is not visible.
LEMMA NextImplements ==
    ASSUME IInv, [Next]_vars, ~FinalAfterError
    PROVE  API!Next \/ UNCHANGED API!vars
<1>1. CASE UNCHANGED <<message, error, digest>>
  BY <1>1 DEF API!vars
<1>2. ASSUME NEW bytes \in Buffers, NEW cp \in BOOLEAN, Update(bytes, cp) PROVE API!Next
  <2>1. PICK name : Accept(name, bytes)
    BY <1>2 DEF Update
  <2>. QED BY <2>1, BuffersAre, AcceptImplements DEF API!Next
<1>3. ASSUME NEW n \in 0..MaxZeros, Zero(n) PROVE API!Next
  <2>1. Accept("zero", Zeros(n)) /\ Zeros(n) \in Seq(Byte)
    BY <1>3, ZeroBytes DEF Zero
  <2>. QED BY <2>1, AcceptImplements DEF API!Next
<1>4. CASE RefuseAfterError \/ Final \/ FinalAgain \/ WorkerNotStarted \/ UNCHANGED vars
  <2>1. UNCHANGED <<message, error, digest>>
    BY <1>4 DEF RefuseAfterError, Final, FinalAgain, WorkerNotStarted, vars
  <2>. QED BY Zenon, <1>1, <2>1
<1>5. CASE \/ FillData \/ FillZeros \/ DataBlocks \/ ZeroBlocks \/ Rest \/ Clear
           \/ SubmitZero \/ SubmitData \/ Collected
  <2>1. UNCHANGED <<message, error, digest>>
    BY <1>5 DEF FillData, FillZeros, DataBlocks, ZeroBlocks, Rest, Clear, SubmitZero,
       SubmitData, Collected
  <2>. QED BY <1>1, <2>1
<1>6. ASSUME NEW i \in DOMAIN sq, HashBlock(i) \/ HashBlockFails(i)
      PROVE  API!Next \/ UNCHANGED API!vars
  <2>1. UNCHANGED <<message, error, digest>>
    BY <1>6 DEF HashBlock, HashBlockFails
  <2>. QED BY <1>1, <2>1
<1>7. CASE CreateFails \/ SubmitRejected
  <2>0. pool_error \in Int /\ ENOMEM \in Int \ {0}
    BY DEF IInv, TypeOK, ENOMEM
  <2>1. /\ pc # "idle" /\ UNCHANGED <<message, digest>>
        /\ \E err \in Int \ {0} : Fail(err)
    BY <1>7, <2>0 DEF CreateFails, SubmitRejected
  <2>. QED BY <2>1, FailImplements DEF API!Next
<1>8. CASE HashFirst
  <2>0. /\ sq # <<>> /\ pc # "idle" /\ UNCHANGED <<message, digest>> /\ sq \in Seq(Submission)
    BY <1>8 DEF HashFirst, FirstCompleted, IInv, TypeOK
  <2>1. CASE error' = error
    BY <1>1, <2>0, <2>1
  <2>2. CASE hash_submission_fails(Head(sq))
    <3>1. Head(sq).error \in Int
      BY <2>0, HeadAndTail, SubmissionType
    <3>2. PICK err \in Int \ {0} : Fail(err)
      BY <2>2, <3>1 DEF hash_submission_fails, ENOMEM
    <3>. QED BY <2>0, <3>2, FailImplements DEF API!Next
  <2>. QED BY Zenon, <1>8, <2>1, <2>2 DEF HashFirst
<1>9. CASE Finish
  <2>0. pc = "inflight" /\ sq = <<>> /\ message' = message
    BY <1>9 DEF Finish
  <2>1. CASE digest' = [blocks |-> outer, length |-> message_length] /\ error' = error
    BY <2>0, <2>1, FinishImplements DEF API!Next
  <2>2. CASE Fail(ENOMEM) /\ digest' = digest
    <3>1. ENOMEM \in Int \ {0} /\ pc # "idle"
      BY <2>0 DEF ENOMEM
    <3>. QED BY <2>0, <2>2, <3>1, FailImplements DEF API!Next
  <2>3. CASE error' = error /\ digest' = digest
    BY <1>1, <2>0, <2>3
  <2>. QED BY Zenon, <1>9, <2>1, <2>2, <2>3 DEF Finish
<1>. QED BY <1>2, <1>3, <1>4, <1>5, <1>6, <1>7, <1>8, <1>9 DEF Next, Call, Step, Work

\* The blkhash_update(), blkhash_aio_update(), blkhash_zero() and blkhash_final() of
\* lib/blkhash.c implement HashAPI for a caller that does not finalize a hash after an
\* error: the digest is that of all bytes, however they were cut into calls, for every
\* block size, queue and batch, and whatever fails.
THEOREM ImplementsHashAPI ==
    ASSUME ~FinalAfterError
    PROVE  Spec => ImplementsAPI
<1>1. Init => API!Init
  BY DEF Init, API!Init
<1>2. IInv /\ [Next]_vars => [API!Next]_(API!vars)
  BY NextImplements
<1>. QED BY <1>1, <1>2, Invariance, PTL DEF Spec, ImplementsAPI, API!Spec

-----------------------------------------------------------------------------
(* Calls come to an end *)

\* The steps of a call that are left at a place, not counting the bytes it has
\* and the queue.
Rank(p) == IF p = "idle" THEN 0 ELSE IF p = "clear" THEN 2 ELSE 1

StepsFrom(p, next) ==
    IF p = "fill" THEN 6
    ELSE IF p = "submit" THEN Rank(next) + 3
    ELSE IF p = "collect" THEN Rank(next) + 1
    ELSE Rank(p)

\* A bound of the steps that a call has left: a block costs at most 4 of them, and
\* it brings a submission that is to be popped.
StepsLeft == 4 * (Len(buf) + len) + Len(sq) + StepsFrom(pc, cont)

\* Every step of a call ends it or leaves fewer steps, and the workers do not
\* add any: the loops of do_update(), blkhash_zero(), consume_pending(),
\* hash_completed_submissions() and hash_inflight_submissions() end, so a call
\* can only wait for the first submission of the queue.
CallsAdvance ==
    [][/\ Step => pc' = "idle" \/ StepsLeft' < StepsLeft
       /\ pc # "idle" /\ ~Step => StepsLeft' = StepsLeft]_vars

\* The bound after the pending buffer was filled: no bytes may have been left.
LEMMA FillCosts ==
    \A b, l, q, c, m \in Nat : \A s \in {1, 2, 5} :
        c <= b /\ m <= l => 4 * (c + m) + q + s < 4 * (b + l) + q + 6
OBVIOUS

\* The bound after a block was taken from the arguments of a call.
LEMMA BlockCosts ==
    \A b, l, q, c, m \in Nat : \A s \in {1, 4} :
        c + m < b + l => 4 * (c + m) + q + s < 4 * (b + l) + q + 1
OBVIOUS

\* How the bound compares when its parts are known.
LEMMA FewerSteps ==
    ASSUME NEW b \in Nat, NEW l \in Nat, NEW q \in Nat, NEW r \in Nat,
           b = Len(buf), l = len, q = Len(sq), r = StepsFrom(pc, cont),
           NEW c \in Nat, NEW m \in Nat, NEW p \in Nat, NEW s \in Nat,
           c = Len(buf'), m = len', p = Len(sq'), s = StepsFrom(pc', cont'),
           4 * (c + m) + p + s < 4 * (b + l) + q + r
    PROVE  StepsLeft' < StepsLeft
<1>1. StepsLeft = 4 * (b + l) + q + r
  BY Zenon DEF StepsLeft
<1>2. StepsLeft' = 4 * (c + m) + p + s
  BY Zenon DEF StepsLeft
<1>. QED BY Zenon, <1>1, <1>2

\* The first part of do_update() or blkhash_zero() does not add bytes.
LEMMA FillTakes ==
    ASSUME IInv, FillData \/ FillZeros
    PROVE  /\ Len(buf') \in Nat /\ Len(buf') <= Len(buf)
           /\ len' \in Nat /\ len' <= len /\ sq' = sq
           /\ pc = "fill"
           /\ pc' \in {"clear", "blocks"} \/ (pc' = "submit" /\ cont' = "clear")
<1>0. /\ buf \in Seq(Byte) /\ len \in Nat /\ pending.len \in 0..BlockSize
      /\ BlockSize \in Nat
  <2>1. pending \in Pending /\ buf \in Seq(Byte) /\ len \in Nat
    BY DEF IInv, TypeOK
  <2>. QED BY <2>1, BlockSizeAssumption DEF Pending
<1>1. PICK k \in Nat, b \in Nat, l \in Nat : k = Room /\ b = Len(buf) /\ l = len
  BY <1>0 DEF Room
<1>2. CASE FillData
  <2>1. PICK n \in 0..b : n = MinOf(Len(buf), Room)
    BY <1>1 DEF MinOf
  <2>2. buf' = SubSeq(buf, n + 1, b) /\ len' = len
    BY Zenon, <1>1, <1>2, <2>1 DEF FillData
  <2>3. Len(buf') = b - n
    BY <1>0, <1>1, <2>1, <2>2
  <2>4. b - n \in Nat /\ b - n <= b /\ l <= l
    BY <2>1
  <2>5. Len(buf') \in Nat /\ Len(buf') <= Len(buf) /\ len' \in Nat /\ len' <= len
    BY Zenon, <1>1, <2>2, <2>3, <2>4
  <2>6. /\ sq' = sq /\ pc = "fill"
        /\ pc' \in {"clear", "blocks"} \/ (pc' = "submit" /\ cont' = "clear")
    BY Zenon, <1>2, ConsumeMoves DEF FillData
  <2>. QED BY Zenon, <2>5, <2>6
<1>3. CASE FillZeros
  <2>1. PICK n \in 0..l : n = MinOf(len, Room)
    BY <1>1 DEF MinOf
  <2>2. len' = l - n /\ buf' = buf
    BY Zenon, <1>1, <1>3, <2>1 DEF FillZeros
  <2>4. l - n \in Nat /\ l - n <= l /\ b <= b
    BY <2>1
  <2>5. Len(buf') \in Nat /\ Len(buf') <= Len(buf) /\ len' \in Nat /\ len' <= len
    BY Zenon, <1>1, <2>2, <2>4
  <2>6. /\ sq' = sq /\ pc = "fill"
        /\ pc' \in {"clear", "blocks"} \/ (pc' = "submit" /\ cont' = "clear")
    BY Zenon, <1>3, ConsumeMoves DEF FillZeros
  <2>. QED BY Zenon, <2>5, <2>6
<1>. QED BY Zenon, <1>2, <1>3

\* Full blocks take bytes.
LEMMA BlocksTake ==
    ASSUME IInv, DataBlocks \/ ZeroBlocks
    PROVE  /\ Len(buf') \in Nat /\ len' \in Nat /\ Len(buf') + len' < Len(buf) + len
           /\ sq' = sq /\ pc = "blocks"
           /\ pc' = "blocks" \/ (pc' = "submit" /\ cont' = "blocks")
<1>0. buf \in Seq(Byte) /\ len \in Nat /\ BlockSize \in Nat /\ BlockSize > 0
  BY BlockSizeAssumption DEF IInv, TypeOK
<1>1. PICK b \in Nat, l \in Nat : b = Len(buf) /\ l = len
  BY <1>0
<1>2. CASE DataBlocks
  <2>1. buf' = SubSeq(buf, BlockSize + 1, b) /\ len' = l /\ b >= BlockSize
    BY Zenon, <1>1, <1>2 DEF DataBlocks
  <2>2. Len(buf') = b - BlockSize
    BY <1>0, <1>1, <2>1
  <2>3. b - BlockSize \in Nat /\ (b - BlockSize) + l < b + l
    BY <1>0, <2>1
  <2>4. Len(buf') \in Nat /\ len' \in Nat /\ Len(buf') + len' < Len(buf) + len
    BY Zenon, <1>1, <2>1, <2>2, <2>3
  <2>5. /\ sq' = sq /\ pc = "blocks"
        /\ pc' = "blocks" \/ (pc' = "submit" /\ cont' = "blocks")
    BY Zenon, <1>2, ConsumeMoves DEF DataBlocks
  <2>. QED BY Zenon, <2>4, <2>5
<1>3. CASE ZeroBlocks
  <2>1. len' = l % BlockSize /\ buf' = buf /\ l >= BlockSize
    BY Zenon, <1>1, <1>3 DEF ZeroBlocks, ZeroRest
  <2>2. l % BlockSize \in Nat /\ l % BlockSize < BlockSize
    BY Zenon, CountBlocks
  <2>3. PICK m \in Nat : m = l % BlockSize /\ m < l
    BY <1>0, <2>1, <2>2
  <2>4. b + m < b + l
    BY <2>3
  <2>5. Len(buf') \in Nat /\ len' \in Nat /\ Len(buf') + len' < Len(buf) + len
    BY Zenon, <1>1, <2>1, <2>3, <2>4
  <2>6. /\ sq' = sq /\ pc = "blocks"
        /\ pc' = "blocks" \/ (pc' = "submit" /\ cont' = "blocks")
    BY Zenon, <1>3, ConsumeMoves DEF ZeroBlocks
  <2>. QED BY Zenon, <2>5, <2>6
<1>. QED BY Zenon, <1>2, <1>3

\* Where the steps of a place are natural numbers.
LEMMA StepsFromType ==
    \A p, next : StepsFrom(p, next) \in Nat
BY DEF StepsFrom, Rank

\* Every step of a call that does not end it leaves fewer steps.
LEMMA StepAdvances ==
    ASSUME IInv, Step, pc' # "idle"
    PROVE  StepsLeft' < StepsLeft
<1>0. /\ buf \in Seq(Byte) /\ len \in Nat /\ sq \in Seq(Submission)
      /\ pc \in {"submit", "collect"} => cont \in {"clear", "inflight", "blocks"}
  BY DEF IInv, TypeOK, Control
<1>1. PICK b \in Nat, l \in Nat, q \in Nat, r \in Nat :
         b = Len(buf) /\ l = len /\ q = Len(sq) /\ r = StepsFrom(pc, cont)
  <2>1. Len(buf) \in Nat /\ Len(sq) \in Nat
    BY <1>0
  <2>2. StepsFrom(pc, cont) \in Nat
    BY Zenon, StepsFromType
  <2>. QED BY Zenon, <1>0, <2>1, <2>2
<1>2. PICK s \in Nat : s = StepsFrom(pc', cont')
  BY Zenon, StepsFromType
<1>3. CASE FillData \/ FillZeros
  <2>1. PICK c \in Nat, m \in Nat : c = Len(buf') /\ m = len' /\ c <= b /\ m <= l
    BY Zenon, <1>1, <1>3, FillTakes
  <2>2. q = Len(sq')
    BY Zenon, <1>1, <1>3, FillTakes
  <2>3. /\ pc = "fill"
        /\ pc' \in {"clear", "blocks"} \/ (pc' = "submit" /\ cont' = "clear")
    BY Zenon, <1>3, FillTakes
  <2>4. r = 6 /\ s \in {1, 2, 5}
    BY <1>1, <1>2, <2>3 DEF StepsFrom, Rank
  <2>5. 4 * (c + m) + q + s < 4 * (b + l) + q + r
    BY Zenon, <1>1, <2>1, <2>4, FillCosts
  <2>. QED BY Zenon, <1>1, <1>2, <2>1, <2>2, <2>5, FewerSteps
<1>4. CASE DataBlocks \/ ZeroBlocks
  <2>1. PICK c \in Nat, m \in Nat : c = Len(buf') /\ m = len' /\ c + m < b + l
    BY Zenon, <1>1, <1>4, BlocksTake
  <2>2. q = Len(sq')
    BY Zenon, <1>1, <1>4, BlocksTake
  <2>3. pc = "blocks" /\ (pc' = "blocks" \/ (pc' = "submit" /\ cont' = "blocks"))
    BY Zenon, <1>4, BlocksTake
  <2>4. r = 1 /\ s \in {1, 4}
    BY <1>1, <1>2, <2>3 DEF StepsFrom, Rank
  <2>5. 4 * (c + m) + q + s < 4 * (b + l) + q + r
    BY Zenon, <1>1, <2>1, <2>4, BlockCosts
  <2>. QED BY Zenon, <1>1, <1>2, <2>1, <2>2, <2>5, FewerSteps
<1>5. ASSUME buf' = buf, len' = len, NEW p \in Nat, p = Len(sq'), p + s < q + r
      PROVE  StepsLeft' < StepsLeft
  <2>1. b = Len(buf') /\ l = len'
    BY Zenon, <1>1, <1>5
  <2>2. 4 * (b + l) + p + s < 4 * (b + l) + q + r
    BY <1>5
  <2>. QED BY Zenon, <1>1, <1>2, <1>5, <2>1, <2>2, FewerSteps
<1>6. CASE Clear
  <2>1. /\ buf' = buf /\ len' = len /\ sq' = sq /\ pc = "clear"
        /\ pc' = IF op = "final" THEN "inflight" ELSE "blocks"
    BY Zenon, <1>6 DEF Clear, callVars
  <2>2. r = 2 /\ s = 1 /\ q = Len(sq')
    BY <1>1, <1>2, <2>1 DEF StepsFrom, Rank
  <2>3. q + s < q + r
    BY <2>2
  <2>. QED BY Zenon, <1>5, <2>1, <2>2, <2>3
<1>7. CASE SubmitZero \/ SubmitData
  <2>1. /\ buf' = buf /\ len' = len /\ pc = "submit" /\ pc' = "collect" /\ cont' = cont
    BY Zenon, <1>7 DEF SubmitZero, SubmitData, callVars
  <2>2. \E sub : sq' = Append(sq, sub)
    BY Zenon, <1>7 DEF SubmitZero, SubmitData
  <2>3. Len(sq') = q + 1
    BY <1>0, <1>1, <2>2
  <2>4. r = s + 2
    BY <1>1, <1>2, <2>1 DEF StepsFrom, Rank
  <2>5. PICK p \in Nat : p = q + 1 /\ p + s < q + r
    BY <2>4
  <2>. QED BY Zenon, <1>5, <2>1, <2>3, <2>5
<1>8. CASE HashFirst
  <2>1. sq # <<>> /\ sq' = Tail(sq)
    BY Zenon, <1>8 DEF HashFirst, FirstCompleted
  <2>2. UNCHANGED <<pc, buf, len, cont>>
    BY Zenon, <1>8 DEF HashFirst, hash_submission_fails, Fail, Return, callVars
  <2>3. PICK p \in Nat : p = Len(sq') /\ q = p + 1
    BY <1>0, <1>1, <2>1
  <2>4. s = r
    BY Zenon, <1>1, <1>2, <2>2
  <2>5. p + s < q + r
    BY <2>3, <2>4
  <2>. QED BY Zenon, <1>5, <2>2, <2>3, <2>5
<1>9. CASE Collected
  <2>1. pc = "collect" /\ pc' = cont /\ UNCHANGED <<buf, len, sq>>
    BY Zenon, <1>9 DEF Collected, callVars
  <2>2. r = s + 1
    BY <1>0, <1>1, <1>2, <2>1 DEF StepsFrom, Rank
  <2>3. q = Len(sq') /\ q + s < q + r
    BY <1>1, <2>1, <2>2
  <2>. QED BY Zenon, <1>5, <2>1, <2>3
<1>10. ~(Rest \/ CreateFails \/ SubmitRejected \/ Finish)
  BY Zenon DEF Rest, CreateFails, SubmitRejected, Finish, Fail, Return
<1>. QED BY Zenon, <1>3, <1>4, <1>6, <1>7, <1>8, <1>9, <1>10 DEF Step

\* A worker does not change what a call has left.
LEMMA WorkAddsNothing ==
    ASSUME IInv, NEW i \in DOMAIN sq, HashBlock(i) \/ HashBlockFails(i)
    PROVE  StepsLeft' = StepsLeft
<1>1. UNCHANGED <<pc, buf, len, cont>>
  BY Zenon DEF HashBlock, HashBlockFails, callVars
<1>2. Len(sq') = Len(sq)
  <2>1. \E sub : sq' = [sq EXCEPT ![i] = sub]
    BY DEF HashBlock, HashBlockFails
  <2>2. sq \in Seq(Submission)
    BY DEF IInv, TypeOK
  <2>. QED BY <2>1, <2>2
<1>. QED BY Zenon, <1>1, <1>2 DEF StepsLeft

\* StepsLeft is a number that a call counts down: no call of the blkhash API loops
\* forever, for every block size, buffer, queue size and batch of zero blocks.
THEOREM CallsAlwaysAdvance == Spec => [](StepsLeft \in Nat) /\ CallsAdvance
<1>1. IInv => StepsLeft \in Nat
  <2>. SUFFICES ASSUME IInv PROVE StepsLeft \in Nat
    OBVIOUS
  <2>1. buf \in Seq(Byte) /\ len \in Nat /\ sq \in Seq(Submission)
    BY DEF IInv, TypeOK
  <2>2. StepsFrom(pc, cont) \in Nat
    BY Zenon, StepsFromType
  <2>. QED BY <2>1, <2>2 DEF StepsLeft
<1>2. IInv /\ [Next]_vars
        => [/\ Step => pc' = "idle" \/ StepsLeft' < StepsLeft
            /\ pc # "idle" /\ ~Step => StepsLeft' = StepsLeft]_vars
  <2>. SUFFICES ASSUME IInv, Next
                PROVE  /\ Step => pc' = "idle" \/ StepsLeft' < StepsLeft
                       /\ pc # "idle" /\ ~Step => StepsLeft' = StepsLeft
    OBVIOUS
  <2>1. Call => pc = "idle"
    BY Zenon DEF Call, Update, Zero, Accept, RefuseAfterError, Final, FinalAgain, MayCall
  <2>2. WorkerNotStarted => StepsLeft' = StepsLeft
    BY DEF WorkerNotStarted, StepsLeft, callVars
  <2>. QED BY Zenon, <2>1, <2>2, StepAdvances, WorkAddsNothing DEF Next, Work
<1>. QED BY <1>1, <1>2, Invariance, PTL DEF Spec, CallsAdvance
=============================================================================
