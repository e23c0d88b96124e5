---------------------------- MODULE Construction ----------------------------
(***************************************************************************)
(* The blkhash construction, H( H(block 1) || ... || H(block N) || length ) *)
(* as the header, the documentation and the reference implementation       *)
(* test/blkhash.py define it.  H is taken to be free of collisions: the    *)
(* digest of a block is the content of the block, and the digest of the    *)
(* message is the record of what the outer digest was fed with.            *)
(***************************************************************************)
EXTENDS Integers, Sequences

CONSTANT BlockSize

ASSUME BlockSizeAssumption == BlockSize \in Nat \ {0}

MinOf(a, b) == IF a <= b THEN a ELSE b

Zeros(n) == [i \in 1..n |-> 0]

\* The content of block i of message m, counting from 1; the last block may
\* be partial.
BlockOf(m, i) ==
    SubSeq(m, (i - 1) * BlockSize + 1, MinOf(i * BlockSize, Len(m)))

BlockCount(m) == (Len(m) + BlockSize - 1) \div BlockSize

Digest(m) ==
    [blocks |-> [i \in 1..BlockCount(m) |-> BlockOf(m, i)],
     length |-> Len(m)]
=============================================================================
