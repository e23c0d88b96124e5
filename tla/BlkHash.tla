------------------------------- MODULE BlkHash ------------------------------
(***************************************************************************)
(* The caller's side of lib/blkhash.c: how blkhash_update(),               *)
(* blkhash_aio_update(), blkhash_zero() and blkhash_final() cut a message  *)
(* into blocks, submit them, and add the results to the outer digest in    *)
(* order, while the workers complete submissions in any order.             *)
(*                                                                         *)
(* A call is a sequence of steps, because the workers run between them:    *)
(* pc says where in the call the caller is.  The pool is reduced to what   *)
(* HashPool shows of it: no submission is completed twice, and every one   *)
(* is completed unless a worker did not start.  inflight, the completions  *)
(* and their queue are left to the async part.                             *)
(***************************************************************************)
EXTENDS Construction

CONSTANTS
    Byte,               \* byte values, 0 among them
    WordSize,           \* the bytes is_zero() looks at one by one, 16
    ZERO_BATCH_SIZE,
    QueueSize,          \* config.max_submissions, the size of the sq
    MaxMessage,         \* bound: bytes in a message
    MaxData, MaxZeros,  \* bounds: bytes in an update and in a zero call
    Faults,             \* the calls that may fail
    FinalAfterError,    \* the caller calls final after a call failed
    NoDigest

ASSUME ByteAssumption == 0 \in Byte

ASSUME SizesAssumption ==
    /\ ZERO_BATCH_SIZE \in Nat \ {0}
    /\ QueueSize \in Nat \ {0}
    /\ WordSize \in 1..BlockSize
    /\ {MaxMessage, MaxData, MaxZeros} \subseteq Nat

ASSUME FaultsAssumption ==
    /\ Faults \subseteq {"malloc", "pool", "block", "outer"}
    /\ FinalAfterError \in BOOLEAN

ENOMEM == 12
EINVAL == 22

VARIABLES
    pending,          \* h->pending
    block_index, submitted_index, hashed_index, message_length,
    sq,               \* h->sq, the submissions in order
    pool_error,       \* h->pool.error, set when a worker does not start
    outer,            \* what h->outer_digest was updated with
    error,            \* h->error
    finalized,        \* h->finalized
    pc, op,           \* the running call and where it is
    buf, len, copy,   \* what is left of its buffer, its zeros, its flag
    block, cont,      \* the block being submitted, and the step after it
    ret,              \* the value returned by the last call
    message,          \* history: the bytes of all accepted calls
    digest            \* the digest blkhash_final() returned

callVars == <<op, buf, len, copy>>
indexVars == <<block_index, submitted_index, hashed_index>>
vars == <<pending, indexVars, message_length, sq, outer, error, finalized,
          pc, callVars, block, cont, ret, message, digest, pool_error>>

ZeroMd == Zeros(BlockSize)

NoPending == [data |-> ZeroMd, len |-> 0, zero |-> FALSE]

\* A submission.  Its md is the content of the block once a worker hashed it.
ZeroBlock == [zero |-> TRUE, data |-> <<>>, copy |-> FALSE]
DataBlock(data, cp) == [zero |-> FALSE, data |-> data, copy |-> cp]

create_zero == [index |-> block_index, zero |-> TRUE, data |-> <<>>,
                copy |-> FALSE, completed |-> TRUE, error |-> 0]
create_data == [index |-> block_index, zero |-> FALSE, data |-> block.data,
                copy |-> block.copy, completed |-> FALSE, error |-> 0]

Init ==
    /\ pending = NoPending
    /\ block_index = 0 /\ submitted_index = 0 /\ hashed_index = 0
    /\ message_length = 0
    /\ sq = <<>>
    /\ pool_error = 0
    /\ outer = <<>>
    /\ error = 0
    /\ finalized = FALSE
    /\ pc = "idle" /\ op = "none" /\ buf = <<>> /\ len = 0 /\ copy = FALSE
    /\ block = ZeroBlock /\ cont = "idle"
    /\ ret = 0
    /\ message = <<>>
    /\ digest = NoDigest

-----------------------------------------------------------------------------
(* Parts of a step *)

Return(value) ==
    /\ pc' = "idle" /\ op' = "none" /\ buf' = <<>> /\ len' = 0 /\ copy' = FALSE
    /\ block' = ZeroBlock /\ cont' = "idle"
    /\ ret' = value

\* set_error() and the returns up to the public function: the error is the
\* value of the call, except that blkhash_aio_update() reports it with the
\* completion and returns 0.
Fail(err) ==
    /\ error' = IF error = 0 THEN err ELSE error
    /\ Return(IF op = "aio_update" THEN 0 ELSE error')

\* pending.data[0..n) from position from on becomes data.
Store(data, from, bytes) ==
    [i \in 1..BlockSize |-> IF i \in from + 1 .. from + Len(bytes)
                            THEN bytes[i - from] ELSE data[i]]

\* The pending buffer after add_pending_data() of bytes that fit.
add_pending_data(bytes) ==
    LET old == IF pending.zero
               THEN Store(pending.data, 0, Zeros(pending.len))
               ELSE pending.data
    IN [data |-> Store(old, pending.len, bytes),
        len |-> pending.len + Len(bytes),
        zero |-> FALSE]

\* The pending buffer after add_pending_zeros() of n zeros that fit.
add_pending_zeros(n) ==
    [data |-> IF pending.len > 0 /\ ~pending.zero
              THEN Store(pending.data, pending.len, Zeros(n))
              ELSE pending.data,
     len |-> pending.len + n,
     zero |-> pending.len = 0 \/ pending.zero]

Room == BlockSize - pending.len

is_zero_FirstWord(data) == \A i \in 1..WordSize : data[i] = 0 \* wrong

\* The first word is zero, and the buffer equals itself shifted by a word.
is_zero(data) ==
    /\ \A i \in 1..WordSize : data[i] = 0
    /\ \A i \in 1..Len(data) - WordSize : data[i] = data[i + WordSize]

is_zero_block(data) == Len(data) = BlockSize /\ is_zero(data)

consume_zero_blocks(count, after) ==
    /\ block_index' = block_index + count
    /\ IF block_index' - submitted_index >= ZERO_BATCH_SIZE
       THEN pc' = "submit" /\ block' = ZeroBlock /\ cont' = after
       ELSE pc' = after /\ UNCHANGED <<block, cont>>

consume_data_block(data, cp, after) ==
    IF cp /\ is_zero_block(data)
    THEN consume_zero_blocks(1, after)
    ELSE /\ pc' = "submit" /\ block' = DataBlock(data, cp) /\ cont' = after
         /\ UNCHANGED block_index

\* The bytes of the pending buffer p; zeros that were only counted are written.
PendingBytes_Stale(p) == p.data \* wrong: keeps the bytes of an earlier block

PendingBytes(p) == IF p.zero THEN Store(p.data, 0, Zeros(p.len)) ELSE p.data

\* consume_pending() of the buffer p; the step "clear" follows on success.
consume_pending(p) ==
    IF p.len = BlockSize /\ p.zero
    THEN pending' = p /\ consume_zero_blocks(1, "clear")
    ELSE /\ pending' = [p EXCEPT !.data = PendingBytes(p)]
         /\ consume_data_block(SubSeq(PendingBytes(p), 1, p.len), TRUE, "clear")

-----------------------------------------------------------------------------
(* The calls *)

MayCall == pc = "idle" /\ ~finalized

\* Start of a call that adds bytes: blkhash_update(), blkhash_aio_update()
\* and blkhash_zero() account for them before anything else.
Accept(name, bytes) ==
    /\ MayCall
    /\ error = 0
    /\ Len(message) + Len(bytes) <= MaxMessage
    /\ message' = message \o bytes
    /\ message_length' = message_length + Len(bytes)
    /\ op' = name
    /\ pc' = IF pending.len > 0 THEN "fill" ELSE "blocks"
    /\ UNCHANGED <<pending, indexVars, sq, outer, error, finalized, block,
                   cont, ret, digest, pool_error>>

Update(bytes, cp) ==
    /\ Accept(IF cp THEN "update" ELSE "aio_update", bytes)
    /\ buf' = bytes /\ copy' = cp /\ len' = 0

Zero(n) ==
    /\ Accept("zero", Zeros(n))
    /\ len' = n /\ buf' = <<>> /\ copy' = FALSE

\* After an error the calls that add bytes return it at once.
RefuseAfterError ==
    /\ MayCall
    /\ error # 0
    /\ ret' = error
    /\ UNCHANGED <<pending, indexVars, message_length, sq, outer, error,
                   finalized, pc, callVars, block, cont, message, digest, pool_error>>

\* The part of do_update() that fills the pending buffer.
FillData ==
    /\ pc = "fill" /\ op \in {"update", "aio_update"}
    /\ LET n == MinOf(Len(buf), Room)
           p == add_pending_data(SubSeq(buf, 1, n))
       IN /\ buf' = SubSeq(buf, n + 1, Len(buf))
          /\ IF p.len = BlockSize
             THEN consume_pending(p)
             ELSE pending' = p /\ pc' = "blocks"
                  /\ UNCHANGED <<block, cont, block_index>>
    /\ UNCHANGED <<submitted_index, hashed_index, message_length, sq, outer,
                   error, finalized, op, len, copy, ret, message, digest, pool_error>>

\* One full block of the caller's buffer.
DataBlocks ==
    /\ pc = "blocks" /\ Len(buf) >= BlockSize
    /\ buf' = SubSeq(buf, BlockSize + 1, Len(buf))
    /\ consume_data_block(SubSeq(buf, 1, BlockSize), copy, "blocks")
    /\ UNCHANGED <<pending, submitted_index, hashed_index, message_length, sq,
                   outer, error, finalized, op, len, copy, ret, message,
                   digest, pool_error>>

\* The same two parts of blkhash_zero().
FillZeros ==
    /\ pc = "fill" /\ op = "zero"
    /\ LET n == MinOf(len, Room)
           p == add_pending_zeros(n)
       IN /\ len' = len - n
          /\ IF p.len = BlockSize
             THEN consume_pending(p)
             ELSE pending' = p /\ pc' = "blocks"
                  /\ UNCHANGED <<block, cont, block_index>>
    /\ UNCHANGED <<submitted_index, hashed_index, message_length, sq, outer,
                   error, finalized, op, buf, copy, ret, message, digest, pool_error>>

ZeroRest_Dropped == 0 \* wrong: the zeros after the last full block are lost

ZeroRest == len % BlockSize

ZeroBlocks ==
    /\ pc = "blocks" /\ len >= BlockSize
    /\ len' = ZeroRest
    /\ consume_zero_blocks(len \div BlockSize, "blocks")
    /\ UNCHANGED <<pending, submitted_index, hashed_index, message_length, sq,
                   outer, error, finalized, op, buf, copy, ret, message,
                   digest, pool_error>>

\* Less than a block is left: keep it pending and return.
Rest ==
    /\ pc = "blocks" /\ Len(buf) < BlockSize /\ len < BlockSize
    /\ pending' = IF buf # <<>> THEN add_pending_data(buf)
                  ELSE IF len > 0 THEN add_pending_zeros(len)
                  ELSE pending
    /\ Return(0)
    /\ UNCHANGED <<indexVars, message_length, sq, outer, error, finalized,
                   message, digest, pool_error>>

\* The end of consume_pending() and what follows it in the running call.
Clear ==
    /\ pc = "clear"
    /\ pending' = [pending EXCEPT !.len = 0, !.zero = FALSE]
    /\ pc' = IF op = "final" THEN "inflight" ELSE "blocks"
    /\ UNCHANGED <<indexVars, message_length, sq, outer, error, finalized,
                   callVars, block, cont, ret, message, digest, pool_error>>

\* Nothing is pending: blkhash_final() submits the zero blocks after the last
\* submission.  The first variant is wrong, it goes on without them.
SubmitTail_Nothing == pc' = "inflight" /\ UNCHANGED <<block, cont>>

SubmitTail == pc' = "submit" /\ block' = ZeroBlock /\ cont' = "inflight"

\* blkhash_final() does not look at h->error.
Final ==
    /\ MayCall
    /\ error = 0 \/ FinalAfterError
    /\ finalized' = TRUE
    /\ op' = "final"
    /\ IF pending.len > 0
       THEN consume_pending(pending)
       ELSE SubmitTail /\ UNCHANGED <<pending, block_index>>
    /\ UNCHANGED <<submitted_index, hashed_index, message_length, sq, outer,
                   error, buf, len, copy, ret, message, digest, pool_error>>

FinalAgain ==
    /\ pc = "idle" /\ finalized
    /\ ret' = EINVAL
    /\ UNCHANGED <<pending, indexVars, message_length, sq, outer, error,
                   finalized, pc, callVars, block, cont, message, digest, pool_error>>

-----------------------------------------------------------------------------
(* Submitting a block and adding results to the outer digest *)

SqFull == Len(sq) = QueueSize

\* submission_create_data() or submission_create_zero() fails.
CreateFails ==
    /\ "malloc" \in Faults
    /\ pc = "submit" /\ ~SqFull
    /\ Fail(ENOMEM)
    /\ UNCHANGED <<pending, indexVars, message_length, sq, outer, finalized,
                   message, digest, pool_error>>

\* submit_zero_block()
SubmitZero ==
    /\ pc = "submit" /\ ~SqFull /\ block.zero
    /\ sq' = Append(sq, create_zero)
    /\ submitted_index' = block_index
    /\ pc' = "collect"
    /\ UNCHANGED <<pending, block_index, hashed_index, message_length, outer,
                   error, finalized, callVars, block, cont, ret, message,
                   digest, pool_error>>

\* submit_data_block()
SubmitData ==
    /\ pc = "submit" /\ ~SqFull /\ ~block.zero
    /\ pool_error = 0
    /\ sq' = Append(sq, create_data)
    /\ submitted_index' = block_index
    /\ block_index' = block_index + 1
    /\ pc' = "collect"
    /\ UNCHANGED <<pending, hashed_index, message_length, outer, error,
                   finalized, callVars, block, cont, ret, message, digest,
                   pool_error>>

\* hash_pool_submit() fails and completes the submission, which stays in sq.
SubmitRejected ==
    /\ pc = "submit" /\ ~SqFull /\ ~block.zero
    /\ pool_error # 0
    /\ sq' = Append(sq, [create_data EXCEPT !.completed = TRUE,
                                            !.error = pool_error])
    /\ Fail(pool_error)
    /\ UNCHANGED <<pending, indexVars, message_length, outer, finalized,
                   message, digest, pool_error>>

\* Wrong: the zero blocks before the submission are forgotten.
OuterUpdates_NoZeros(sub) == IF sub.zero THEN <<>> ELSE <<sub.data>>

\* What hash_submission() updates the outer digest with: a digest for every
\* zero block before the submission, and its own.
OuterUpdates(sub) ==
    [i \in 1 .. (IF hashed_index < sub.index THEN sub.index - hashed_index
                                             ELSE 0) |-> ZeroMd]
        \o (IF sub.zero THEN <<>> ELSE <<sub.data>>)

hash_submission(sub) ==
    LET updates == OuterUpdates(sub)
    IN /\ sub.error = 0
       /\ outer' = outer \o updates
       /\ hashed_index' = hashed_index + Len(updates)

\* The submission failed, or the outer digest does after n updates.
hash_submission_fails(sub) ==
    LET updates == OuterUpdates(sub)
    IN \/ sub.error # 0 /\ Fail(sub.error) /\ UNCHANGED <<outer, hashed_index>>
       \/ /\ "outer" \in Faults /\ sub.error = 0
          /\ \E n \in 0 .. Len(updates) - 1 :
                /\ outer' = outer \o SubSeq(updates, 1, n)
                /\ hashed_index' = hashed_index + n
          /\ Fail(ENOMEM)

FirstCompleted == sq # <<>> /\ Head(sq).completed

\* maybe_hash_first_submission() waits when the queue is full,
\* hash_completed_submissions() takes what is completed, and
\* hash_inflight_submissions() waits for all.
HashFirst ==
    /\ FirstCompleted
    /\ pc \in {"collect", "inflight"} \/ (pc = "submit" /\ SqFull)
    /\ sq' = Tail(sq)
    /\ \/ /\ hash_submission(Head(sq))
          /\ UNCHANGED <<error, pc, callVars, block, cont, ret>>
       \/ hash_submission_fails(Head(sq))
    /\ UNCHANGED <<pending, block_index, submitted_index, message_length,
                   finalized, message, digest, pool_error>>

\* hash_completed_submissions() is done.
Collected ==
    /\ pc = "collect"
    /\ ~FirstCompleted
    /\ pc' = cont /\ block' = ZeroBlock /\ cont' = "idle"
    /\ UNCHANGED <<pending, indexVars, message_length, sq, outer, error,
                   finalized, callVars, ret, message, digest, pool_error>>

\* hash_message_length() and digest_final() end blkhash_final(); an error of
\* the last one is returned and not recorded.
Finish ==
    /\ pc = "inflight" /\ sq = <<>>
    /\ \/ /\ digest' = [blocks |-> outer, length |-> message_length]
          /\ Return(0)
          /\ UNCHANGED error
       \/ /\ "outer" \in Faults
          /\ Fail(ENOMEM) \/ (Return(ENOMEM) /\ UNCHANGED error)
          /\ UNCHANGED digest
    /\ UNCHANGED <<pending, indexVars, message_length, sq, outer, finalized,
                   message, pool_error>>

\* A submission after a worker hashed it or found out that it is zero.
Hashed_NotCompleted(sub) == \* wrong
    [sub EXCEPT !.zero = ~sub.copy /\ is_zero_block(sub.data)]

Hashed(sub) ==
    [sub EXCEPT !.completed = TRUE,
                !.zero = ~sub.copy /\ is_zero_block(sub.data)]

\* A worker hashes the i-th submission.
HashBlock(i) ==
    /\ ~sq[i].completed
    /\ sq' = [sq EXCEPT ![i] = Hashed(@)]
    /\ UNCHANGED <<pending, indexVars, message_length, outer, error, finalized,
                   pc, callVars, block, cont, ret, message, digest, pool_error>>

\* compute_block_digest() fails.
HashBlockFails(i) ==
    /\ "block" \in Faults
    /\ ~sq[i].completed
    /\ sq' = [sq EXCEPT ![i].completed = TRUE, ![i].error = ENOMEM]
    /\ UNCHANGED <<pending, indexVars, message_length, outer, error, finalized,
                   pc, callVars, block, cont, ret, message, digest, pool_error>>

\* digest_create() fails in a worker that starts, at any time after the hash
\* was created.
WorkerNotStarted ==
    /\ "pool" \in Faults
    /\ pool_error = 0 /\ pool_error' = -ENOMEM
    /\ UNCHANGED <<pending, indexVars, message_length, sq, outer, error, finalized,
                   pc, callVars, block, cont, ret, message, digest>>

-----------------------------------------------------------------------------

Step ==
    \/ FillData
    \/ FillZeros
    \/ DataBlocks
    \/ ZeroBlocks
    \/ Rest
    \/ Clear
    \/ CreateFails
    \/ SubmitZero
    \/ SubmitData
    \/ SubmitRejected
    \/ HashFirst
    \/ Collected
    \/ Finish

Buffers == UNION {[1..n -> Byte] : n \in 0..MaxData}

Call ==
    \/ \E bytes \in Buffers, cp \in BOOLEAN : Update(bytes, cp)
    \/ \E n \in 0..MaxZeros : Zero(n)
    \/ RefuseAfterError
    \/ Final
    \/ FinalAgain

Work == \E i \in DOMAIN sq : HashBlock(i)

Next ==
    \/ Call
    \/ Step
    \/ Work
    \/ \E i \in DOMAIN sq : HashBlockFails(i)
    \/ WorkerNotStarted

Spec == Init /\ [][Next]_vars

\* A thread inside a call keeps running, and so do the workers.  HashPool shows
\* that every submission is completed if all the workers start; if one does not,
\* a submission may wait in the pool for good.  Nobody has to make a call.
FairSpec == Spec /\ WF_vars(Step) /\ WF_vars(pool_error = 0 /\ Work)

-----------------------------------------------------------------------------
(* Properties *)

\* While nothing failed, the outer digest was fed with exactly the digests of
\* the first hashed_index blocks of the message, in order, whatever the calls
\* were and in whatever order the workers completed: no block is lost,
\* repeated or swapped, and the zero blocks that were only counted are there.
OuterIsPrefix ==
    error = 0 =>
        /\ Len(outer) = hashed_index
        /\ \A i \in 1..hashed_index : outer[i] = BlockOf(message, i)

\* The pending buffer never overflows, and between calls every byte of the
\* message is accounted for: block_index full blocks, and fewer than a block of
\* pending bytes that are its tail.
BytesAccounted ==
    /\ pending.len <= BlockSize
    /\ error = 0 /\ pc = "idle" /\ ~finalized =>
          /\ message_length = Len(message)
          /\ pending.len < BlockSize
          /\ block_index * BlockSize + pending.len = Len(message)
          /\ \A i \in 1..pending.len :
                message[block_index * BlockSize + i]
                    = IF pending.zero THEN 0 ELSE pending.data[i]

\* The submissions in sq are in the order of their blocks, each data block is
\* the block of the message at its index, and all blocks between them are zero.
\* (A zero submission stands for the blocks before its index, and so does one
\* a worker found to be zero.)
QueueCoversMessage ==
    error = 0 =>
        \A i \in DOMAIN sq :
            LET from == IF i = 1 THEN hashed_index
                        ELSE sq[i-1].index + (IF sq[i-1].zero THEN 0 ELSE 1)
            IN /\ from <= sq[i].index
               /\ \A b \in from + 1 .. sq[i].index :
                     BlockOf(message, b) = ZeroMd
               /\ ~sq[i].zero =>
                     sq[i].data = BlockOf(message, sq[i].index + 1)

\* The API contract: HashAPI is what a caller may rely on.
API == INSTANCE HashAPI WITH failed <- error # 0

ImplementsAPI == API!Spec

\* "Once set, any operation will fail quickly with this error": no digest is
\* returned by a hash that failed.
NoDigestAfterError == digest # NoDigest => error = 0

\* Every call returns, unless a worker of the pool did not start: the call may
\* then wait for a submission that nobody takes.
CallsReturn == pc # "idle" ~> pc = "idle" \/ pool_error # 0
=============================================================================
