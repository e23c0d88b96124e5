# Verification of blkhash

TLA+ models of the blkhash library (`lib/`) and of the blksum program (`bin/`),
checked with TLC on small instances, and theorems that state their safety for
every instance, checked with TLAPS. Paths below are relative to the root of the
repository. `PROJECT.json` lists the runs, their properties, a mutation of the
model for each property that makes it fail, and the lines of code each
definition models.

## The system

blkhash computes `H( H(block 1) || ... || H(block N) || length )`. The caller's
thread cuts the message into blocks; worker threads hash them; the caller adds
the block digests to the outer digest in order. Blocks of zeros are counted,
not hashed. With the async API the caller's buffer is not copied, and the
caller learns from a completion queue and a file descriptor when a buffer is
free again. blksum drives that API from an event loop that also reads an image
over NBD, usually from a qemu-nbd that it starts and kills.

| part | state | operations | interacts with |
|---|---|---|---|
| hash pool, `lib/hash-pool.c` | queue, idle count, stopped, error | init, submit, worker loop, destroy | submissions, caller |
| submissions, `lib/submission.[ch]` | result, completed flag, FIFO | create, set error, complete, wait, pop, destroy | pool, completions |
| hash, `lib/blkhash.c` | pending buffer, three block indexes, outer digest, error | new, update, aio_update, zero, final, free | all of the library |
| completions, `lib/completion.c` | references, error | new, ref, unref | workers and caller |
| completion queue and event, `lib/blkhash.c`, `lib/event.c` | array, inflight, fd | append, signal, aio_completions | application |
| options, configuration, `lib/config.c` | sizes and limits | setters, zero digest | hash |
| zero detection, `lib/zero.c` | none | is_zero | workers, caller |
| digests, `lib/digest.c` | OpenSSL or BLAKE3 context | create, init, update, final | workers, caller |
| image checksum, `bin/aio-checksum.c` | commands, two queues, counters, extents | read more, hash more, wait for events | hash, source, main |
| sources, `bin/*-src.c`, `bin/src.h` | connection or fd | extents, aio_pread, prepare, notify | image checksum |
| program, `bin/blksum.c` | terminated, failed, options | signals, fail, main | image checksum |
| pipe checksum, `bin/checksum.c` | buffer | read and update loop | hash |
| NBD server, `bin/nbd-server.c` | process, socket, directory | start, stop | image checksum |
| probe, progress, utilities | none to speak of | file header, terminal, parsing | program |

What is hard here: the wakeup that `hash_pool_submit()` skips when it thinks
that enough workers are active; stopping workers of which some never started;
submissions the caller may destroy the moment a worker marks them completed;
results that arrive in any order and zero blocks that exist only as a
difference of indexes; constructors and servers of which any step may fail; the
last reference of a completion, dropped by any
thread; a notification sent outside the lock; one flag in blksum that means
"read" and then "hashed"; signals and failures at any point of all this. The
hazards are listed with their lines in `PROJECT.json`.

## Modules

| module | models | notes |
|---|---|---|
| `HashPool` | `lib/hash-pool.c` | A critical section is one action. The condition variable is the set of workers at `asleep`; a woken worker is `awake`, still counted in `workers_idle`, until it gets the mutex. |
| `HashPoolProofs` | | The theorems about `HashPool`. |
| `Ring` | `struct submission_queue` | The ring buffer with its index arithmetic, and the sequence it stands for. |
| `HashLifecycle` | `blkhash_new_opts()` to `blkhash_free()` | Extends `HashPool` with every step of the constructor, the owner's submission queue (a `Ring`) and the memory both share. Zero submissions, which the pool never sees, are left out. |
| `HashLifecycleProofs` | | A ring of any size is a FIFO, the pool in a hash is `HashPool` until it is used after its release, and the theorems about `HashLifecycle`. |
| `Construction` | `test/blkhash.py` | The reference definition. A digest is the content it digests. |
| `HashAPI` | `include/blkhash.h` | Abstract: bytes are added in order, then one digest, or an error and no digest. |
| `BlkHash` | update, aio_update, zero, final, `lib/zero.c` | A call is a sequence of steps, with workers running between them. Implements `HashAPI`. |
| `BlkHashProofs` | | The theorems about `BlkHash`, and that it implements `HashAPI`. |
| `AsyncHash` | `include/blkhash.h` | Abstract: what an application sees of async updates, completions, the completion fd and errors. |
| `AioQueue` | aio_update, completions, event, aio_completions | A slot is a submission with the worker that has it. A store to `h->error` is two steps, since no lock is held. Implements `AsyncHash`. |
| `AioQueueProofs`, `AioQueueRefinement` | | The theorems about `AioQueue`, and that it implements `AsyncHash`. |
| `AioChecksum` | the worker thread of `bin/aio-checksum.c`, its sources, how main joins it | The hash is `AsyncHash`. |
| `AioChecksumLemmas`, `AioChecksumProofs` | | Sums, queues of commands and the invariant; the theorems about `AioChecksum`. |
| `Options` | `parse_options()`, `optimize_for_nbd_server()`, the option setters, `config_init()` | Operators with the integer conversions of the code. |
| `Blksum` | `main()`, signals, `bin/nbd-server.c`, setup and tear down of the worker, `bin/checksum.c`, `bin/pipe-src.c` | The worker thread is what `AioChecksum` shows of it. |
| `BlksumProofs` | | The theorems about `Blksum`. |
| `MC*` | | Instances for TLC. |

The modules compose from below. `HashLifecycle` uses the actions of `HashPool`.
`BlkHash` relies on what `HashPool` shows, that every submission is completed
once if the workers start; `WorkerNotStarted` stands for one that does not,
after which a submission may stay in the pool for good. `AsyncHash` is the
interface between library and program: `AioQueue` implements it, and
`AioChecksum` takes its actions for the hash, so it relies on nothing about the
library that was not shown. The refinement of `AsyncHash` by `AioQueue` maps an
update to the buffers the library owns, less those with a completion in the
queue. `Blksum` reduces the worker to its outcomes: it ends with a digest unless
it was stopped, it fails, or it is stuck, in the two ways that `AioChecksum`
excepts.

After `hash_pool_init()` failed, `blkhash_free()` stops the pool that was released.
What happens then is undefined, and `HashLifecycle` chooses: a lock or a `free()`
aborts (`aborted`), the second join does not return (`stuck`), or all goes well.

State and actions. Variables keep the names of the struct fields where there is
one (`pending`, `block_index`, `inflight`, `commands_in_flight`). Variables
marked "history" in a module exist only for the properties. `Faults` (and
`HashFaults` for the constructor) is the set of calls that may fail; each
failure follows the error path of the code. In `Blksum` the position of the main
thread is named after the step that comes next, so `MainFault` is every `FAIL()`
that has no condition of its own in the model. A definition whose name ends in
`_Something` beside one without it, with the comment "wrong", is a plausible
bug. No action uses it.

## Runs

| run | question | result |
|---|---|---|
| `pool` | Are idle workers counted, wakeups kept, the queue bounded, STOPs enough, submissions in one place and final once completed? Are all handled if the workers start, and does stopping end? | holds |
| `life` | Whatever step fails: freed when the pool has no submission of it, does a hash leak or use released memory? Is its ring a FIFO, has the pool room? Do the calls (if the workers start) and free return? | holds, with the exceptions below |
| `blk` | Is the digest right for every cut of a message into calls and any order of workers, and if anything fails, is a wrong one ever returned? Does every call return, if the workers start? | yes; never; yes |
| `aio` | Is every update reported once, with its error, after the last use of its buffer, with one notification? Is it reported in the end, if the workers start? Does all this implement `AsyncHash`? | yes |
| `sum` | Is the image hashed in order, are buffers safe, is only a complete checksum printed, does blksum end? | yes, with the exceptions below |
| `blksum` | Is the hash configured well by any options, does qemu-nbd get options and an environment it accepts, is it gone in the end with its files, is only a checksum of the whole input printed, does a signal end the program? | yes, with the exceptions below |
| `life_early` | Free with submissions in progress. | released memory is used |
| `life_init` | A step of `hash_pool_init()` fails. | the pool is used after its release and released twice |
| `life_start` | Workers cannot create a digest. | a call waits forever |
| `blk_error` | Final after an error. | a digest is returned |
| `aio_sign` | Error of a worker that did not start. | reported as a positive number |
| `blksum_left` | The hash cannot be created. | qemu-nbd and its directory stay |

The last six runs state what a comment, the header or a test says and find that
the code does something else; `findings` in `PROJECT.json` quotes the lines.

What the properties of the passing runs exclude, since the code does not promise
it: `NoLeftovers` is about a program that came to its tear down, or whose server
did not start, and not about one whose main thread called `FAIL()` in between
(`blksum_left`) or whose `unlink()`, `rmdir()` or `listen()` failed.
`ServerEnvironment` promises the caller's variables only if none of them was
skipped. `NothingLeaks` excepts the submissions for which `hash_submission()`
failed, which were popped and are never destroyed, and says that they are two at
most. `NoUseAfterFree` and `FreeReturns` except a pool that `hash_pool_init()`
released, and name the steps of the constructor after which it can happen.
`CallsReturn`, `CallReturnsIfStarted` and `EventuallyReported` except a hash of
which a worker could not create its digest (`life_start`). `Ends` of both
programs and `SignalEnds` except that too, and the endless loop of
`file_ops_pread()` over a file that became shorter.

### Bounds, and why they are enough

* `HashPool`: 2 workers, 4 submissions, a queue of 2. One worker sleeps or is
  being woken while the other works, the queue fills up, and a submission
  arrives after that. The code needs room for one STOP per worker, which
  `QueueSizeAssumption` states; `config_init()` gives at least four times that.
  For more workers there are the theorems.
* `HashLifecycle`: 2 workers, a queue of 2 and 3 submissions, so the owner waits
  for room and the indices of the ring wrap; with and without a queue depth.
  For larger rings there are the theorems.
* `BlkHash`: blocks of 3 bytes and words of 2, so `is_zero()` compares a part of
  a word; byte values 0 and 1, messages of up to 7 bytes, a queue of 2, zero
  batches of 2 blocks. Calls end before, at and after a block boundary, zeros
  and data mix in a block, the queue fills, a batch is cut.
* `AioQueue`: 3 requests for a queue depth of 2, 2 submissions at a time, up to
  2 blocks each, reaped one by one from a pipe: requests are refused, a
  completion shares its references among two workers and the caller, and
  completions are left when the application returns to poll.
* `AioChecksum`: a file or an NBD source, chosen at the start; 3 commands of 2
  units for an image of 5 units, answers of up to 2 extents: reads overtake each
  other, extents are longer and shorter than a buffer, and commands are reused.
* `Options` and `Blksum`: an int has 28 bits and a size_t 30 instead of 32 and
  64, for TLC computes with 32 bits; all real defaults and limits keep their
  values. Up to two options (`MaxOptions`) in any order, each with values at the
  limits of its check, values that wrap when they become an int and values that
  are no number: what an option does to the next one shows with two. A pipe of
  up to 3 bytes is read 2 at a time (`PipeBuffer` in place of the read size): the
  buffer is filled by one read or by two, and the last part is full or not. Two
  environments, with and without a variable of socket activation.

`CHECK_DEADLOCK FALSE` is set where the system may stop: an owner that failed
and need not free the hash, an application that gave up.

### Fairness

A thread that is not blocked runs: weak fairness for every worker, for a caller
inside a call, for `pthread_join()`. Nobody has to start a call, and nothing
relies on spurious wakeups, on failures or on signals: the steps that fail are
outside the fair actions wherever the normal step can be blocked. In
`AioChecksum` the NBD server answers every read. A wakeup of the connection may
complete no read, so the answer needs strong fairness: the worker keeps polling,
and not every wakeup is empty. In `Blksum` the main thread runs, the worker ends
as `AioChecksum` shows or is stuck, qemu-nbd starts or is found dead, a killed
process dies, and the writer of the pipe closes it; options and signals need not
come. `life_start` is a counterexample under the same fairness as `life`.

What the pool does for a submission is fair only if its workers start: in `BlkHash`
and `AioQueue` while `pool_error` is 0, and in `AioChecksum` if `started`, which is
chosen at the start. `HashPool` shows `Handled` under just that condition.

## Proofs

Every safety property of the passing runs is also a theorem, for every value of
the constants that the ASSUMEs of its module allow, and so are the two
refinements. All of them have the same shape: an inductive invariant, one lemma
for each conjunct that says that every step keeps it, one step of the proof for
each action, and the property from the invariant. The invariants were checked
with TLC on the instances of the runs before they were proved.

Liveness is out of the prover's reach, but what it rests on is not. For each
component there is a theorem that says that whoever waits, waits for somebody
who can run (`...NeverStuck`, `ApplicationMissesNoEvent`,
`MainWaitsForSomebody`), and, where one thread loops, that its steps lower a
natural number (`...AlwaysAdvance(s)`). They hold for every value of the
constants. What they leave to TLC is the step from there to "eventually", which
takes the fairness of the runs. The properties of these theorems are defined
next to them, and were checked with TLC too.

### The pool (`HashPoolProofs`)

For every finite set of workers, any submissions, any queue size of at least one
entry per worker and any faults:

* `TypeCorrect`: `TypeOK`;
* `IdleIsCounted`: `workers_idle` is exactly the number of workers in the wait
  loop;
* `NoLostWakeup`: while a worker sleeps there are at least as many others as
  queued submissions;
* `QueueIsBounded`: the queue never outgrows its ring;
* `StopReachesEveryone`: after a stop there is a STOP for every worker that
  will fetch one, and nobody sleeps;
* `OneResponsible`: a submitted submission is in one place, the queue or the
  hands of one worker, until it is completed;
* `ResultIsFinal`: no step changes the result of a completed submission;
* `PoolNeverStuck`: a submission without a result has a worker that can run,
  unless a worker could not start, and during the joins every worker ended or can
  run.

The inductive invariant `IInv` adds: a worker has a program counter exactly when
its thread was created (`PcOfThreads`), the pool is stopped only from the joins
on (`StoppedLate`), a worker holds a submission exactly while it works on it,
the places differ, and the submissions with a place are the submitted ones
without a result (`Placed`). It is needed as a whole. Submitting keeps
`EnoughAwake` because `need_wakeup()` compares the queue with
`workers_count - workers_idle`. When it skips the signal, the queue is no longer
than that number, by `IdleCounted` at most the number of workers not asleep.
When it signals, a sleeper becomes one more awake worker for the one more
submission. A worker goes to sleep only on an empty queue. `StoppedLate` rules
out that a thread is created or a submission queued after the STOPs, so each pop
of a STOP takes away one worker that needs one. A worker writes a result only
into what it holds, and by `Placed` that is not completed.

`PoolNeverStuck` adds that before a stop no worker ends and no STOP is queued, and
that a submission finds all the threads created (`WorkersEnd`). A submission that
is not completed is with a worker, which can run, or in the queue. Then
`EnoughAwake` leaves somebody awake, who finds the queue not empty.

Waking up one sleeper with `pthread_cond_signal()` and atomic critical sections
are part of the model.

### The ring and the life cycle (`HashLifecycleProofs`)

Of the ring buffer, for every positive size and any entries:

* `InitIsEmpty`: a new ring is well formed and stands for the empty sequence;
* `PushAppends`: a push to a ring that is not full appends to the sequence;
* `PopIsTail`: a pop from a ring that is not empty removes its head, which is
  what `submission_queue_first()` returns.

So the ring is the sequence that `HashPool` and `BlkHash` use in its place. A
ring is well formed when the tail is the head plus the length modulo the size.
The proofs rest on facts about remainders: a sum of two indices is itself or
itself less the size (`Wraps`), the head and the tail may move one by one
(`Moves`), and the entry the tail points to is none of those in use
(`TailIsFree`). `Entries` lifts them from indices to the contents.

Of a hash, with or without a queue depth, whichever step fails:

* `ImplementsHashPool`: `SpecHash => ([](used = {}) => Spec)`. The pool inside a
  hash behaves as `HashPool` as long as `stop_workers()` uses nothing that was
  released. The second `stop_workers()` after a constructor that failed is no step
  of `HashPool`. The lemmas of `HashPoolProofs` are therefore about `AnyNext`, a step
  of the pool or a `StopWorkers` at any time: the invariant of the pool holds in
  every hash;
* `PoolAlwaysHasRoom`: `hash_pool_submit()` never returns ENOBUFS;
* `QueueStaysInOrder`: the submission queue holds the last submissions that were
  pushed, in their order;
* `FreeLeaksNothing`: after `blkhash_free()` nothing is held but at most two
  submissions, for which `hash_submission()` failed;
* `NothingUsedAfterFree`, under `~FreeEarly`: no released memory is used by a
  worker, if the owner frees the hash when the pool has none of its
  submissions. `life_early` shows that the condition is needed. And the owner uses
  a pool that was released only if `pthread_cond_init()` or `pthread_create()`
  failed in the constructor;
* `OwnerNeverStuck`: when the owner waits for the first submission, that one is
  completed or a worker can run, unless a worker could not start; when it joins the
  workers, each one ended or can run. The phase `stuck` is no such join.

The invariant `HInv` stands on the one of the pool. It relates the phase of the
owner to the life of the pool (`LifeOfPhase`) and to the resources held (`Held`:
after k steps of the constructor, those of the first k steps), the queue to the
order of the pushes (`Fifo`), and every submission to where the owner keeps it:
one that is not completed is in the queue, and one that is not destroyed is in
the queue or was dropped (`Owned`). `DroppedFew` counts those that were dropped:
after the first one updates fail at once, and the second one ends
`blkhash_final()`. `UsedAgain` says what of the pool is gone in which phase, and
which step of the constructor failed if `stop_workers()` uses any of it. The
pool has room because its entries are different, not completed, and therefore in
the owner's queue, which is not full: an injection from the one into the other.

### The blocks (`BlkHashProofs`)

For every block size, word size, set of byte values that has 0, message, queue
size, batch of zero blocks and any faults:

* `OuterInOrder`: the outer digest gets the digests of the blocks in order;
* `QueueIsInOrder`: the queue holds the blocks of the message in order, with
  zero blocks in between;
* `BytesAreAccounted`: between two calls the blocks and the pending bytes are
  the message, and the pending buffer has room;
* `ImplementsHashAPI`, under `~FinalAfterError`: `Spec => ImplementsAPI`. The
  digest is the one of `Construction`, however the message was cut. `blk_error`
  shows that the condition is needed;
* `CallsAlwaysAdvance`: every step of a call ends it or lowers `StepsLeft`, a
  natural number, and the steps of the workers leave it. So a call does not loop;
  it can only wait for the first submission of the queue.

The invariant follows the bytes of a call. `Accounted` and `Placed` say that a
byte of the message is in a block that was taken, pending, or left in the
arguments, at the position that the counters give: `block_index`, a block that
waits for room, and `pending.len` unless the buffer is about to be cleared.
`Covered` says that what no submission covers is zero blocks, and `Complete`
that the last submission of `blkhash_final()` reaches the end, so that
`hash_submission()` adds the trailing zero blocks. `Control` relates the call to
its step. That `is_zero()` compares correctly, by comparing the buffer with
itself one word ahead, is an induction: the least index with a byte that is not
zero contradicts the comparison.

### The async API (`AioQueueProofs`, `AioQueueRefinement`)

For any finite set of updates and slots, any number of blocks, queue depth and
reap count, an eventfd or a pipe and any faults:

* `ReportsOnce`: an update is reported once and only after its submissions;
* `QueueNeverOverflows`: the completion queue has room, and `inflight` counts
  the updates;
* `BufferIsReleased`: a reported buffer is not used any more;
* `FailureIsReported`: an update has an error exactly if a block of it failed;
* `NotifiesOnce`: one notification for a queue that is not empty, while the hash
  did not fail;
* `ApplicationMissesNoEvent`: while the application waits for the event of a hash
  that did not fail, every update of the library is in the pool, or with a worker
  that is going to drop a reference or to append its completion, or it is queued and
  a worker is about to signal the event, or to fail the hash;
* `ImplementsAsyncAPI`: `Spec => ImplementsAsync`.

The heart of the invariant is `RefsCounted`: `completion->refs` is the number of
submissions that hold a reference, plus one while the caller holds its own. So
the one that drops it to 0 is alone, and `Where` follows: an update is with the
holders of references, then with the one thread that appends its completion,
then in the queue, then with the application. What `inflight` counts follows
from that, and the room in the queue from what it counts. After an error the
notification may be missing but is never sent twice (`AtMostOne`). The
refinement maps every step to one of `AsyncHash` or to a stutter: the abstract
`Done` is the append of a completion.

### The image checksum (`AioChecksumLemmas`, `AioChecksumProofs`)

For every image size, queue depth, read size, limit of the extents, both kinds of
source, any answers of the server and any faults:

* `TypeCorrect`: `TypeOK`, with the counters within the image size;
* `CommandsAreCounted`: `commands_in_flight` counts reads and updates, and
  stays below the queue depth where an update starts;
* `ImageIsHashedInOrder`: the reads that were not hashed yet continue the image
  where the hash stands, without a gap;
* `BufferStaysInUse`: no read goes to a buffer of the hash;
* `PrintedAfterAll`: a checksum is printed only after all bytes were hashed and
  reported without an error;
* `WorkerNeverStuck`: `process_image()` polls only while a read, an update or a
  notification is on its way, reading the completion fd does not block, and when
  it goes round without polling the read queue is empty and the image is hashed or
  there is more to read.

The invariant says that a command is in one queue once (`QueuesDiffer`), that a
command with an update in the hash waits in the hash queue (`UpdatesPlaced`),
that the extents end where the image ends (`ReadsFit`), that `bytes_hashed` is
what the hash was fed with less the bytes of the updates not reported
(`BytesCounted`), and that a hash that failed is going to say so
(`FailurePending`). `BytesCounted` is about a sum over the commands. `Sum` is
defined by its partial sums, and what it does when one term changes is shown by
induction (`SumChange`, `SumHead`). `Total`, the recursive function of the model,
is such a sum (`TotalIsSum`).

`WorkerNeverStuck` needs two more invariants. `Notified`: completions that were not
reaped have a signal that was sent or is going to be. `CommandsPlaced`: while the
worker works, a command is in the read queue, or in the hash queue and there
completed or in the hash. With nothing in flight and nothing to hash the read queue
is empty, so the commands are completed in the hash queue, and one is free for the
next read.

### The program (`BlksumProofs`)

For every command line of any number of options with any values, every
environment, any pipe, any faults and all widths of the integers that `Options`
allows, the real ones of 32 and 64 bits included:

* `HashIsConfigured`: the hash gets sizes it accepts, and its queue has room for
  a STOP per worker;
* `ServerGetsOptions`, `ServerGetsEnvironment`: what qemu-nbd is started with;
* `LeavesNothing`: the tear down leaves no process and no files;
* `PrintsWhole`: only a checksum of the whole input is printed;
* `MainWaitsForSomebody`: `main()` joins a worker that runs or ended, waits for a
  server that was killed, and reads the pipe only while its buffer has room. A
  worker that is stuck reads a truncated file, or a worker of its hash did not start;
* `ProgramAlwaysAdvances`: every step of `main()` lowers `StepsLeft`, a natural
  number, which no signal, fault, worker or server raises;
* `SignalIsKept`: a signal that was handled before the decision is not replaced,
  and no step prints a checksum or exits with 1 instead.

The invariant keeps what `parse_options()` left of each option through the
phases of `main()` (`OptionsKept`), which phases an input goes through, when the
server is settled, which files exist, who stores the digest and how many bytes
of the pipe were read. `InputAssumption` in `Blksum` says what the values of
options and the environments are; TLC evaluates it as all the others.

### Only model-checked

* Liveness: `Handled`, `StopTerminates`, `CallReturnsIfStarted`, `FreeReturns`,
  `CallsReturn`, `EventuallyReported`, both `Ends` and `SignalEnds`. The prover
  does not reason about fairness. The safety parts are proved: `PoolNeverStuck`
  for the first two, `OwnerNeverStuck` for the next two, and then
  `CallsAlwaysAdvance`, `ApplicationMissesNoEvent`, `WorkerNeverStuck`, and
  `MainWaitsForSomebody` with `ProgramAlwaysAdvances` and `SignalIsKept`.
* The properties of the runs that find a violation, which do not hold.

The theorems are about the models. That an action is what the code does, the
atomicity it assumes, and that the worker of `Blksum` is the one of `AioChecksum`
and the slots of `AioQueue` are the workers of `HashPool`, is by reading.

## Not modelled

* The memory order of `sub->completed` (release and acquire): taken as
  sequentially consistent.
* Digest algorithms; a digest is collision free, and its calls may fail.
* Calls that add bytes after final.
* The fallbacks of `event_open()` between eventfd, `pipe2()` and `pipe()`, and the
  loops around EINTR and EAGAIN of `lib/event.c`.
* In `AioChecksum`: a completion fd that cannot be signalled. `AioQueue` models
  it, and without the notification the poll of the worker does not return, as a
  comment in `update_completed()` says; so `Ends` assumes that it does not
  happen. What happens inside `blkhash_free()` when updates are in flight is
  `life_early`.
* Opening a source and probing an image: they fail or they succeed. The
  arguments of qemu-nbd, the choice of a URI and the NBD handshake are I/O.
* The parser of numbers, hex output, progress, messages and debug output: pure
  or write-only. What becomes of a parsed number is modelled.
* `man/example-aio.c` and the programs under `test/`; the loop of the example is
  the application of `AioQueue`.

## Other disagreements

Met while modelling, and not worth a run of their own:

* `bin/blksum.c:198` checks that the block size is a multiple of the page size
  before it sets it, so it checks the previous one: an odd block size is refused
  by the library, an even one is used.
* `bin/blksum.c:172` accepts a queue depth of 0 and negative ones, while its
  message says "valid range 1-%d". The setup of the worker fails later.
* A block size of 0 is a division by zero in `bin/blksum.c:219`; below 16 bytes
  the assertion of `is_zero()` ends the program (`HashAborts`).
* `create_env()` leaves a NULL where it skips `LISTEN_PID` or `LISTEN_FDS`, which
  ends the environment there; its comment says "Append the current environment
  skipping LISTEN_PID and LISTEN_FDS".
* `include/blkhash.h:171-172` says that without a queue depth the async functions
  fail with ENOTSUP; `blkhash_aio_update()` returns EAGAIN.
* A queue depth from 2^30 on wraps `max_submissions` in `lib/config.c:51`. The
  program never asks for one, which `HashConfigured` shows; the library does
  not refuse it.
* A submission for which `hash_submission()` fails, since it failed or since the
  outer digest did, is popped and not destroyed (`HashFirst`).
* A `pread()` that returns 0 is not the end of the loop in `bin/file-src.c:29`: a file
  that becomes shorter while it is read keeps blksum busy for ever, and signals do
  not end it.
* When `listen()` fails, `bin/nbd-server.c:209` has forgotten the path of the socket,
  and the directory stays.
