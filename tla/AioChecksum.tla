----------------------------- MODULE AioChecksum ----------------------------
(***************************************************************************)
(* blksum of an image: the worker thread of bin/aio-checksum.c that keeps  *)
(* queue_depth commands moving between reading from the source and hashing *)
(* with the async API of blkhash, and the main thread that joins it and    *)
(* decides whether a checksum is printed.                                  *)
(*                                                                         *)
(* The source is an NBD connection, whose reads complete in any order      *)
(* while the worker is inside libnbd, or a file, whose reads complete at   *)
(* once.  The hash is the AsyncHash that AioQueue implements: the steps of *)
(* the worker that use it conjoin its actions.  SIGINT or SIGTERM may      *)
(* arrive at any time.                                                     *)
(***************************************************************************)
EXTENDS Integers, Sequences, FiniteSets

CONSTANTS
    QueueDepth,   \* opt->queue_depth, the number of commands
    ImageSize,    \* w->image_size
    ReadSize,     \* opt->read_size
    ExtentsSize,  \* opt->extents_size
    MaxExtents,   \* bound: extents in one answer of the server
    Signals,      \* a signal may terminate the program
    Faults        \* what may fail

ASSUME SizesAssumption ==
    /\ {QueueDepth, ReadSize, ExtentsSize, MaxExtents} \subseteq Nat \ {0}
    /\ ImageSize \in Nat

ASSUME KindsAssumption ==
    /\ Signals \in BOOLEAN
    /\ Faults \subseteq {"open", "read", "truncate", "poll", "update", "zero",
                         "final", "pool"}

Commands == 1..QueueDepth

VARIABLES
    nbd,           \* the source is an NBD connection, not a file
    started,       \* every worker of the pool of the hash starts
    pc,            \* where the worker is
    cmd,           \* the commands: offset, length, zero, completed
    read_queue, hash_queue,
    read_offset, bytes_hashed, commands_in_flight,
    extents,       \* the part of w->extents that is not consumed
    revents,       \* the fds poll() found ready
    updating, bad, cq, signals, event, herror,  \* the hash, see AsyncHash
    hashed,        \* history: the number of bytes blkhash was fed with
    digest,        \* blkhash_final() stored a digest
    terminated, failed,
    mpc            \* where the main thread is

srcVars == <<nbd, started, revents>>
queues == <<cmd, read_queue, hash_queue>>
counters == <<read_offset, bytes_hashed, commands_in_flight>>
hashVars == <<updating, bad, cq, signals, event, herror>>
mainVars == <<terminated, failed, mpc>>
vars == <<pc, queues, counters, extents, srcVars, hashVars, hashed, digest,
          mainVars>>

Hash == INSTANCE AsyncHash WITH Updates <- Commands

MinOf(a, b) == IF a <= b THEN a ELSE b

\* init_worker() fills the hash queue with "completed" commands.
Init ==
    /\ nbd \in BOOLEAN /\ started \in {TRUE, "pool" \notin Faults}
    /\ pc = "open"
    /\ cmd = [c \in Commands |-> [offset |-> 0, length |-> 0, zero |-> FALSE,
                                  completed |-> TRUE]]
    /\ read_queue = <<>>
    /\ hash_queue = [i \in Commands |-> i]
    /\ read_offset = 0 /\ bytes_hashed = 0 /\ commands_in_flight = 0
    /\ extents = <<>>
    /\ revents = {}
    /\ Hash!Init
    /\ hashed = 0
    /\ digest = FALSE
    /\ terminated = FALSE /\ failed = FALSE
    /\ mpc = "join"

running == ~(terminated \/ failed)

-----------------------------------------------------------------------------
(* The worker: the loop of process_image() *)

\* The start of an iteration.
LoopTop ==
    IF bytes_hashed >= ImageSize THEN "final"
    ELSE IF read_offset < ImageSize THEN "read"
    ELSE "hash"

\* fail() in the worker: the first failure is kept, unless the program was
\* terminated, and the thread exits.
WorkerFails ==
    /\ failed' = (failed \/ ~terminated)
    /\ pc' = "exited"
    /\ UNCHANGED <<terminated, mpc>>

\* A call of open_nbd() or open_file() fails.
OpenFails == "open" \in Faults /\ WorkerFails

OpenSrc ==
    /\ pc = "open"
    /\ (pc' = LoopTop /\ UNCHANGED mainVars) \/ OpenFails
    /\ UNCHANGED <<queues, counters, extents, srcVars, hashVars, hashed, digest>>

Completed(queue) == {i \in DOMAIN queue : cmd[queue[i]].completed}

\* The first command of the hash queue that read_more_data() can use.
FirstUsable ==
    CHOOSE i \in Completed(hash_queue) : \A j \in Completed(hash_queue) : i <= j

CanRead == read_offset < ImageSize /\ Completed(hash_queue) # {}

\* Reads that were started and did not complete.
Reading == {c \in Commands : ~cmd[c].completed /\ ~cmd[c].zero
                             /\ \E i \in DOMAIN read_queue : read_queue[i] = c}

\* read_completed() or update_completed() for each of the commands.
MarkCompleted(commands) ==
    /\ cmd' = [c \in Commands |-> IF c \in commands
                                  THEN [cmd[c] EXCEPT !.completed = TRUE]
                                  ELSE cmd[c]]
    /\ commands_in_flight' = commands_in_flight - Cardinality(commands)

Total(seq) == LET sum[i \in 0..Len(seq)] ==
                    IF i = 0 THEN 0 ELSE sum[i-1] + seq[i].length
              IN sum[Len(seq)]

\* What an NBD server may answer: some extents from the offset on that do not
\* pass the end of the export.
Answers ==
    {a \in UNION {[1..n -> [length : 1..ImageSize, zero : BOOLEAN]]
                    : n \in 1..MaxExtents} :
        Total(a) <= ImageSize - read_offset}

\* src_extents() without an answer: a single data extent.
Fallback == << [length |-> MinOf(ExtentsSize, ImageSize - read_offset),
                zero |-> FALSE] >>

\* next_extent() fetches extents when all are consumed.  Getting them from the
\* server runs libnbd, which may complete reads.
FetchExtents ==
    /\ pc = "read" /\ CanRead /\ extents = <<>>
    /\ extents' \in {Fallback} \cup (IF nbd THEN Answers ELSE {})
    /\ \E done \in SUBSET Reading : MarkCompleted(done)
    /\ UNCHANGED <<pc, read_queue, hash_queue, read_offset, bytes_hashed,
                   srcVars, hashVars, hashed, digest, mainVars>>

\* Wrong: a whole extent is read, whatever the size of the buffer.
Take_Whole(extent) == extent.length

\* How much of the extent a command gets.
Take(extent) ==
    IF extent.zero THEN extent.length ELSE MinOf(extent.length, ReadSize)

Without(queue, i) == SubSeq(queue, 1, i - 1) \o SubSeq(queue, i + 1, Len(queue))

Consumed(n) ==
    IF Head(extents).length = n THEN Tail(extents)
    ELSE [extents EXCEPT ![1].length = @ - n]

Counted_Zero(zero) == 1 \* wrong: zero extents count as in flight

\* The reads that are in flight after start_read() or start_zero().
Counted(zero) == IF zero \/ ~nbd THEN 0 ELSE 1

\* The command read_more_data() takes next moves to the read queue.
TakeCommand ==
    /\ hash_queue' = Without(hash_queue, FirstUsable)
    /\ read_queue' = Append(read_queue, hash_queue[FirstUsable])

\* One iteration of read_more_data().  A file completes the read at once.
ReadMore ==
    /\ pc = "read" /\ CanRead /\ extents # <<>>
    /\ TakeCommand
    /\ LET n == Take(Head(extents))
           zero == Head(extents).zero
       IN /\ extents' = Consumed(n)
          /\ cmd' = [cmd EXCEPT ![hash_queue[FirstUsable]] =
                        [offset |-> read_offset, length |-> n, zero |-> zero,
                         completed |-> zero \/ ~nbd]]
          /\ commands_in_flight' = commands_in_flight + Counted(zero)
          /\ read_offset' = read_offset + n
    /\ UNCHANGED <<pc, bytes_hashed, srcVars, hashVars, hashed, digest, mainVars>>

\* An earlier read fails while libnbd gets the extents, or the source cannot
\* start the read, which counts already.
ReadFails ==
    /\ "read" \in Faults
    /\ pc = "read" /\ CanRead
    /\ TakeCommand
    /\ \/ extents = <<>> /\ Reading # {} /\ UNCHANGED commands_in_flight
       \/ /\ extents # <<>> /\ ~Head(extents).zero
          /\ commands_in_flight' = commands_in_flight + 1
    /\ WorkerFails
    /\ UNCHANGED <<cmd, read_offset, bytes_hashed, extents, srcVars, hashVars,
                   hashed, digest>>

\* The file is shorter than it was when it was opened: pread() returns 0 and the
\* loop of file_ops_pread() goes on forever.
FileSpins ==
    /\ "truncate" \in Faults
    /\ pc = "read" /\ ~nbd /\ CanRead /\ extents # <<>>
    /\ TakeCommand
    /\ commands_in_flight' = commands_in_flight + 1
    /\ pc' = "spin"
    /\ UNCHANGED <<cmd, read_offset, bytes_hashed, extents, srcVars, hashVars,
                   hashed, digest, mainVars>>

ReadDone ==
    /\ pc = "read" /\ ~CanRead
    /\ pc' = "hash"
    /\ UNCHANGED <<queues, counters, extents, srcVars, hashVars, hashed,
                   digest, mainVars>>

\* Wrong: any read that completed is hashed, also before earlier ones.
HashNext_Any == IF Completed(read_queue) = {} THEN 0
                ELSE CHOOSE i \in Completed(read_queue) : TRUE

\* The position in the read queue of the command hash_more_data() takes next:
\* the first one, if it is completed, or none.
HashNext == IF 1 \in Completed(read_queue) THEN 1 ELSE 0

\* Wrong: the command still counts as completed while it is hashed.
Started_Completed(c) == [cmd EXCEPT ![c].completed = TRUE]

\* start_update() takes the mark of the read away from the command.
Started(c) == [cmd EXCEPT ![c].completed = FALSE]

\* One iteration of hash_more_data(): run_zero() or start_update().
HashMore ==
    /\ pc = "hash" /\ HashNext # 0
    /\ LET c == read_queue[HashNext]
       IN /\ read_queue' = Without(read_queue, HashNext)
          /\ hash_queue' = Append(hash_queue, c)
          /\ hashed' = hashed + cmd[c].length
          /\ \/ /\ cmd[c].zero /\ ~herror
                /\ bytes_hashed' = bytes_hashed + cmd[c].length
                /\ UNCHANGED <<cmd, commands_in_flight, hashVars>>
             \/ /\ ~cmd[c].zero
                /\ cmd' = Started(c)
                /\ commands_in_flight' = commands_in_flight + 1
                /\ Hash!Start(c)
                /\ UNCHANGED bytes_hashed
    /\ UNCHANGED <<pc, read_offset, extents, srcVars, digest, mainVars>>

\* blkhash_zero() or blkhash_aio_update() returns an error.  The command was
\* moved.
HashFails(c) ==
    /\ read_queue' = Without(read_queue, HashNext)
    /\ hash_queue' = Append(hash_queue, c)
    /\ cmd' = IF cmd[c].zero THEN cmd ELSE Started(c)
    /\ WorkerFails
    /\ UNCHANGED <<counters, extents, srcVars, hashed, digest>>

\* The hash failed before, or there are queue_depth updates (EAGAIN).
HashRefused ==
    /\ pc = "hash" /\ HashNext # 0
    /\ LET c == read_queue[HashNext]
       IN /\ herror \/ (~cmd[c].zero /\ Hash!DepthReached)
          /\ HashFails(c)
    /\ UNCHANGED hashVars

\* The call itself fails, and the hash with it.
HashCallFails ==
    /\ pc = "hash" /\ HashNext # 0
    /\ LET c == read_queue[HashNext]
       IN /\ (IF cmd[c].zero THEN "zero" ELSE "update") \in Faults
          /\ HashFails(c)
    /\ Hash!CallFails

AfterHash_Poll == "poll" \* wrong: waits with nothing in flight

\* With commands in flight the worker waits for events, otherwise it goes on.
AfterHash == IF commands_in_flight > 0 THEN "poll" ELSE "check"

HashDone ==
    /\ pc = "hash" /\ HashNext = 0
    /\ pc' = AfterHash
    /\ UNCHANGED <<queues, counters, extents, srcVars, hashVars, hashed,
                   digest, mainVars>>

\* poll() returns when the source has a reply (it is polled only with a read in
\* flight) or the completion fd is readable; a signal does not end it.
Poll ==
    /\ pc = "poll"
    /\ revents' \in (SUBSET {"src", "hash"}) \ {{}}
    /\ "src" \in revents' => Reading # {}
    /\ "hash" \in revents' <=> event
    /\ pc' = IF "src" \in revents' THEN "notify" ELSE "drain"
    /\ UNCHANGED <<nbd, started, queues, counters, extents, hashVars, hashed, digest,
                   mainVars>>

\* poll(), src_aio_prepare() or reading the completion fd fails.
PollFails ==
    /\ "poll" \in Faults
    /\ pc \in {"poll", "drain"}
    /\ WorkerFails
    /\ UNCHANGED <<queues, counters, extents, srcVars, hashVars, hashed, digest>>

AfterNotify == IF "hash" \in revents THEN "drain" ELSE "check"

\* src_aio_notify(): some reads complete, or none yet, or one fails.
Notify ==
    /\ pc = "notify"
    /\ \/ \E done \in SUBSET Reading :
             /\ MarkCompleted(done)
             /\ pc' = AfterNotify
             /\ UNCHANGED mainVars
       \/ "read" \in Faults /\ WorkerFails /\ UNCHANGED <<cmd, commands_in_flight>>
    /\ UNCHANGED <<read_queue, hash_queue, read_offset, bytes_hashed, extents,
                   srcVars, hashVars, hashed, digest>>

\* The worker reads the completion fd before it reaps.
Drain ==
    /\ pc = "drain"
    /\ Hash!Read
    /\ pc' = "reap"
    /\ UNCHANGED <<queues, counters, extents, srcVars, hashed, digest, mainVars>>

\* The completions before the first one with an error.
Good == {i \in DOMAIN cq : \A j \in 1..i : ~cq[j].error}

\* complete_updates() reaps all the completions: update_completed() for every
\* one up to the first that failed.
CompleteUpdates ==
    /\ pc = "reap" /\ Hash!Reap(Len(cq))
    /\ LET n == Cardinality(Good)
       IN /\ MarkCompleted({cq[i].user_data : i \in Good})
          /\ bytes_hashed' = bytes_hashed
                               + Total([i \in 1..n |-> cmd[cq[i].user_data]])
          /\ IF n = Len(cq) THEN pc' = "check" /\ UNCHANGED mainVars
             ELSE WorkerFails
    /\ UNCHANGED <<read_queue, hash_queue, read_offset, extents, srcVars,
                   hashed, digest>>

\* blkhash_aio_completions() fails, because the hash did.
CompletionsFail ==
    /\ pc = "reap" /\ herror
    /\ WorkerFails
    /\ UNCHANGED <<queues, counters, extents, srcVars, hashVars, hashed, digest>>

\* The end of an iteration: the loop ends early when the program was
\* terminated or failed.
Check ==
    /\ pc = "check"
    /\ pc' = IF running THEN LoopTop ELSE "final"
    /\ UNCHANGED <<queues, counters, extents, srcVars, hashVars, hashed,
                   digest, mainVars>>

FinalAllowed_Always == TRUE \* wrong: also after a break

\* The worker finalizes only if nothing stopped it.
FinalAllowed == running

\* The end of worker_thread()
Final ==
    /\ pc = "final"
    /\ \/ digest' = FinalAllowed /\ pc' = "exited" /\ UNCHANGED mainVars
       \/ running /\ "final" \in Faults /\ WorkerFails /\ UNCHANGED digest
    /\ UNCHANGED <<queues, counters, extents, srcVars, hashVars, hashed>>

\* The steps of the worker that no failure is needed for.
Progress ==
    \/ OpenSrc
    \/ FetchExtents
    \/ ReadMore
    \/ ReadDone
    \/ HashMore
    \/ HashRefused
    \/ HashDone
    \/ Poll
    \/ Notify
    \/ Drain
    \/ CompleteUpdates
    \/ CompletionsFail
    \/ Check
    \/ Final

Worker == Progress \/ ReadFails \/ FileSpins \/ HashCallFails \/ PollFails

-----------------------------------------------------------------------------
(* The threads of the hash *)

appVars == <<pc, queues, counters, extents, srcVars, hashed, digest, mainVars>>

UpdateDone(c) == Hash!Done(c) /\ UNCHANGED appVars

SignalEvent == Hash!Signal /\ UNCHANGED appVars

\* A worker cannot hash a block, or blkhash_aio_update() of the command that was
\* moved last fails and returns 0.
UpdateFails(c) ==
    /\ "update" \in Faults
    /\ c \in updating \ bad
    /\ \E call \in {FALSE} \cup {pc = "hash" /\ c = hash_queue[Len(hash_queue)]} :
          Hash!UpdateFails(c, call)
    /\ UNCHANGED appVars

HashThreads == (\E c \in Commands : UpdateDone(c)) \/ SignalEvent

-----------------------------------------------------------------------------
(* The main thread *)

\* handle_signal()
Signal ==
    /\ Signals /\ ~terminated /\ mpc \notin {"printed", "failed", "killed"}
    /\ terminated' = TRUE
    /\ UNCHANGED <<pc, queues, counters, extents, srcVars, hashVars, hashed,
                   digest, failed, mpc>>

\* join_worker(), then destroy_worker(): blkhash_free() joins the threads of
\* the hash, which may have updates left, and only then the buffers go.
JoinWorker ==
    /\ mpc = "join" /\ pc = "exited"
    /\ mpc' = "free_hash"
    /\ UNCHANGED <<pc, queues, counters, extents, srcVars, hashVars, hashed,
                   digest, terminated, failed>>

FreeHash ==
    /\ mpc = "free_hash"
    /\ updating' = {} /\ bad' = {} /\ cq' = <<>> /\ signals' = 0
    /\ mpc' = "free_commands"
    /\ UNCHANGED <<pc, queues, counters, extents, srcVars, event, herror, hashed,
                   digest, terminated, failed>>

FreeCommands ==
    /\ mpc = "free_commands"
    /\ read_queue' = <<>> /\ hash_queue' = <<>>
    /\ mpc' = "decide"
    /\ UNCHANGED <<pc, cmd, counters, extents, srcVars, hashVars, hashed,
                   digest, terminated, failed>>

\* How the program ends.
Outcome ==
    IF terminated THEN "killed" ELSE IF failed THEN "failed" ELSE "printed"

\* main() after the checksum
Decide ==
    /\ mpc = "decide"
    /\ mpc' = Outcome
    /\ UNCHANGED <<pc, queues, counters, extents, srcVars, hashVars, hashed,
                   digest, terminated, failed>>

Main == JoinWorker \/ FreeHash \/ FreeCommands \/ Decide

Ended == mpc \in {"printed", "failed", "killed"}

\* The endless loop, or nothing left to do.
Idle == (pc = "spin" \/ Ended) /\ UNCHANGED vars

Next ==
    \/ Worker
    \/ HashThreads
    \/ \E c \in Commands : UpdateFails(c)
    \/ Main
    \/ Signal
    \/ Idle

Spec == Init /\ [][Next]_vars

\* The worker and main threads run when they can, the server answers every
\* read (a wakeup that completes none is not the only kind), and the hash
\* completes every update if its workers start (AioQueue).  Neither a signal nor
\* a failure need come.
FairSpec ==
    /\ Spec
    /\ WF_vars(Progress) /\ WF_vars(started /\ HashThreads) /\ WF_vars(Main)
    /\ SF_vars(Notify /\ commands_in_flight' < commands_in_flight)

-----------------------------------------------------------------------------
(* Properties *)

Command == [offset : 0..ImageSize, length : 0..ImageSize, zero : BOOLEAN,
            completed : BOOLEAN]

\* The program has its type; data that is read fits the buffer of a command.
TypeOK ==
    /\ pc \in {"open", "read", "hash", "poll", "notify", "drain", "reap",
              "check", "final", "exited", "spin"}
    /\ cmd \in [Commands -> Command]
    /\ \A c \in Commands : cmd[c].zero \/ cmd[c].length <= ReadSize
    /\ read_queue \in Seq(Commands) /\ hash_queue \in Seq(Commands)
    /\ {read_offset, bytes_hashed, hashed} \subseteq 0..ImageSize
    /\ commands_in_flight \in Nat
    /\ extents \in Seq([length : 1..ImageSize, zero : BOOLEAN])
    /\ revents \subseteq {"src", "hash"}
    /\ updating \subseteq Commands /\ bad \subseteq updating
    /\ cq \in Seq([user_data : Commands, error : BOOLEAN])
    /\ signals \in Nat
    /\ {nbd, started, event, herror, digest, terminated, failed} \subseteq BOOLEAN
    /\ mpc \in {"join", "free_hash", "free_commands", "decide", "printed",
               "failed", "killed"}

\* w->commands_in_flight is the number of reads and updates that did not
\* complete, and there are at most queue_depth: the assertions of start_read(),
\* start_update(), read_completed() and update_completed() hold, and
\* blkhash_aio_update() never returns EAGAIN.
CommandsCounted ==
    pc \notin {"exited", "spin"} =>
        /\ commands_in_flight = Cardinality(Reading) + Cardinality(updating) + Len(cq)
        /\ commands_in_flight <= QueueDepth
        /\ pc = "hash" /\ HashNext # 0 => commands_in_flight < QueueDepth

\* The commands in the read queue are the part of the image from what the hash
\* was fed with to read_offset, without a gap and in order, in whatever order
\* the reads complete: the hash gets the image from start to end.
ImageInOrder ==
    pc \notin {"exited", "spin"} =>
        /\ \A i \in DOMAIN read_queue :
              LET next == IF i = Len(read_queue) THEN read_offset
                          ELSE cmd[read_queue[i+1]].offset
              IN cmd[read_queue[i]].offset + cmd[read_queue[i]].length = next
        /\ hashed = IF read_queue = <<>> THEN read_offset
                    ELSE cmd[read_queue[1]].offset

\* The buffer of an update that the hash did not complete is neither read into
\* again nor freed.
BufferInUse ==
    \A c \in updating :
        /\ c \notin Reading
        /\ \E i \in DOMAIN hash_queue : hash_queue[i] = c

\* A checksum is printed only if blkhash_final() returned one, and it does so
\* only after all bytes of the image were hashed, whatever stops the worker.
\* The hash did not fail before: blksum never finalizes a hash whose error
\* blkhash_final() does not look at.
PrintedIsComplete ==
    /\ mpc = "printed" => digest
    /\ digest => hashed = ImageSize /\ bytes_hashed = ImageSize /\ updating = {}
    /\ digest => ~herror

\* blksum ends, with or without a signal or a failure, unless the file it reads
\* was truncated or a worker of the hash did not start: the worker of blksum may
\* then wait for an update that is never completed.
Ends == <>(Ended \/ pc = "spin" \/ ~started)
=============================================================================
