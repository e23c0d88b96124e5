---------------------------- MODULE BlksumProofs ----------------------------
(***************************************************************************)
(* Proofs about Blksum, for every command line, environment and input, and *)
(* for all widths of the integers that Options allows.                     *)
(***************************************************************************)
EXTENDS Blksum, FiniteSetTheorems, TLAPS

-----------------------------------------------------------------------------
(* Sequences *)

\* The elements of a sequence and another after it.
LEMMA Concatenation ==
    ASSUME NEW S, NEW s \in Seq(S), NEW t \in Seq(S)
    PROVE  /\ s \o t \in Seq(S)
           /\ Len(s \o t) = Len(s) + Len(t)
           /\ \A i \in 1..Len(s) + Len(t) :
                 (s \o t)[i] = IF i <= Len(s) THEN s[i] ELSE t[i - Len(s)]
OBVIOUS

-----------------------------------------------------------------------------
(* The inductive invariant *)

\* The phases of main().
Unprobed == {"options", "sigint", "sigterm", "probe"}
Starting == {"tmpdir", "socket", "env", "fork", "unstart"}
Piping == {"open_pipe", "pipe_hash", "pipe", "pipe_eof", "pipe_final", "stuck"}
Working == {"setup", "hash", "thread", "join"}
Stopping == {"kill", "wait"}
Deciding == {"decide", "print"}
TornDown == {"exited0", "exited1", "signaled", "not_started"}

Unconfigured == Unprobed \cup Starting \cup {"setup", "hash", "open_pipe", "pipe_hash"}

Phases == Unprobed \cup Starting \cup Piping \cup Working \cup Stopping \cup Deciding
            \cup Ended

Flags == {"USER_QUEUE_DEPTH", "USER_READ_SIZE", "USER_CACHE"}

Option ==
    [digest : BOOLEAN, read_size : 0..2 * SizeLimit - 1, queue_depth : 0..2 * SizeLimit - 1,
     block_size : 0..2 * SizeLimit - 1, threads : 1..MAX_THREADS, cache : BOOLEAN,
     aio : {"native", "threads"}, flags : SUBSET Flags]

TypeOK ==
    /\ source \in SourceKinds /\ environ \in Seq(STRING)
    /\ mpc \in Phases
    /\ opt \in Option
    /\ {debug, failed, tmpdir, sock, spath, gaveup, digest} \subseteq BOOLEAN
    /\ child \in {"none", "forked", "serving", "killed", "zombie", "reaped"}
    /\ worker \in {"none", "run", "done", "stuck"}
    /\ {size, left, pos, hashed} \subseteq Nat

\* What the options are at every stage.  A size is an int that became a size_t;
\* a read size nobody asked for is one of two powers of two.
OptionsKept ==
    /\ \/ opt.block_size < IntLimit
       \/ opt.block_size >= 2 * SizeLimit - IntLimit
    /\ "USER_READ_SIZE" \in opt.flags
         \/ opt.read_size = DefaultOptions.read_size
         \/ (mpc \notin Unprobed /\ opt.read_size = nfs_read_size)
    /\ "USER_CACHE" \in opt.flags => opt.cache
    /\ mpc \notin {"options"} \cup Ended =>
          opt.block_size > 0 /\ opt.read_size >= opt.block_size
            /\ opt.read_size % opt.block_size = 0
    /\ mpc = "hash" =>
          /\ opt.queue_depth <= MAX_QUEUE_DEPTH
          /\ opt.queue_depth > 0 => Allocatable(opt.read_size)

\* Which input goes through which phase.
PhasesOfInput ==
    /\ mpc \in Starting \cup Stopping => source = "image"
    /\ mpc = "probe" => source \in {"image", "file"}
    /\ mpc \in Piping <=> source = "pipe" /\ mpc \notin Unprobed \cup Deciding \cup Ended
    /\ mpc \in Unconfigured => config = None

\* What the server gets is settled before it is forked.
ServerSettled ==
    /\ child # "none" => source = "image" /\ mpc \notin Unprobed \cup Starting \cup Piping
    /\ mpc = "fork" \/ child # "none" => env = create_env(environ)
    /\ mpc \in Starting \/ child # "none" => ~(opt.cache /\ opt.aio = "native")

\* What is left in the file system.
SocketKnown ==
    /\ source # "image" => ~tmpdir /\ ~sock
    /\ sock => spath \/ gaveup
    /\ mpc \in Deciding \cup TornDown /\ ~gaveup => ~tmpdir /\ ~sock
    /\ mpc \in {"wait"} \cup Deciding \cup TornDown => child \notin {"forked", "serving"}

\* Who stores a digest.
DigestStored ==
    /\ worker # "none" =>
          source # "pipe" /\ mpc \in {"join"} \cup Stopping \cup Deciding \cup Ended
    /\ mpc \in Stopping \/ (source # "pipe" /\ mpc \in Deciding) => worker = "done"
    /\ worker = "done" /\ running => digest
    /\ mpc = "decide" /\ running => digest

\* The bytes of the pipe.
PipeCounted ==
    /\ hashed + pos + left = size
    /\ source # "pipe" => size = 0
    /\ mpc = "pipe_eof" => ~running
    /\ mpc \in {"pipe_final", "decide"} /\ running => hashed = size

IInv ==
    /\ TypeOK
    /\ OptionsKept
    /\ PhasesOfInput
    /\ ServerSettled
    /\ SocketKnown
    /\ DigestStored
    /\ PipeCounted
    /\ HashConfigured
    /\ PrintedIsWhole

-----------------------------------------------------------------------------
(* Numbers *)

\* What is left of a number with a known quotient.
LEMMA Remainder ==
    ASSUME NEW d \in Nat \ {0}, NEW q \in Int, NEW r \in 0..d - 1
    PROVE  (d * q + r) % d = r
OBVIOUS

\* A number with remainder 0 is a multiple.
LEMMA Multiple ==
    ASSUME NEW d \in Nat \ {0}, NEW n \in Nat, n % d = 0
    PROVE  \E q \in Nat : n = d * q
OBVIOUS

\* Half of the ints, the ints and the size_ts are so many.
AreWidths(half, ints, sizes) ==
    /\ half = IntLimit /\ ints = 2 * IntLimit /\ sizes = 2 * SizeLimit
    /\ half > 2097152 /\ ints = 2 * half /\ sizes >= ints
    /\ SizeLimit \in Nat

LEMMA Widths ==
    \E half, ints, sizes \in Nat : AreWidths(half, ints, sizes)
<1>. DEFINE p == 2 * IntLimit
            s == 2 * SizeLimit
<1>1. IntLimit \in Nat /\ p \in Nat /\ s \in Nat
  BY WidthsAssumption
<1>2. AreWidths(IntLimit, p, s)
  BY WidthsAssumption, SMT DEF AreWidths
<1>. QED BY <1>1, <1>2

\* An int becomes a size_t: it stays what it is, or it is close to the end.
LEMMA IntToSize ==
    ASSUME NEW v \in Int
    PROVE  /\ ToInt(v) \in Int
           /\ ToSize(ToInt(v)) \in 0..2 * SizeLimit - 1
           /\ \/ ToSize(ToInt(v)) < IntLimit
              \/ ToSize(ToInt(v)) >= 2 * SizeLimit - IntLimit
           /\ ThreadsInRange(v) => ToInt(v) \in 1..MAX_THREADS
<1>1. PICK h, p, s \in Nat : AreWidths(h, p, s)
  BY Widths
<1>0. /\ h = IntLimit /\ p = 2 * IntLimit /\ s = 2 * SizeLimit
      /\ h > 0 /\ p = 2 * h /\ s >= p
  BY <1>1, SMT DEF AreWidths
<1>2. PICK u \in Nat : u = v % p /\ u < p
  <2>1. v % p \in 0..p - 1
    BY <1>0, SMT
  <2>. QED BY <2>1
<1>3. PICK n \in Int : n = ToInt(v) /\ -h <= n /\ n < h
  <2>1. ToUnsigned(v) = u
    BY <1>0, <1>2 DEF ToUnsigned
  <2>2. ToInt(v) = IF u < h THEN u ELSE u - p
    BY <1>0, <2>1 DEF ToInt
  <2>. QED BY <1>0, <1>2, <2>2
<1>4. ToSize(ToInt(v)) = n % s
  BY <1>0, <1>3 DEF ToSize
<1>5. s \in Nat \ {0}
  BY <1>0
<1>6. n % s = IF n >= 0 THEN n ELSE s + n
  <2>1. CASE n >= 0
    <3>1. n \in 0..s - 1 /\ n = s * 0 + n
      BY <1>0, <1>3, <1>5, <2>1
    <3>. QED BY <1>5, <2>1, <3>1, Remainder
  <2>2. CASE n < 0
    <3>1. s + n \in 0..s - 1 /\ n = s * (-1) + (s + n)
      BY <1>0, <1>3, <1>5, <2>2
    <3>. QED BY <1>5, <2>2, <3>1, Remainder
  <2>. QED BY <2>1, <2>2
<1>7. /\ n % s \in 0..s - 1
      /\ n % s < h \/ n % s >= s - h
  BY <1>0, <1>3, <1>5, <1>6
<1>8. ThreadsInRange(v) => ToInt(v) \in 1..MAX_THREADS
  BY <1>3 DEF ThreadsInRange, MAX_THREADS
<1>. QED BY <1>0, <1>3, <1>4, <1>7, <1>8

\* A block size that divides a read size that can be allocated is an int, so it
\* stays what it is in the hash.
LEMMA BlockSizeKept ==
    ASSUME NEW b \in Nat, NEW r \in Nat, b > 0, r >= b, Allocatable(r),
           b < IntLimit \/ b >= 2 * SizeLimit - IntLimit
    PROVE  ToUnsigned(b) = b
<1>1. PICK h, p, s \in Nat : AreWidths(h, p, s)
  BY Widths
<1>2. PICK t \in Nat : t = SizeLimit
  BY <1>1, SMT DEF AreWidths
<1>3. /\ p = 2 * IntLimit /\ p > 0 /\ p = 2 * h /\ s >= p /\ s = 2 * t
      /\ b < h \/ b >= s - h
  BY <1>1, <1>2, SMT DEF AreWidths
<1>4. r < t
  BY <1>2 DEF Allocatable
<1>5. b < h
  BY <1>3, <1>4
<1>6. b \in 0..p - 1 /\ b = p * 0 + b /\ p \in Nat \ {0}
  BY <1>3, <1>5
<1>7. b % p = b
  BY <1>6, Remainder
<1>. QED BY <1>3, <1>7 DEF ToUnsigned

\* The larger reads still hold whole blocks.
LEMMA LargerReads ==
    ASSUME NEW b \in Nat, b > 0, NEW r \in Nat, r >= b, r % b = 0
    PROVE  (8 * r) % b = 0 /\ 8 * r >= b
<1>1. b \in Nat \ {0}
  OBVIOUS
<1>2. PICK q \in Nat : r = b * q
  BY <1>1, Multiple
<1>3. 8 * r = b * (8 * q) + 0 /\ 8 * q \in Int /\ 0 \in 0..b - 1
  BY <1>1, <1>2
<1>4. (b * (8 * q) + 0) % b = 0
  BY Zenon, <1>1, <1>3, Remainder
<1>. QED BY <1>3, <1>4

\* The pool has room for a STOP for every worker and for every update.
LEMMA PoolSize ==
    ASSUME NEW q \in 0..MAX_QUEUE_DEPTH, NEW n \in 1..MAX_THREADS, NEW b
    PROVE  /\ config_init(b, n, ToUnsigned(q)).max_submissions >= n
           /\ config_init(b, n, ToUnsigned(q)).max_submissions >= ToUnsigned(q)
           /\ ToUnsigned(q) = q
<1>1. PICK p \in Nat : p = 2 * IntLimit /\ p > 512
  BY Widths, SMT DEF AreWidths
<1>2. \A x \in 0..512 : ToUnsigned(x) = x
  <2>. SUFFICES ASSUME NEW x \in 0..512 PROVE x % p = x
    BY <1>1 DEF ToUnsigned
  <2>1. p \in Nat \ {0} /\ x \in 0..p - 1 /\ x = p * 0 + x
    BY <1>1, SMT
  <2>. QED BY <2>1, Remainder
<1>3. ToUnsigned(q) = q
  BY <1>2 DEF MAX_QUEUE_DEPTH
<1>. DEFINE m == MaxOf(q, n)
<1>4. m * 4 \in 0..512 /\ m >= n /\ m >= q /\ m \in Nat
  BY SMT DEF MaxOf, MAX_QUEUE_DEPTH, MAX_THREADS
<1>. HIDE DEF m
<1>5. config_init(b, n, q).max_submissions = MaxOf(m * 4, 32)
  <2>1. ToUnsigned(m * 4) = m * 4
    BY <1>2, <1>4
  <2>. QED BY <2>1 DEF config_init, m
<1>6. MaxOf(m * 4, 32) >= m * 4 /\ MaxOf(m * 4, 32) \in Nat
  BY <1>4 DEF MaxOf
<1>. QED BY <1>3, <1>4, <1>5, <1>6

-----------------------------------------------------------------------------
(* The phases *)

\* A step of main() goes on, or it fails.
LEMMA Fails ==
    MainFails => /\ mpc' = "failed" /\ UNCHANGED terminated /\ failed' \in BOOLEAN
                 /\ terminated = None => failed'
BY Zenon DEF MainFails, FailureRecorded

\* A signal that is handled stops a read of the pipe or the wait for the server.
LEMMA Signals ==
    ASSUME NEW signum \in {"SIGINT", "SIGTERM"}, Signal(signum)
    PROVE  /\ mpc \notin Ended
           /\ \/ mpc' = mpc /\ UNCHANGED fsVars /\ terminated' # None
              \/ mpc = "pipe" /\ mpc' = "pipe_eof" /\ UNCHANGED fsVars /\ terminated' # None
              \/ mpc = "wait" /\ mpc' = "decide" /\ remove_tmpdir /\ terminated' # None
              \/ mpc' = "killed" /\ UNCHANGED <<terminated, fsVars>>
           /\ UNCHANGED <<inputVars, optVars, failed, env, child, hashVars, pipeVars>>
<1>1. None # signum
  BY InputAssumption
<1>. QED BY <1>1 DEF Signal, Interrupt

\* Every phase follows the one before it.
LEMMA NextPhases == IInv /\ [Next]_vars => mpc' \in Phases /\ PhasesOfInput'
<1>. SUFFICES ASSUME IInv, [Next]_vars PROVE mpc' \in Phases /\ PhasesOfInput'
  OBVIOUS
<1>. USE DEF Unprobed, Starting, Piping, Working, Stopping, Deciding, Unconfigured,
             Phases, Ended, PhasesOfInput, GoTo, inputVars, hashVars
<1>0. mpc \in Phases /\ PhasesOfInput /\ source \in SourceKinds
  BY DEF IInv, TypeOK
<1>1. CASE EndOptions \/ SetupSignals \/ Probe \/ create_tmpdir
  BY <1>0, <1>1, Fails DEF EndOptions, SetupSignals, Probe, create_tmpdir, SourceKinds
<1>2. CASE create_listening_socket \/ CreateEnv \/ Fork \/ Unstart
  BY <1>0, <1>2 DEF create_listening_socket, CreateEnv, Fork, Unstart
<1>3. CASE SetupWorker \/ CreateHash \/ StartWorker \/ JoinWorker
  BY <1>0, <1>3, Fails DEF SetupWorker, CreateHash, StartWorker, JoinWorker
<1>4. CASE KillServer \/ WaitServer \/ CreatePipeHash
  BY <1>0, <1>4, Fails DEF KillServer, WaitServer, CreatePipeHash
<1>5. CASE PipeRead \/ PipeUpdate \/ PipeFinal \/ Decide
  BY <1>0, <1>5 DEF PipeRead, PipeUpdate, PipeFinal, Decide, AfterPart, Decision
<1>6. CASE Fault
  BY Zenon, <1>0, <1>6, Fails DEF Fault, MainFault, SocketFails, StartFails,
     PipeHashFails, PipeSticks, WorkerFault, WorkerSticks, WorkerFails, HashAborts,
     ServerFault, fsVars
<1>7. CASE Command
  BY <1>0, <1>7, Fails DEF Command, ParseOption, Usage
<1>8. ASSUME NEW signum \in {"SIGINT", "SIGTERM"}, Signal(signum)
      PROVE  mpc' \in Phases /\ PhasesOfInput'
  BY <1>0, <1>8, Signals
<1>9. CASE Worker \/ ServerStep \/ UNCHANGED vars
  BY <1>0, <1>9 DEF Worker, WorkerEnds, ServerLost, WorkerFails, ServerStep, vars
<1>. QED BY <1>1, <1>2, <1>3, <1>4, <1>5, <1>6, <1>7, <1>8, <1>9
         DEF Next, Main, Terminated

-----------------------------------------------------------------------------
(* The server *)

\* optimize_for_nbd_server() leaves no cache with aio=native.
LEMMA Optimized ==
    ASSUME NEW o \in Option, NEW fi \in FileInfos, NEW direct_io \in BOOLEAN,
           NEW p, p = optimize_for_nbd_server(o, fi, direct_io)
    PROVE  /\ p.block_size = o.block_size /\ p.flags = o.flags
           /\ p.digest = o.digest /\ p.threads = o.threads
           /\ p.cache \in BOOLEAN /\ p.aio \in {"native", "threads"}
           /\ o.cache => p.cache
           /\ ~(p.cache /\ p.aio = "native")
           /\ \/ p.read_size = o.read_size /\ p.queue_depth = o.queue_depth
              \/ /\ "USER_READ_SIZE" \notin o.flags /\ p.read_size = nfs_read_size
                 /\ p.queue_depth \in {o.queue_depth, 4}
           /\ p = [digest |-> p.digest, read_size |-> p.read_size,
                   queue_depth |-> p.queue_depth, block_size |-> p.block_size,
                   threads |-> p.threads, cache |-> p.cache, aio |-> p.aio,
                   flags |-> p.flags]
<1>1. CASE fi.fs_name = "nfs"
  <2>. DEFINE w == WithoutNative(o, TRUE)
  <2>1. w = [o EXCEPT !.aio = "threads"]
    BY DEF WithoutNative, Option
  <2>2. p = w \/ p = LargeReads(w)
    BY Zenon, <1>1 DEF optimize_for_nbd_server
  <2>3. /\ w \in Option /\ w.aio = "threads" /\ w.block_size = o.block_size
        /\ w.flags = o.flags /\ w.digest = o.digest /\ w.threads = o.threads
        /\ w.cache = o.cache /\ w.read_size = o.read_size
        /\ w.queue_depth = o.queue_depth
    BY Zenon, <2>1 DEF Option
  <2>. HIDE DEF w
  <2>4. CASE p = w
    BY <2>3, <2>4 DEF Option
  <2>5. CASE p = LargeReads(w) /\ p # w
    <3>1. /\ "USER_READ_SIZE" \notin o.flags
          /\ \E q \in {o.queue_depth, 4} :
                p = [w EXCEPT !.read_size = nfs_read_size, !.queue_depth = q]
      BY Zenon, <2>3, <2>5 DEF LargeReads
    <3>. QED BY Zenon, <2>3, <3>1 DEF Option
  <2>. QED BY <2>2, <2>4, <2>5
<1>2. CASE fi.fs_name # "nfs"
  <2>. DEFINE c == o.cache \/ ~direct_io
              w == WithoutNative(o, c)
  <2>1. c \in BOOLEAN /\ (o.cache => c)
    OBVIOUS
  <2>2. p = [w EXCEPT !.cache = c]
    BY <1>2 DEF optimize_for_nbd_server
  <2>3. w = IF c /\ o.aio = "native" THEN [o EXCEPT !.aio = "threads"] ELSE o
    BY DEF WithoutNative
  <2>. HIDE DEF c, w
  <2>. QED BY <2>1, <2>2, <2>3 DEF Option
<1>. QED BY <1>1, <1>2

\* Only Probe and ParseOption change the options.
LEMMA OptionsFrame ==
    [Next]_vars => \/ opt' = opt
                   \/ mpc = "probe" /\ Probe
                   \/ /\ mpc = "options"
                      /\ \E name \in DOMAIN Values : \E value \in Values[name] :
                            ParseOption(name, value)
BY DEF Next, Main, Command, Worker, Fault, Terminated, EndOptions, SetupSignals, Probe,
   create_tmpdir, create_listening_socket, CreateEnv, Fork, Unstart, SetupWorker,
   CreateHash, StartWorker, JoinWorker, KillServer, WaitServer, CreatePipeHash, PipeRead,
   PipeUpdate, PipeFinal, Decide, MainFault, SocketFails, StartFails, PipeHashFails,
   PipeSticks, WorkerFault, WorkerSticks, WorkerFails, HashAborts, ServerFault,
   ParseOption, Usage, Signal, WorkerEnds, ServerLost, ServerStep, optVars, vars

\* qemu-nbd is forked after its options and its environment were settled.
LEMMA NextServer == IInv /\ [Next]_vars => ServerSettled'
<1>. SUFFICES ASSUME IInv, [Next]_vars PROVE ServerSettled'
  OBVIOUS
<1>. USE DEF Unprobed, Starting, Piping, ServerSettled, GoTo, inputVars, serverVars,
             optVars
<1>0. ServerSettled /\ PhasesOfInput /\ opt \in Option
  BY DEF IInv, TypeOK
<1>1. CASE Probe
  <2>1. child = "none" /\ child' = "none" /\ mpc = "probe" /\ mpc' # "fork"
    BY <1>0, <1>1, Fails DEF Probe
  <2>2. CASE source = "image"
    <3>1. PICK fi \in FileInfos, direct_io \in BOOLEAN :
            opt' = optimize_for_nbd_server(opt, fi, direct_io)
      BY <1>1, <2>2 DEF Probe
    <3>2. ~(opt'.cache /\ opt'.aio = "native")
      BY <1>0, <3>1, Optimized
    <3>. QED BY <2>1, <3>2
  <2>3. CASE source # "image"
    <3>1. mpc' \in {"setup", "failed"}
      BY <1>1, <2>3, Fails DEF Probe
    <3>. QED BY <2>1, <3>1
  <2>. QED BY <2>2, <2>3
<1>2. CASE EndOptions \/ SetupSignals \/ create_tmpdir \/ Command
  BY <1>0, <1>2, Fails DEF EndOptions, SetupSignals, create_tmpdir, Command,
        ParseOption, Usage
<1>3. CASE create_listening_socket \/ CreateEnv \/ Fork \/ Unstart
  BY <1>0, <1>3 DEF create_listening_socket, CreateEnv, Fork, Unstart, PhasesOfInput
<1>4. CASE SetupWorker \/ CreateHash \/ StartWorker \/ JoinWorker
  BY <1>0, <1>4, Fails DEF SetupWorker, CreateHash, StartWorker, JoinWorker
<1>5. CASE KillServer \/ WaitServer \/ CreatePipeHash
  BY <1>0, <1>5, Fails DEF KillServer, WaitServer, CreatePipeHash, Killed, PhasesOfInput,
        Stopping
<1>6. CASE PipeRead \/ PipeUpdate \/ PipeFinal \/ Decide
  BY <1>0, <1>6 DEF PipeRead, PipeUpdate, PipeFinal, Decide, AfterPart, Decision
<1>7. CASE Fault
  BY <1>0, <1>7, Fails DEF Fault, MainFault, SocketFails, StartFails, PipeHashFails,
     PipeSticks, WorkerFault, WorkerSticks, WorkerFails, HashAborts, ServerFault, fsVars
<1>8. ASSUME NEW signum \in {"SIGINT", "SIGTERM"}, Signal(signum)
      PROVE  ServerSettled'
  BY <1>0, <1>8, Signals
<1>9. CASE Worker \/ ServerStep \/ UNCHANGED vars
  BY <1>0, <1>9 DEF Worker, WorkerEnds, ServerLost, WorkerFails, ServerStep, vars
<1>. QED BY <1>1, <1>2, <1>3, <1>4, <1>5, <1>6, <1>7, <1>8, <1>9
         DEF Next, Main, Terminated

\* remove_tmpdir() leaves nothing, or it gave up.
LEMMA Removes ==
    ASSUME TypeOK, SocketKnown, remove_tmpdir
    PROVE  /\ {tmpdir', sock', spath', gaveup'} \subseteq BOOLEAN
           /\ sock' => spath' \/ gaveup'
           /\ ~gaveup' => ~tmpdir' /\ ~sock'
           /\ ~tmpdir /\ ~sock => ~tmpdir' /\ ~sock'
<1>1. /\ tmpdir \in BOOLEAN /\ sock \in BOOLEAN /\ spath \in BOOLEAN
      /\ gaveup \in BOOLEAN /\ (sock => spath \/ gaveup)
  BY DEF TypeOK, SocketKnown
<1>2. CASE spath /\ gaveup' = TRUE /\ UNCHANGED <<tmpdir, sock, spath>>
  BY <1>1, <1>2
<1>3. CASE /\ spath' = (spath /\ ~spath) /\ sock' = (sock /\ ~spath)
           /\ tmpdir' = (tmpdir /\ sock') /\ UNCHANGED gaveup
  BY <1>1, <1>3, Zenon
<1>4. CASE /\ spath' = (spath /\ ~spath) /\ sock' = (sock /\ ~spath)
           /\ gaveup' = TRUE /\ UNCHANGED tmpdir
  BY <1>1, <1>4, Zenon
<1>. QED BY Zenon, <1>2, <1>3, <1>4 DEF remove_tmpdir, UnlinkPath

\* What the program leaves is known in every phase.
LEMMA NextSocket ==
    IInv /\ [Next]_vars =>
        SocketKnown' /\ {tmpdir', sock', spath', gaveup'} \subseteq BOOLEAN
<1>. SUFFICES ASSUME IInv, [Next]_vars
              PROVE  SocketKnown' /\ {tmpdir', sock', spath', gaveup'} \subseteq BOOLEAN
  OBVIOUS
<1>. USE DEF Unprobed, Starting, Piping, Stopping, Deciding, TornDown, Ended,
             GoTo, inputVars, serverVars, fsVars
<1>0. /\ SocketKnown /\ PhasesOfInput /\ ServerSettled /\ TypeOK
      /\ tmpdir \in BOOLEAN /\ sock \in BOOLEAN /\ spath \in BOOLEAN
      /\ gaveup \in BOOLEAN
      /\ child \in {"none", "forked", "serving", "killed", "zombie", "reaped"}
  BY DEF IInv, TypeOK
<1>1. CASE EndOptions \/ SetupSignals \/ Probe \/ Command
  BY <1>0, <1>1, Fails DEF EndOptions, SetupSignals, Probe, Command, ParseOption, Usage,
        SocketKnown
<1>2. CASE create_tmpdir \/ create_listening_socket \/ CreateEnv \/ Fork
  <2>1. CASE create_tmpdir
    BY <1>0, <2>1 DEF create_tmpdir, SocketKnown, PhasesOfInput
  <2>2. CASE create_listening_socket
    BY <1>0, <2>2 DEF create_listening_socket, SocketKnown, PhasesOfInput
  <2>3. CASE CreateEnv \/ Fork
    BY <1>0, <2>3 DEF CreateEnv, Fork, SocketKnown
  <2>. QED BY <1>2, <2>1, <2>2, <2>3
<1>3. CASE Unstart
  BY <1>0, <1>3, Removes DEF Unstart, SocketKnown, PhasesOfInput, ServerSettled
<1>4. CASE SetupWorker \/ CreateHash \/ StartWorker \/ KillServer
  BY <1>0, <1>4, Fails DEF SetupWorker, CreateHash, StartWorker, KillServer, Killed,
        SocketKnown
<1>5. CASE JoinWorker
  BY <1>0, <1>5 DEF JoinWorker, SocketKnown, ServerSettled
<1>6. CASE WaitServer
  BY <1>0, <1>6, Removes DEF WaitServer, SocketKnown, PhasesOfInput
<1>7. CASE CreatePipeHash \/ PipeRead \/ PipeUpdate \/ PipeFinal \/ Decide
  BY <1>0, <1>7, Fails DEF CreatePipeHash, PipeRead, PipeUpdate, PipeFinal, Decide,
        AfterPart, Decision, SocketKnown, PhasesOfInput, ServerSettled
<1>8. CASE Fault
  <2>1. CASE SocketFails
    <3>1. source' = "image" /\ mpc' = "unstart" /\ tmpdir' = tmpdir /\ spath' = spath
      BY <1>0, <2>1 DEF SocketFails, PhasesOfInput
    <3>2. \/ sock' = sock /\ gaveup' = gaveup
          \/ sock' = TRUE /\ gaveup' = TRUE
      BY <2>1 DEF SocketFails
    <3>3. sock' \in BOOLEAN /\ gaveup' \in BOOLEAN /\ (sock' => spath' \/ gaveup')
      <4>1. sock => spath \/ gaveup
        BY <1>0 DEF SocketKnown
      <4>2. sock \in BOOLEAN /\ gaveup \in BOOLEAN /\ spath' = spath
        BY <1>0, <3>1
      <4>3. CASE sock' = sock /\ gaveup' = gaveup
        BY <4>1, <4>2, <4>3
      <4>4. CASE sock' = TRUE /\ gaveup' = TRUE
        BY <4>4
      <4>. QED BY Zenon, <3>2, <4>3, <4>4
    <3>. QED BY <1>0, <3>1, <3>3 DEF SocketKnown
  <2>2. CASE MainFault \/ StartFails \/ PipeHashFails \/ PipeSticks \/ HashAborts
    BY <1>0, <2>2, Fails DEF MainFault, StartFails, PipeHashFails, PipeSticks,
       HashAborts, SocketKnown
  <2>3. CASE WorkerFault \/ WorkerSticks \/ ServerFault
    BY <1>0, <2>3 DEF WorkerFault, WorkerSticks, WorkerFails, ServerFault, SocketKnown
  <2>. QED BY <1>8, <2>1, <2>2, <2>3 DEF Fault
<1>9. ASSUME NEW signum \in {"SIGINT", "SIGTERM"}, Signal(signum)
      PROVE  SocketKnown' /\ {tmpdir', sock', spath', gaveup'} \subseteq BOOLEAN
  <2>1. CASE remove_tmpdir /\ mpc = "wait" /\ mpc' = "decide"
    BY <1>0, <1>9, <2>1, Signals, Removes DEF SocketKnown, PhasesOfInput
  <2>2. CASE UNCHANGED fsVars /\ (mpc' = mpc \/ mpc' \in {"pipe_eof", "killed"})
    BY <1>0, <1>9, <2>2, Signals DEF SocketKnown
  <2>. QED BY <1>9, <2>1, <2>2, Signals
<1>10. CASE Worker \/ ServerStep \/ UNCHANGED vars
  BY <1>0, <1>10 DEF Worker, WorkerEnds, ServerLost, WorkerFails, ServerStep, vars,
        SocketKnown
<1>. QED BY <1>1, <1>2, <1>3, <1>4, <1>5, <1>6, <1>7, <1>8, <1>9, <1>10
         DEF Next, Main, Terminated

-----------------------------------------------------------------------------
(* The digest *)

\* A digest is stored by the thread that hashed all the input.
LEMMA NextDigest ==
    IInv /\ [Next]_vars =>
        /\ DigestStored' /\ digest' \in BOOLEAN
        /\ failed' \in BOOLEAN /\ worker' \in {"none", "run", "done", "stuck"}
<1>. SUFFICES ASSUME IInv, [Next]_vars
              PROVE  /\ DigestStored' /\ digest' \in BOOLEAN
                     /\ failed' \in BOOLEAN /\ worker' \in {"none", "run", "done", "stuck"}
  OBVIOUS
<1>. USE DEF Unprobed, Starting, Piping, Stopping, Deciding, Ended, DigestStored,
             running, GoTo, inputVars, hashVars, exitVars
<1>0. /\ DigestStored /\ PhasesOfInput /\ digest \in BOOLEAN /\ failed \in BOOLEAN
      /\ worker \in {"none", "run", "done", "stuck"} /\ mpc \in Phases
  BY DEF IInv, TypeOK
<1>1. CASE EndOptions \/ SetupSignals \/ Probe \/ Command
  BY <1>0, <1>1, Fails DEF EndOptions, SetupSignals, Probe, Command, ParseOption, Usage
<1>2. CASE create_tmpdir \/ create_listening_socket \/ CreateEnv \/ Fork \/ Unstart
  BY <1>0, <1>2 DEF create_tmpdir, create_listening_socket, CreateEnv, Fork, Unstart
<1>3. CASE SetupWorker \/ CreateHash \/ CreatePipeHash
  BY <1>0, <1>3, Fails DEF SetupWorker, CreateHash, CreatePipeHash
<1>4. CASE StartWorker \/ JoinWorker
  BY <1>0, <1>4 DEF StartWorker, JoinWorker, PhasesOfInput
<1>5. CASE KillServer \/ WaitServer \/ Decide
  BY <1>0, <1>5 DEF KillServer, WaitServer, Decide, Decision, PhasesOfInput
<1>6. CASE PipeRead \/ PipeUpdate
  BY <1>0, <1>6 DEF PipeRead, PipeUpdate, AfterPart, PhasesOfInput
<1>7. CASE PipeFinal
  <2>1. source = "pipe" /\ source' = source /\ worker' = "none" /\ mpc' = "decide"
    BY <1>0, <1>7 DEF PipeFinal, PhasesOfInput
  <2>2. UNCHANGED <<terminated, failed>> /\ digest' = running
    BY <1>7 DEF PipeFinal
  <2>. QED BY Zenon, <1>0, <2>1, <2>2
<1>8. CASE Fault
  <2>1. CASE MainFault
    BY <1>0, <2>1, Fails DEF MainFault, MainFaults
  <2>2. CASE WorkerFault
    <3>1. /\ worker = "run" /\ worker' = "done" /\ mpc = "join"
          /\ UNCHANGED <<mpc, source, terminated, digest>>
          /\ failed' = (failed \/ terminated = None \/ debug)
      BY <1>0, <2>2 DEF WorkerFault, WorkerFails, WorkerLives, FailureRecorded
    <3>. QED BY Zenon, <1>0, <3>1
  <2>3. CASE SocketFails \/ StartFails \/ PipeHashFails \/ HashAborts \/ ServerFault
    BY <1>0, <2>3 DEF SocketFails, StartFails, PipeHashFails, HashAborts, ServerFault
  <2>4. CASE PipeSticks
    <3>1. source = "pipe"
      BY Zenon, <1>0, <2>4 DEF PipeSticks, PhasesOfInput
    <3>2. mpc' = "stuck" /\ UNCHANGED <<source, worker, digest, failed, terminated>>
      BY Zenon, <2>4 DEF PipeSticks
    <3>. QED BY <1>0, <3>1, <3>2
  <2>5. CASE WorkerSticks
    <3>1. /\ worker = "run" /\ worker' = "stuck" /\ mpc = "join"
          /\ UNCHANGED <<mpc, source, terminated, digest, failed>>
      BY <1>0, <2>5 DEF WorkerSticks, WorkerLives
    <3>. QED BY <1>0, <3>1
  <2>. QED BY <1>8, <2>1, <2>2, <2>3, <2>4, <2>5 DEF Fault
<1>9. ASSUME NEW signum \in {"SIGINT", "SIGTERM"}, Signal(signum)
      PROVE  /\ DigestStored' /\ digest' \in BOOLEAN
             /\ failed' \in BOOLEAN /\ worker' \in {"none", "run", "done", "stuck"}
  BY <1>0, <1>9, Signals
<1>10. CASE Worker
  <2>1. /\ worker = "run" /\ worker' = "done" /\ mpc = "join"
        /\ UNCHANGED <<mpc, source, terminated>>
    BY <1>0, <1>10 DEF Worker, WorkerEnds, ServerLost, WorkerFails, WorkerLives
  <2>2. \/ digest' = running /\ UNCHANGED failed
        \/ digest' = digest /\ failed' = (failed \/ terminated = None \/ debug)
    BY <1>10 DEF Worker, WorkerEnds, ServerLost, WorkerFails, FailureRecorded
  <2>. QED BY Zenon, <1>0, <2>1, <2>2
<1>11. CASE ServerStep \/ UNCHANGED vars
  BY <1>0, <1>11 DEF ServerStep, vars
<1>. QED BY <1>1, <1>2, <1>3, <1>4, <1>5, <1>6, <1>7, <1>8, <1>9, <1>10, <1>11
         DEF Next, Main, Terminated

\* The bytes that were read are counted until the hash has them.
LEMMA NextPipe ==
    IInv /\ [Next]_vars =>
        PipeCounted' /\ {size', left', pos', hashed'} \subseteq Nat
<1>. SUFFICES ASSUME IInv, [Next]_vars
              PROVE  PipeCounted' /\ {size', left', pos', hashed'} \subseteq Nat
  OBVIOUS
<1>. USE DEF Unprobed, Starting, Piping, Stopping, Deciding, Ended, running,
             GoTo, inputVars, exitVars, pipeVars
<1>0. /\ PipeCounted /\ PhasesOfInput
      /\ size \in Nat /\ left \in Nat /\ pos \in Nat /\ hashed \in Nat
  BY Zenon DEF IInv, TypeOK
<1>a. \/ PipeRead \/ PipeUpdate
      \/ UNCHANGED <<size, left, pos, hashed, source>>
  BY Zenon DEF Next, Main, Command, Worker, Fault, Terminated, EndOptions, SetupSignals,
     Probe, create_tmpdir, create_listening_socket, CreateEnv, Fork, Unstart, SetupWorker,
     CreateHash, StartWorker, JoinWorker, KillServer, WaitServer, CreatePipeHash,
     PipeFinal, Decide, MainFault, SocketFails, StartFails, PipeHashFails, PipeSticks,
     WorkerFault, WorkerSticks, WorkerFails, HashAborts, ServerFault, ParseOption, Usage,
     Signal, WorkerEnds, ServerLost, ServerStep, vars
<1>1. CASE PipeRead
  <2>1. PICK n \in 1..left : pos' = pos + n /\ left' = left - n
    BY <1>1 DEF PipeRead
  <2>2. /\ UNCHANGED <<size, hashed, mpc, source, terminated, failed>> /\ mpc = "pipe"
    BY <1>1 DEF PipeRead
  <2>3. left' \in Nat /\ pos' \in Nat /\ hashed + pos' + left' = size
    BY <1>0, <2>1 DEF PipeCounted
  <2>. QED BY Zenon, <1>0, <2>2, <2>3 DEF PipeCounted
<1>2. CASE PipeUpdate
  <2>1. /\ hashed' = hashed + pos /\ pos' = 0
        /\ UNCHANGED <<size, left, source, terminated, failed>>
        /\ mpc' = IF pos = 0 THEN "pipe_final" ELSE AfterPart
    BY <1>2 DEF PipeUpdate
  <2>2. hashed' \in Nat /\ pos' \in Nat /\ hashed' + pos' + left = size
    BY <1>0, <2>1 DEF PipeCounted
  <2>3. ASSUME mpc' = "pipe_final", running PROVE hashed' = size
    <3>1. pos = 0
      BY <2>1, <2>3 DEF AfterPart
    <3>2. mpc = "pipe" /\ PipeDone
      BY <1>0, <1>2, <2>3 DEF PipeUpdate, PipeCounted
    <3>3. left = 0
      BY <3>1, <3>2, ProgramAssumption DEF PipeDone
    <3>. QED BY <1>0, <2>1, <3>1, <3>3 DEF PipeCounted
  <2>4. mpc' \in {"pipe", "pipe_final"}
    BY <2>1 DEF AfterPart
  <2>. QED BY <1>0, <2>1, <2>2, <2>3, <2>4 DEF PipeCounted
<1>3. CASE ~PipeUpdate /\ UNCHANGED <<size, left, pos, hashed, source>>
  <2>1. hashed \in Nat /\ pos \in Nat /\ left \in Nat /\ source # "pipe" => hashed = size
    BY <1>0 DEF PipeCounted
  <2>2. ASSUME mpc' \in {"pipe_eof", "pipe_final", "decide"}, terminated' = None, ~failed'
        PROVE  mpc' # "pipe_eof" /\ hashed' = size'
    <3>1. CASE JoinWorker \/ KillServer \/ WaitServer
      BY <1>0, <1>3, <2>1, <2>2, <3>1 DEF JoinWorker, KillServer, WaitServer, PhasesOfInput
    <3>2. CASE PipeFinal
      BY <1>0, <1>3, <2>2, <3>2 DEF PipeFinal, PipeCounted
    <3>3. ASSUME mpc' = mpc, UNCHANGED <<terminated, failed>>
          PROVE  mpc' # "pipe_eof" /\ hashed' = size'
      BY <1>0, <1>3, <2>2, <3>3 DEF PipeCounted
    <3>4. CASE Worker \/ WorkerFault \/ WorkerSticks
      <4>1. /\ mpc' = mpc /\ UNCHANGED terminated
            /\ \/ failed' = failed
               \/ failed' = (failed \/ terminated = None \/ debug)
        BY <3>4 DEF Worker, WorkerFault, WorkerSticks, WorkerEnds, ServerLost,
           WorkerFails, FailureRecorded
      <4>2. ~failed
        BY <2>2, <4>1, Zenon
      <4>. QED BY <1>0, <1>3, <2>2, <4>1, <4>2 DEF PipeCounted
    <3>5. ASSUME NEW signum \in {"SIGINT", "SIGTERM"}, Signal(signum)
          PROVE  mpc' # "pipe_eof" /\ hashed' = size'
      BY Zenon, <2>2, <3>5, Signals
    <3>6. \/ JoinWorker \/ KillServer \/ WaitServer \/ PipeFinal \/ Worker
               \/ WorkerFault \/ WorkerSticks
          \/ \E signum \in {"SIGINT", "SIGTERM"} : Signal(signum)
          \/ mpc' = mpc /\ UNCHANGED <<terminated, failed>>
          \/ mpc' \notin {"pipe_eof", "pipe_final", "decide"}
      BY <1>3, Fails DEF Next, Main, Command, Fault, Terminated, EndOptions,
         SetupSignals, Probe, create_tmpdir, create_listening_socket, CreateEnv, Fork,
         Unstart, SetupWorker, CreateHash, StartWorker, CreatePipeHash, PipeRead, Decide,
         Decision, MainFault, SocketFails, StartFails, PipeHashFails, PipeSticks,
         HashAborts, ServerFault, ParseOption, Usage, ServerStep, vars
    <3>. QED BY <2>2, <3>1, <3>2, <3>3, <3>4, <3>5, <3>6
  <2>. QED BY <1>0, <1>3, <2>2 DEF PipeCounted
<1>. QED BY <1>a, <1>1, <1>2, <1>3

\* A checksum is printed after the decision of main().
LEMMA NextPrinted == IInv /\ [Next]_vars => PrintedIsWhole'
<1>. SUFFICES ASSUME IInv, [Next]_vars, mpc' \in {"print", "exited0"}
              PROVE  digest' /\ hashed' = size'
  BY DEF PrintedIsWhole
<1>0. IInv
  OBVIOUS
<1>1. CASE Decide
  <2>1. UNCHANGED <<digest, hashed, size>>
    BY <1>1 DEF Decide, hashVars, pipeVars, inputVars
  <2>2. mpc = "print" \/ (mpc = "decide" /\ running)
    BY <1>1 DEF Decide, Decision, GoTo, running
  <2>. QED BY <1>0, <2>1, <2>2 DEF IInv, PrintedIsWhole, DigestStored, PipeCounted
<1>2. CASE mpc' = mpc /\ ~Decide
  <2>1. \/ UNCHANGED <<digest, hashed, size>>
        \/ PipeRead \/ PipeUpdate \/ PipeFinal \/ worker = "run"
    BY <1>2 DEF Next, Main, Command, Worker, Fault, Terminated, EndOptions, SetupSignals,
       Probe, create_tmpdir, create_listening_socket, CreateEnv, Fork, Unstart,
       SetupWorker, CreateHash, StartWorker, JoinWorker, KillServer, WaitServer,
       CreatePipeHash, MainFault, SocketFails, StartFails, PipeHashFails, PipeSticks,
       WorkerFault, WorkerSticks, WorkerFails, HashAborts, ServerFault, ParseOption,
       Usage, Signal, WorkerEnds, ServerLost, WorkerLives, ServerStep, hashVars,
       pipeVars, inputVars, vars
  <2>2. ~PipeRead /\ ~PipeUpdate /\ ~PipeFinal
    BY <1>2 DEF PipeRead, PipeUpdate, PipeFinal
  <2>3. CASE UNCHANGED <<digest, hashed, size>>
    BY Zenon, <1>0, <1>2, <2>3 DEF IInv, PrintedIsWhole
  <2>4. CASE worker = "run" /\ ~UNCHANGED <<digest, hashed, size>>
    <3>1. mpc = "exited0"
      BY Zenon, <1>0, <1>2, <2>4 DEF IInv, DigestStored, Deciding
    <3>. QED BY Zenon, <1>2, <2>2, <2>4, <3>1 DEF Next, Main, Command, Worker, Fault,
       Terminated, EndOptions, SetupSignals, Probe, create_tmpdir,
       create_listening_socket, CreateEnv, Fork, Unstart, SetupWorker, CreateHash,
       StartWorker, JoinWorker, KillServer, WaitServer, CreatePipeHash, MainFault,
       SocketFails, StartFails, PipeHashFails, PipeSticks, WorkerFault, WorkerSticks,
       WorkerFails, HashAborts, ServerFault, ParseOption, Usage, Signal, WorkerEnds,
       ServerLost, WorkerLives, ServerStep, hashVars, pipeVars, inputVars, vars, Ended
  <2>. QED BY Zenon, <2>1, <2>2, <2>3, <2>4
<1>3. CASE mpc' # mpc /\ ~Decide
  BY Zenon, <1>3, Fails, Signals DEF Next, Main, Command, Worker, Fault, Terminated,
     EndOptions, SetupSignals, Probe, create_tmpdir, create_listening_socket, CreateEnv,
     Fork, Unstart, SetupWorker, CreateHash, StartWorker, JoinWorker, KillServer,
     WaitServer, CreatePipeHash, PipeRead, PipeUpdate, PipeFinal, AfterPart, MainFault,
     SocketFails, StartFails, PipeHashFails, PipeSticks, WorkerFault, WorkerSticks,
     WorkerFails, HashAborts, ServerFault, ParseOption, Usage, WorkerEnds, ServerLost,
     ServerStep, GoTo, vars
<1>. QED BY <1>1, <1>2, <1>3

-----------------------------------------------------------------------------
(* The options *)

\* The sizes the program chooses are size_ts.
LEMMA ChosenSizes ==
    /\ nfs_read_size \in 0..2 * SizeLimit - 1 /\ 4 \in 0..2 * SizeLimit - 1
    /\ nfs_read_size = 8 * DefaultOptions.read_size /\ DefaultOptions.read_size \in Nat
    /\ DefaultOptions \in Option
    /\ DefaultOptions.block_size < IntLimit
<1>1. PICK h, p, s \in Nat : AreWidths(h, p, s)
  BY Widths
<1>2. s = 2 * SizeLimit /\ h = IntLimit /\ s > 4194304 /\ h > 2097152
  BY <1>1, SMT DEF AreWidths
<1>3. 2097152 \in 0..s - 1 /\ 4 \in 0..s - 1 /\ 262144 \in 0..s - 1 /\ 16 \in 0..s - 1
      /\ 65536 \in 0..s - 1 /\ 65536 < h
  BY <1>2, SMT
<1>4. DefaultOptions \in Option
  BY <1>2, <1>3, SMT DEF DefaultOptions, Option, MAX_THREADS
<1>5. DefaultOptions.read_size = 262144 /\ DefaultOptions.block_size = 65536
  BY SMT DEF DefaultOptions
<1>6. /\ nfs_read_size \in 0..s - 1
      /\ nfs_read_size = 8 * DefaultOptions.read_size /\ DefaultOptions.read_size \in Nat
  BY <1>3, <1>5, SMT DEF nfs_read_size
<1>7. s = 2 * SizeLimit /\ 4 \in 0..s - 1
  BY <1>2, <1>3, SMT
<1>8. DefaultOptions.block_size < IntLimit
  <2>1. IntLimit = h
    BY <1>2, SMT
  <2>2. 65536 < h
    BY <1>3, SMT
  <2>. QED BY <1>5, <2>1, <2>2, SMT
<1>. QED BY Zenon, <1>4, <1>6, <1>7, <1>8

\* An option that was accepted.
LEMMA OptionAccepted ==
    ASSUME NEW o \in Option, NEW name \in DOMAIN Values, NEW value \in Values[name],
           Accepted(o, name, value), NEW p, p = WithOption(o, name, value)
    PROVE  /\ p \in Option
           /\ \/ p.block_size = o.block_size
              \/ p.block_size < IntLimit
              \/ p.block_size >= 2 * SizeLimit - IntLimit
           /\ "USER_READ_SIZE" \in p.flags
                \/ (p.read_size = o.read_size /\ "USER_READ_SIZE" \notin o.flags)
           /\ "USER_CACHE" \in p.flags => p.cache
                      \/ (p.cache = o.cache /\ "USER_CACHE" \in o.flags)
<1>. DEFINE n == ToInt(value)
            z == ToSize(n)
<1>1. value \in Int /\ name \in {"threads", "queue-depth", "read-size", "block-size",
                                 "cache", "no-digest"}
  BY InputAssumption
<1>2. /\ z \in 0..2 * SizeLimit - 1
      /\ z < IntLimit \/ z >= 2 * SizeLimit - IntLimit
      /\ ThreadsInRange(value) => n \in 1..MAX_THREADS
  BY <1>1, IntToSize
<1>. HIDE DEF n, z
<1>. DEFINE I == 0..2 * SizeLimit - 1
<1>. HIDE DEF I
<1>3. Option = [digest : BOOLEAN, read_size : I, queue_depth : I, block_size : I,
                threads : 1..MAX_THREADS, cache : BOOLEAN, aio : {"native", "threads"},
                flags : SUBSET Flags]
  BY DEF Option, I
<1>4. z \in I
  BY <1>2 DEF I
<1>5. CASE name = "threads"
  <2>1. n \in 1..MAX_THREADS /\ p = [o EXCEPT !.threads = n]
    BY <1>2, <1>5 DEF Accepted, WithOption, n
  <2>. QED BY <1>3, <2>1
<1>6. CASE name = "queue-depth"
  <2>. DEFINE g == o.flags \cup {"USER_QUEUE_DEPTH"}
  <2>1. p = [o EXCEPT !.queue_depth = z, !.flags = g]
    BY <1>6 DEF WithOption, n, z
  <2>2. g \in SUBSET Flags /\ o.flags \subseteq g /\ "USER_QUEUE_DEPTH" \in g
        /\ g \subseteq o.flags \cup {"USER_QUEUE_DEPTH"}
    BY DEF Option, Flags
  <2>. HIDE DEF g
  <2>3. p.flags = g /\ p.queue_depth = z /\ p.block_size = o.block_size /\ p.cache = o.cache
    BY <1>3, <2>1
  <2>4. p \in Option
    BY Zenon, <1>3, <1>4, <2>1, <2>2
  <2>5. "USER_READ_SIZE" \in g
             \/ (p.read_size = o.read_size /\ "USER_READ_SIZE" \notin o.flags)
    BY <1>3, <2>1, <2>2
  <2>. QED BY <2>2, <2>3, <2>4, <2>5
<1>7. CASE name = "read-size"
  <2>. DEFINE g == o.flags \cup {"USER_READ_SIZE"}
  <2>1. p = [o EXCEPT !.read_size = z, !.flags = g]
    BY <1>7 DEF WithOption, n, z
  <2>2. g \in SUBSET Flags /\ o.flags \subseteq g /\ "USER_READ_SIZE" \in g
        /\ g \subseteq o.flags \cup {"USER_READ_SIZE"}
    BY DEF Option, Flags
  <2>. HIDE DEF g
  <2>3. p.flags = g /\ p.read_size = z /\ p.block_size = o.block_size /\ p.cache = o.cache
    BY <1>3, <2>1
  <2>4. p \in Option
    BY Zenon, <1>3, <1>4, <2>1, <2>2
  <2>5. "USER_READ_SIZE" \in g
             \/ (p.read_size = o.read_size /\ "USER_READ_SIZE" \notin o.flags)
    BY <1>3, <2>1, <2>2
  <2>. QED BY <2>2, <2>3, <2>4, <2>5
<1>8. CASE name = "block-size"
  <2>1. p = [o EXCEPT !.block_size = z]
    BY <1>8 DEF WithOption, n, z
  <2>. QED BY <1>2, <1>3, <1>4, <2>1
<1>9. CASE name = "cache"
  <2>1. p = [o EXCEPT !.cache = TRUE, !.flags = @ \cup {"USER_CACHE"}]
    BY <1>9 DEF WithOption
  <2>. QED BY Zenon, <1>3, <2>1 DEF Flags
<1>10. CASE name = "no-digest"
  <2>1. p = [o EXCEPT !.digest = FALSE]
    BY <1>10 DEF WithOption
  <2>. QED BY Zenon, <1>3, <2>1
<1>. QED BY <1>1, <1>5, <1>6, <1>7, <1>8, <1>9, <1>10

\* The options keep what parse_options() checked.
LEMMA NextOptions == IInv /\ [Next]_vars => opt' \in Option /\ OptionsKept'
<1>. SUFFICES ASSUME IInv, [Next]_vars PROVE opt' \in Option /\ OptionsKept'
  OBVIOUS
<1>0. opt \in Option /\ OptionsKept /\ mpc \in Phases
  BY DEF IInv, TypeOK
<1>1. ASSUME NEW name \in DOMAIN Values, NEW value \in Values[name],
             ParseOption(name, value)
      PROVE  opt' \in Option /\ OptionsKept'
  <2>1. mpc = "options"
    BY Zenon, <1>1 DEF ParseOption
  <2>2. CASE Accepted(opt, name, value)
    <3>1. opt' = WithOption(opt, name, value) /\ mpc' = "options"
      BY Zenon, <1>1, <2>2 DEF ParseOption, GoTo
    <3>2. /\ opt' \in Option
          /\ \/ opt'.block_size = opt.block_size
             \/ opt'.block_size < IntLimit
             \/ opt'.block_size >= 2 * SizeLimit - IntLimit
          /\ "USER_READ_SIZE" \in opt'.flags
                \/ (opt'.read_size = opt.read_size /\ "USER_READ_SIZE" \notin opt.flags)
          /\ "USER_CACHE" \in opt'.flags =>
                opt'.cache \/ (opt'.cache = opt.cache /\ "USER_CACHE" \in opt.flags)
      BY <1>0, <1>1, <2>2, <3>1, OptionAccepted
    <3>. QED BY Zenon, <1>0, <2>1, <3>1, <3>2 DEF OptionsKept, Unprobed, Ended
  <2>3. CASE ~Accepted(opt, name, value)
    <3>1. opt' = opt /\ mpc' = "failed"
      BY <1>1, <2>3, Fails DEF ParseOption
    <3>. QED BY Zenon, <1>0, <2>1, <3>1 DEF OptionsKept, Ended, Unprobed
  <2>. QED BY <2>2, <2>3
<1>2. CASE Probe
  <2>1. mpc = "probe"
    BY <1>2 DEF Probe
  <2>2. CASE source # "image"
    <3>1. opt' = opt /\ mpc' \in {"setup", "failed"}
      BY Zenon, <1>2, <2>2, Fails DEF Probe, GoTo
    <3>. QED BY <1>0, <2>1, <3>1 DEF OptionsKept, Ended, Unprobed
  <2>3. CASE source = "image"
    <3>1. PICK fi \in FileInfos, direct_io \in BOOLEAN :
            opt' = optimize_for_nbd_server(opt, fi, direct_io)
      BY <1>2, <2>3 DEF Probe
    <3>2. mpc' = "tmpdir"
      BY Zenon, <1>2, <2>3 DEF Probe, GoTo
    <3>. DEFINE o == opt
                p == opt'
    <3>3. /\ p.block_size = o.block_size /\ p.flags = o.flags
          /\ p.digest = o.digest /\ p.threads = o.threads
          /\ p.cache \in BOOLEAN /\ p.aio \in {"native", "threads"}
          /\ o.cache => p.cache
          /\ \/ p.read_size = o.read_size /\ p.queue_depth = o.queue_depth
             \/ /\ "USER_READ_SIZE" \notin o.flags /\ p.read_size = nfs_read_size
                /\ p.queue_depth \in {o.queue_depth, 4}
          /\ p = [digest |-> p.digest, read_size |-> p.read_size,
                  queue_depth |-> p.queue_depth, block_size |-> p.block_size,
                  threads |-> p.threads, cache |-> p.cache, aio |-> p.aio,
                  flags |-> p.flags]
      BY <1>0, <3>1, Optimized
    <3>4. o.block_size \in Nat /\ o.block_size > 0 /\ o.read_size >= o.block_size
          /\ o.read_size % o.block_size = 0
      BY <1>0, <2>1 DEF OptionsKept, Ended, Option
    <3>5. /\ p.read_size >= p.block_size /\ p.read_size % p.block_size = 0
      <4>1. CASE p.read_size = o.read_size
        BY Zenon, <3>3, <3>4, <4>1
      <4>2. CASE "USER_READ_SIZE" \notin o.flags /\ p.read_size = nfs_read_size
        <5>1. o.read_size = DefaultOptions.read_size
          BY <1>0, <2>1, <4>2 DEF OptionsKept, Unprobed
        <5>2. nfs_read_size = 8 * o.read_size /\ o.read_size \in Nat
          BY <5>1, ChosenSizes
        <5>3. (8 * o.read_size) % o.block_size = 0 /\ 8 * o.read_size >= o.block_size
          BY Zenon, <3>4, <5>2, LargerReads
        <5>. QED BY Zenon, <3>3, <4>2, <5>2, <5>3
      <4>. QED BY Zenon, <3>3, <4>1, <4>2
    <3>6. p \in Option
      <4>1. p.read_size \in 0..2 * SizeLimit - 1 /\ p.queue_depth \in 0..2 * SizeLimit - 1
        BY <1>0, <3>3, ChosenSizes DEF Option
      <4>2. /\ p.digest \in BOOLEAN /\ p.block_size \in 0..2 * SizeLimit - 1
            /\ p.threads \in 1..MAX_THREADS /\ p.flags \in SUBSET Flags
        BY <1>0, <3>3 DEF Option
      <4>. HIDE DEF p
      <4>. QED BY Zenon, <3>3, <4>1, <4>2 DEF Option
    <3>7. "USER_READ_SIZE" \in p.flags \/ p.read_size = DefaultOptions.read_size
            \/ p.read_size = nfs_read_size
      BY <1>0, <2>1, <3>3 DEF OptionsKept, Unprobed
    <3>8. "USER_CACHE" \in p.flags => p.cache
      BY <1>0, <3>3 DEF OptionsKept
    <3>. QED BY <1>0, <3>2, <3>3, <3>4, <3>5, <3>6, <3>7, <3>8 DEF OptionsKept, Unprobed
  <2>. QED BY <2>2, <2>3
<1>3. CASE EndOptions
  <2>1. opt' = opt /\ mpc = "options" /\ opt.block_size \in Nat
    BY <1>0, <1>3 DEF EndOptions, Option
  <2>2. \/ mpc' \in {"crashed", "failed"}
        \/ mpc' = "sigint" /\ opt.block_size # 0 /\ Valid(opt)
    BY <1>3, Fails DEF EndOptions, GoTo, DividesByZero
  <2>. QED BY <1>0, <2>1, <2>2 DEF OptionsKept, Unprobed, Ended, Valid
<1>4. CASE SetupWorker
  <2>1. opt' = opt /\ mpc = "setup"
    BY <1>4 DEF SetupWorker, optVars
  <2>2. \/ mpc' = "failed"
        \/ /\ mpc' = "hash" /\ opt.queue_depth <= MAX_QUEUE_DEPTH
           /\ opt.queue_depth > 0 => Allocatable(opt.read_size)
    BY <1>4, Fails DEF SetupWorker, GoTo
  <2>. QED BY <1>0, <2>1, <2>2 DEF OptionsKept, Unprobed, Ended
<1>5. CASE opt' = opt /\ ~EndOptions /\ ~SetupWorker
            /\ ~\E name \in DOMAIN Values : \E value \in Values[name] :
                    ParseOption(name, value)
  <2>1. \/ mpc' = mpc \/ mpc' \in Ended
        \/ /\ mpc \notin {"options"} \cup Ended
           /\ mpc' \notin {"hash", "options"}
           /\ mpc' \in Unprobed => mpc \in Unprobed
    BY Zenon, <1>0, <1>5, Fails, Signals DEF Next, Main, Command, Worker, Fault,
       Terminated, SetupSignals, Probe, create_tmpdir, create_listening_socket,
       CreateEnv, Fork, Unstart, CreateHash, StartWorker, JoinWorker, KillServer,
       WaitServer, CreatePipeHash, PipeRead, PipeUpdate, PipeFinal, Decide, Decision,
       AfterPart, MainFault, SocketFails, StartFails, PipeHashFails, PipeSticks,
       WorkerFault, WorkerSticks, WorkerFails, HashAborts, ServerFault, Usage,
       WorkerEnds, ServerLost, ServerStep, GoTo, Ended, Unprobed, vars
  <2>2. CASE mpc' = mpc
    BY Zenon, <1>0, <1>5, <2>2 DEF OptionsKept
  <2>3. CASE mpc' \in Ended
    BY Zenon, <1>0, <1>5, <2>3 DEF OptionsKept, Ended, Unprobed
  <2>4. CASE /\ mpc \notin {"options"} \cup Ended
             /\ mpc' \notin {"hash", "options"}
             /\ mpc' \in Unprobed => mpc \in Unprobed
    BY <1>0, <1>5, <2>4 DEF OptionsKept
  <2>. QED BY Zenon, <2>1, <2>2, <2>3, <2>4
<1>. QED BY <1>1, <1>2, <1>3, <1>4, <1>5, OptionsFrame

\* What a hash is created with, whoever creates it.
LEMMA Configured ==
    ASSUME NEW o \in Option, NEW q \in 0..MAX_QUEUE_DEPTH,
           o.block_size > 0, o.read_size >= o.block_size,
           o.read_size % o.block_size = 0, Allocatable(o.read_size),
           \/ o.block_size < IntLimit
           \/ o.block_size >= 2 * SizeLimit - IntLimit,
           blkhash_opts_set_block_size(ToUnsigned(o.block_size)) = 0,
           NEW c, c = config_init(ToUnsigned(o.block_size), o.threads, ToUnsigned(q))
    PROVE  /\ c.block_size > 0 /\ c.block_size % 2 = 0
           /\ o.read_size > 0 /\ o.read_size % c.block_size = 0
           /\ c.workers \in 1..MAX_THREADS
           /\ c.max_submissions >= c.workers
           /\ c.max_submissions >= c.queue_depth
<1>1. /\ o.block_size \in Nat /\ o.read_size \in Nat /\ o.threads \in 1..MAX_THREADS
  BY DEF Option
<1>2. ToUnsigned(o.block_size) = o.block_size
  BY <1>1, BlockSizeKept
<1>3. /\ c.block_size = o.block_size /\ c.workers = o.threads
      /\ c.queue_depth = ToUnsigned(q)
  BY <1>2 DEF config_init
<1>4. o.block_size % 2 = 0
  BY <1>2 DEF blkhash_opts_set_block_size, EINVAL
<1>5. c.max_submissions >= o.threads /\ c.max_submissions >= ToUnsigned(q)
  BY <1>1, PoolSize
<1>. QED BY <1>1, <1>3, <1>4, <1>5

LEMMA NextConfigured == IInv /\ [Next]_vars => HashConfigured'
<1>. SUFFICES ASSUME IInv, [Next]_vars PROVE HashConfigured'
  OBVIOUS
<1>0. opt \in Option /\ OptionsKept /\ PhasesOfInput /\ HashConfigured
  BY DEF IInv, TypeOK
<1>1. CASE CreateHash /\ config' # config
  <2>1. /\ mpc = "hash" /\ opt' = opt /\ HashAccepts /\ opt.queue_depth # 0
        /\ config' = config_init(ToUnsigned(opt.block_size), opt.threads,
                                 ToUnsigned(opt.queue_depth))
    BY <1>1 DEF CreateHash, optVars
  <2>2. /\ opt.queue_depth \in 0..MAX_QUEUE_DEPTH /\ Allocatable(opt.read_size)
    BY <1>0, <2>1 DEF OptionsKept, Option
  <2>3. /\ opt.block_size > 0 /\ opt.read_size >= opt.block_size
        /\ opt.read_size % opt.block_size = 0
        /\ \/ opt.block_size < IntLimit
           \/ opt.block_size >= 2 * SizeLimit - IntLimit
    BY <1>0, <2>1 DEF OptionsKept, Ended
  <2>4. blkhash_opts_set_block_size(ToUnsigned(opt.block_size)) = 0
    BY <2>1 DEF HashAccepts
  <2>5. /\ config'.block_size > 0 /\ config'.block_size % 2 = 0
        /\ opt.read_size > 0 /\ opt.read_size % config'.block_size = 0
        /\ config'.workers \in 1..MAX_THREADS
        /\ config'.max_submissions >= config'.workers
        /\ config'.max_submissions >= config'.queue_depth
    BY <1>0, <2>1, <2>2, <2>3, <2>4, Configured
  <2>. QED BY <2>1, <2>5 DEF HashConfigured
<1>2. CASE CreatePipeHash /\ config' # config
  <2>1. /\ mpc = "pipe_hash" /\ opt' = opt /\ HashAccepts /\ Allocatable(opt.read_size)
        /\ config' = config_init(ToUnsigned(opt.block_size), opt.threads, 0)
    BY <1>2 DEF CreatePipeHash, optVars
  <2>2. ToUnsigned(0) = 0 /\ 0 \in 0..MAX_QUEUE_DEPTH
    <3>1. 0 \in 0..MAX_QUEUE_DEPTH /\ 1 \in 1..MAX_THREADS
      BY DEF MAX_QUEUE_DEPTH, MAX_THREADS
    <3>. QED BY <3>1, PoolSize
  <2>3. /\ opt.block_size > 0 /\ opt.read_size >= opt.block_size
        /\ opt.read_size % opt.block_size = 0
        /\ \/ opt.block_size < IntLimit
           \/ opt.block_size >= 2 * SizeLimit - IntLimit
    BY <1>0, <2>1 DEF OptionsKept, Ended
  <2>4. blkhash_opts_set_block_size(ToUnsigned(opt.block_size)) = 0
    BY <2>1 DEF HashAccepts
  <2>5. /\ config'.block_size > 0 /\ config'.block_size % 2 = 0
        /\ opt.read_size > 0 /\ opt.read_size % config'.block_size = 0
        /\ config'.workers \in 1..MAX_THREADS
        /\ config'.max_submissions >= config'.workers
        /\ config'.max_submissions >= config'.queue_depth
    <3>1. config' = config_init(ToUnsigned(opt.block_size), opt.threads, ToUnsigned(0))
      BY <2>1, <2>2
    <3>. QED BY <1>0, <2>1, <2>2, <2>3, <2>4, <3>1, Configured
  <2>. QED BY <2>1, <2>5 DEF HashConfigured
<1>3. CASE config' = config
  <2>1. opt' = opt \/ mpc \in {"probe", "options"}
    BY OptionsFrame
  <2>2. opt' = opt \/ config' = None
    BY Zenon, <1>0, <1>3, <2>1 DEF PhasesOfInput, Unconfigured, Unprobed
  <2>. QED BY Zenon, <1>0, <1>3, <2>2 DEF HashConfigured
<1>4. CreateHash \/ CreatePipeHash \/ config' = config
  BY DEF Next, Main, Command, Worker, Fault, Terminated, EndOptions, SetupSignals, Probe,
     create_tmpdir, create_listening_socket, CreateEnv, Fork, Unstart, SetupWorker,
     StartWorker, JoinWorker, KillServer, WaitServer, PipeRead, PipeUpdate, PipeFinal,
     Decide, MainFault, SocketFails, StartFails, PipeHashFails, PipeSticks, WorkerFault,
     WorkerSticks, WorkerFails, HashAborts, ServerFault, ParseOption, Usage, Signal,
     WorkerEnds, ServerLost, ServerStep, hashVars, vars
<1>. QED BY <1>1, <1>2, <1>3, <1>4

-----------------------------------------------------------------------------
(* The theorems *)

\* Every step keeps the types.
LEMMA NextType == IInv /\ [Next]_vars => TypeOK'
<1>. SUFFICES ASSUME IInv, [Next]_vars PROVE TypeOK'
  OBVIOUS
<1>0. /\ TypeOK /\ debug \in BOOLEAN
      /\ child \in {"none", "forked", "serving", "killed", "zombie", "reaped"}
  BY DEF IInv, TypeOK
<1>1. UNCHANGED inputVars
  BY Zenon DEF Next, Main, Command, Worker, Fault, Terminated, EndOptions, SetupSignals,
     Probe, create_tmpdir, create_listening_socket, CreateEnv, Fork, Unstart,
     SetupWorker, CreateHash, StartWorker, JoinWorker, KillServer, WaitServer,
     CreatePipeHash, PipeRead, PipeUpdate, PipeFinal, Decide, MainFault, SocketFails,
     StartFails, PipeHashFails, PipeSticks, WorkerFault, WorkerSticks, WorkerFails,
     HashAborts, ServerFault, ParseOption, Usage, Signal, WorkerEnds, ServerLost,
     ServerStep, vars
<1>2. child' \in {"none", "forked", "serving", "killed", "zombie", "reaped"}
  BY <1>0 DEF Next, Main, Command, Worker, Fault, Terminated, EndOptions, SetupSignals,
     Probe, create_tmpdir, create_listening_socket, CreateEnv, Fork, Unstart,
     SetupWorker, CreateHash, StartWorker, JoinWorker, KillServer, WaitServer,
     CreatePipeHash, PipeRead, PipeUpdate, PipeFinal, Decide, MainFault, SocketFails,
     StartFails, PipeHashFails, PipeSticks, WorkerFault, WorkerSticks, WorkerFails,
     HashAborts, ServerFault, ParseOption, Usage, Signal, WorkerEnds, ServerLost,
     ServerStep, Killed, serverVars, vars
<1>3. /\ {tmpdir', sock', spath', gaveup'} \subseteq BOOLEAN
      /\ {size', left', pos', hashed'} \subseteq Nat
      /\ digest' \in BOOLEAN /\ failed' \in BOOLEAN
      /\ worker' \in {"none", "run", "done", "stuck"}
      /\ mpc' \in Phases /\ opt' \in Option
  BY NextSocket, NextPipe, NextDigest, NextPhases, NextOptions
<1>4. /\ source' \in SourceKinds /\ environ' \in Seq(STRING) /\ debug' \in BOOLEAN
  BY <1>0, <1>1 DEF TypeOK, inputVars
<1>. QED BY <1>2, <1>3, <1>4 DEF TypeOK

\* The invariant holds when main() starts.
LEMMA InitIInv == Init => IInv
<1>. SUFFICES ASSUME Init PROVE IInv
  OBVIOUS
<1>1. /\ mpc = "options" /\ opt = DefaultOptions /\ child = "none" /\ worker = "none"
      /\ config = None /\ digest = FALSE /\ failed = FALSE
      /\ tmpdir = FALSE /\ sock = FALSE /\ spath = FALSE /\ gaveup = FALSE
      /\ debug \in BOOLEAN /\ source \in SourceKinds /\ environ \in Seq(STRING)
  BY ProgramAssumption, InputAssumption DEF Init
<1>2. /\ size \in Nat /\ (source # "pipe" => size = 0)
      /\ left = size /\ pos = 0 /\ hashed = 0
  BY ProgramAssumption DEF Init
<1>3. TypeOK
  <2>1. opt \in Option
    BY <1>1, ChosenSizes
  <2>2. {debug, failed, tmpdir, sock, spath, gaveup, digest} \subseteq BOOLEAN
    BY Zenon, <1>1
  <2>3. {size, left, pos, hashed} \subseteq Nat
    BY <1>2
  <2>4. mpc \in Phases
    BY <1>1 DEF Phases, Unprobed
  <2>. QED BY <1>1, <2>1, <2>2, <2>3, <2>4 DEF TypeOK
<1>4. OptionsKept
  <2>1. opt.flags = {}
    BY <1>1 DEF DefaultOptions
  <2>. QED BY <1>1, <2>1, ChosenSizes DEF OptionsKept, Unprobed
<1>5. PhasesOfInput /\ ServerSettled /\ SocketKnown /\ DigestStored
  BY <1>1 DEF PhasesOfInput, ServerSettled, SocketKnown, DigestStored, Unprobed, Starting,
       Piping, Stopping, Deciding, TornDown, Ended
<1>6. PipeCounted
  BY <1>1, <1>2 DEF PipeCounted
<1>. QED BY <1>1, <1>3, <1>4, <1>5, <1>6 DEF IInv, HashConfigured, PrintedIsWhole

\* The invariant holds: main(), the worker, the server and the signals preserve it.
THEOREM Invariance == Spec => []IInv
<1>1. IInv /\ [Next]_vars => IInv'
  BY NextType, NextOptions, NextPhases, NextServer, NextSocket, NextDigest, NextPipe,
     NextConfigured, NextPrinted DEF IInv
<1>. QED BY <1>1, InitIInv, PTL DEF Spec

\* Whatever the options, the hash gets a block size that divides the read size, and
\* a pool with room for every worker.
THEOREM HashIsConfigured == Spec => []HashConfigured
<1>1. IInv => HashConfigured
  BY DEF IInv
<1>. QED BY <1>1, Invariance, PTL

\* qemu-nbd never gets a cache with aio=native, nor loses the one the user asked for.
THEOREM ServerGetsOptions == Spec => []ServerOptions
<1>1. IInv => ServerOptions
  BY DEF IInv, ServerSettled, OptionsKept, ServerOptions
<1>. QED BY <1>1, Invariance, PTL

\* A program that ends in order leaves nothing behind, unless a system call failed.
THEOREM LeavesNothing == Spec => []NoLeftovers
<1>1. IInv => NoLeftovers
  BY DEF IInv, SocketKnown, NoLeftovers, TornDown
<1>. QED BY <1>1, Invariance, PTL

\* A checksum is printed only for the digest of all the input.
THEOREM PrintsWhole == Spec => []PrintedIsWhole
<1>1. IInv => PrintedIsWhole
  BY DEF IInv
<1>. QED BY <1>1, Invariance, PTL

\* The array that create_env() fills.
LEMMA EnvEntries ==
    ASSUME NEW names \in Seq(STRING), NEW e, e = create_env(names),
           NEW n \in Nat, n = Len(names)
    PROVE  /\ DOMAIN e = 1..(n + 3)
           /\ e[1] = "LISTEN_PID" /\ e[2] = "LISTEN_FDS" /\ e[n + 3] = None
           /\ \A i \in 1..n : e[i + 2] = IF names[i] \in LISTEN THEN None ELSE names[i]
           /\ \A i \in 1..n : names[i] # None
<1>. DEFINE a == <<"LISTEN_PID", "LISTEN_FDS">>
            f == [i \in 1..n |-> IF names[i] \in LISTEN THEN None ELSE names[i]]
            S == STRING \cup {None, "LISTEN_PID", "LISTEN_FDS"}
<1>1. a \in Seq(S) /\ Len(a) = 2 /\ a[1] = "LISTEN_PID" /\ a[2] = "LISTEN_FDS"
  OBVIOUS
<1>2. \A i \in 1..n : names[i] \in STRING
  OBVIOUS
<1>3. f \in [1..n -> S]
  BY <1>2
<1>4. f \in Seq(S) /\ Len(f) = n
  BY <1>3
<1>5. <<None>> \in Seq(S) /\ Len(<<None>>) = 1
  OBVIOUS
<1>6. e = a \o f \o <<None>>
  BY DEF create_env
<1>7. \A i \in 1..n : f[i] = IF names[i] \in LISTEN THEN None ELSE names[i]
  OBVIOUS
<1>. HIDE DEF a, f, S
<1>8. /\ a \o f \in Seq(S) /\ Len(a \o f) = n + 2
      /\ \A i \in 1..(n + 2) : (a \o f)[i] = IF i <= 2 THEN a[i] ELSE f[i - 2]
  <2>1. /\ a \o f \in Seq(S) /\ Len(a \o f) = Len(a) + Len(f)
        /\ \A i \in 1..(Len(a) + Len(f)) :
               (a \o f)[i] = IF i <= Len(a) THEN a[i] ELSE f[i - Len(a)]
    BY <1>1, <1>4, Concatenation, Zenon
  <2>2. Len(a) + Len(f) = n + 2
    BY <1>1, <1>4
  <2>. QED BY <1>1, <2>1, <2>2
<1>9. /\ e \in Seq(S) /\ Len(e) = n + 3
      /\ \A i \in 1..(n + 3) : e[i] = IF i <= n + 2 THEN (a \o f)[i]
                                      ELSE <<None>>[i - (n + 2)]
  <2>. DEFINE b == a \o f
  <2>1. b \in Seq(S) /\ Len(b) = n + 2
    BY <1>8
  <2>. HIDE DEF b
  <2>2. /\ b \o <<None>> \in Seq(S) /\ Len(b \o <<None>>) = Len(b) + Len(<<None>>)
        /\ \A i \in 1..(Len(b) + Len(<<None>>)) :
               (b \o <<None>>)[i] = IF i <= Len(b) THEN b[i] ELSE <<None>>[i - Len(b)]
    BY <1>5, <2>1, Concatenation, Zenon
  <2>3. Len(b) + Len(<<None>>) = n + 3
    BY <1>5, <2>1
  <2>4. e = b \o <<None>>
    BY <1>6 DEF b
  <2>5. /\ e \in Seq(S) /\ Len(e) = n + 3
        /\ \A i \in 1..(n + 3) : e[i] = IF i <= n + 2 THEN b[i] ELSE <<None>>[i - (n + 2)]
    BY <2>1, <2>2, <2>3, <2>4
  <2>. QED BY Zenon, <2>5 DEF b
<1>10. DOMAIN e = 1..(n + 3)
  BY <1>9
<1>11. e[1] = "LISTEN_PID" /\ e[2] = "LISTEN_FDS" /\ e[n + 3] = None
  <2>1. e[1] = (a \o f)[1] /\ e[2] = (a \o f)[2]
    <3>1. /\ 1 \in 1..(n + 3) /\ 1 <= n + 2
          /\ 2 \in 1..(n + 3) /\ 2 <= n + 2
      OBVIOUS
    <3>. QED BY <1>9, <3>1, Zenon
  <2>2. (a \o f)[1] = a[1] /\ (a \o f)[2] = a[2]
    BY <1>8
  <2>3. e[n + 3] = <<None>>[1]
    <3>1. n + 3 \in 1..(n + 3) /\ ~(n + 3 <= n + 2) /\ (n + 3) - (n + 2) = 1
      OBVIOUS
    <3>. QED BY <1>9, <3>1
  <2>4. <<None>>[1] = None
    OBVIOUS
  <2>. QED BY <1>1, <2>1, <2>2, <2>3, <2>4
<1>12. \A i \in 1..n : e[i + 2] = f[i]
  BY <1>8, <1>9
<1>. QED BY <1>2, <1>7, <1>10, <1>11, <1>12, InputAssumption

\* qemu-nbd finds the two variables of socket activation once, and all others.
THEOREM ServerGetsEnvironment == Spec => []ServerEnvironment
<1>1. ASSUME IInv PROVE ServerEnvironment
  <2>. SUFFICES ASSUME child # "none" PROVE ServerEnvironment
    BY DEF ServerEnvironment
  <2>1. env = create_env(environ) /\ environ \in Seq(STRING)
    BY <1>1 DEF IInv, ServerSettled, TypeOK
  <2>2. PICK n \in Nat : n = Len(environ)
    BY <2>1
  <2>3. /\ DOMAIN env = 1..(n + 3) /\ DOMAIN environ = 1..n
        /\ env[1] = "LISTEN_PID" /\ env[2] = "LISTEN_FDS" /\ env[n + 3] = None
        /\ \A i \in 1..n : /\ env[i + 2] = IF environ[i] \in LISTEN THEN None
                                           ELSE environ[i]
                           /\ environ[i] # None
    BY <2>1, <2>2, EnvEntries
  <2>4. None \notin LISTEN
    BY InputAssumption DEF LISTEN
  <2>5. \A i \in Passed : i \in 1..(n + 2) /\ env[i] # None
    <3>1. \A i \in Passed : i \in 1..(n + 3) /\ i \in 1..i /\ env[i] # None
      BY <2>3 DEF Passed
    <3>. QED BY <2>3, <3>1
  <2>6. 1 \in Passed /\ 2 \in Passed
    <3>1. \A j \in 1..2 : j = 1 \/ j = 2
      OBVIOUS
    <3>2. \A j \in 1..1 : j = 1
      OBVIOUS
    <3>3. env[1] # None /\ env[2] # None /\ 1 \in DOMAIN env /\ 2 \in DOMAIN env
      BY <2>3, <2>4 DEF LISTEN
    <3>. QED BY <3>1, <3>2, <3>3 DEF Passed
  <2>7. \A name \in LISTEN : \E i \in Passed : env[i] = name
    BY <2>3, <2>6 DEF LISTEN
  <2>8. \A i \in Passed : env[i] \in LISTEN => i \in {1, 2}
    <3>. SUFFICES ASSUME NEW i \in Passed, env[i] \in LISTEN, i \notin {1, 2} PROVE FALSE
      OBVIOUS
    <3>1. i \in 1..(n + 2)
      BY <2>5
    <3>2. i - 2 \in 1..n /\ (i - 2) + 2 = i
      BY <3>1
    <3>. QED BY <2>3, <2>4, <3>2
  <2>9. \A i, j \in Passed : env[i] = env[j] /\ env[i] \in LISTEN => i = j
    BY <2>3, <2>8
  <2>10. ASSUME \A i \in DOMAIN environ : environ[i] \notin LISTEN
         PROVE  Cardinality(Passed) = n + 2
    <3>1. \A i \in 1..n : env[i + 2] # None
      BY Zenon, <2>3, <2>10
    <3>2. \A j \in 1..(n + 2) : env[j] # None
      <4>. SUFFICES ASSUME NEW j \in 1..(n + 2), j \notin {1, 2} PROVE env[j] # None
        BY <2>3, <2>4 DEF LISTEN
      <4>1. j - 2 \in 1..n /\ (j - 2) + 2 = j
        OBVIOUS
      <4>. QED BY <3>1, <4>1
    <3>3. \A i \in 1..(n + 2) : i \in Passed
      BY <2>3, <3>2 DEF Passed
    <3>4. Passed = 1..(n + 2)
      BY <2>5, <3>3 DEF Passed
    <3>. QED BY <3>4, FS_Interval
  <2>. QED BY <2>2, <2>7, <2>9, <2>10 DEF ServerEnvironment
<1>2. IInv => ServerEnvironment
  BY <1>1
<1>. QED BY <1>2, Invariance, PTL

-----------------------------------------------------------------------------
(* The program comes to its end *)

\* A file was truncated, or a worker of the hash did not start.
MayStick == ("truncate" \in Faults /\ source = "file") \/ "pool" \in Faults

\* The server that main() is going to stop, the worker it is going to join, and
\* the buffer that pipe_ops_read() fills.
ChildKnown ==
    /\ source = "image" /\ mpc \in Working \cup {"kill"} =>
          child \in {"forked", "serving", "zombie"}
    /\ mpc = "wait" => child \in {"killed", "zombie"}
    /\ mpc = "join" => worker # "none"
    /\ worker = "stuck" => MayStick
    /\ pos <= PipeBuffer

\* While main() joins the worker, that one ended or it runs, with a server that
\* it can connect to or whose end it is going to see, unless the file was
\* truncated or a worker of the hash did not start; waitpid() waits for a process
\* that was killed; the pipe is read only while the buffer has room.
WaitsForSomebody ==
    /\ mpc = "join" =>
          \/ worker = "done"
          \/ worker = "stuck" /\ MayStick
          \/ /\ worker = "run"
             /\ source = "image" => child \in {"forked", "serving", "zombie"}
    /\ mpc = "wait" => child \in {"killed", "zombie"}
    /\ mpc = "pipe" => PipeDone \/ (left > 0 /\ pos < PipeBuffer)

\* No step takes the server or the worker away from main() that waits for it.
LEMMA NextChild == IInv /\ ChildKnown /\ [Next]_vars => ChildKnown'
<1>. SUFFICES ASSUME IInv, ChildKnown, [Next]_vars PROVE ChildKnown'
  OBVIOUS
<1>0. /\ mpc \in Phases /\ PhasesOfInput /\ source \in SourceKinds
      /\ child \in {"none", "forked", "serving", "killed", "zombie", "reaped"}
      /\ left \in Nat /\ pos \in Nat
  BY Zenon DEF IInv, TypeOK
<1>. USE DEF Unprobed, Starting, Piping, Working, Stopping, Deciding, Ended,
             GoTo, inputVars, serverVars, hashVars, pipeVars, MayStick
<1>a. ASSUME UNCHANGED <<child, worker, pos, source>>,
             mpc' = mpc \/ mpc' \notin Working \cup {"kill", "wait"}
      PROVE  ChildKnown'
  BY Zenon, <1>a DEF ChildKnown
<1>1. CASE EndOptions \/ Probe \/ SetupSignals
  <2>1. UNCHANGED <<child, worker, pos, source>>
    BY Zenon, <1>1 DEF EndOptions, Probe, SetupSignals
  <2>2. \/ mpc' = mpc \/ mpc' \notin Working \cup {"kill", "wait"}
        \/ source # "image" /\ mpc' = "setup"
    BY <1>0, <1>1, Fails DEF EndOptions, Probe, SetupSignals, SourceKinds
  <2>3. CASE source # "image" /\ mpc' = "setup"
    BY Zenon, <2>1, <2>3 DEF ChildKnown
  <2>. QED BY Zenon, <1>a, <2>1, <2>2, <2>3
<1>2. CASE create_tmpdir \/ create_listening_socket \/ CreateEnv \/ Unstart
           \/ CreatePipeHash \/ PipeFinal \/ Decide
  <2>1. UNCHANGED <<child, worker, pos, source>>
    BY Zenon, <1>2 DEF create_tmpdir, create_listening_socket, CreateEnv, Unstart,
       CreatePipeHash, PipeFinal, Decide
  <2>2. mpc' \notin Working \cup {"kill", "wait"}
    BY <1>2, Fails DEF create_tmpdir, create_listening_socket, CreateEnv, Unstart,
       CreatePipeHash, PipeFinal, Decide, Decision
  <2>. QED BY Zenon, <1>a, <2>1, <2>2
<1>3. CASE Fork
  BY <1>3 DEF Fork, ChildKnown
<1>4. CASE SetupWorker \/ CreateHash \/ StartWorker \/ JoinWorker
  <2>1. UNCHANGED <<child, pos, source>> /\ mpc \in Working
    BY Zenon, <1>4 DEF SetupWorker, CreateHash, StartWorker, JoinWorker
  <2>2. /\ mpc' # "wait"
        /\ mpc' = "join" => worker' # "none"
        /\ mpc' = "kill" => source = "image"
        /\ worker' \in {worker, "run"}
    BY <1>4, Fails DEF SetupWorker, CreateHash, StartWorker, JoinWorker
  <2>. QED BY <2>1, <2>2 DEF ChildKnown
<1>5. CASE KillServer
  <2>1. child \in {"forked", "serving", "zombie"}
    BY Zenon, <1>0, <1>5 DEF KillServer, ChildKnown, PhasesOfInput
  <2>. QED BY <1>5, <2>1 DEF KillServer, Killed, ChildKnown
<1>6. CASE WaitServer
  BY Zenon, <1>6 DEF WaitServer, ChildKnown
<1>7. CASE PipeRead \/ PipeUpdate
  <2>1. UNCHANGED <<child, worker, source>> /\ mpc' \in Piping
    BY <1>7 DEF PipeRead, PipeUpdate, AfterPart
  <2>2. pos' <= PipeBuffer
    BY <1>7, ProgramAssumption DEF PipeRead, PipeUpdate
  <2>. QED BY <2>1, <2>2 DEF ChildKnown
<1>8. CASE Command \/ MainFault \/ SocketFails \/ StartFails \/ PipeHashFails \/ PipeSticks
           \/ HashAborts \/ Terminated \/ UNCHANGED vars
  <2>1. UNCHANGED <<child, worker, pos, source>>
    BY Zenon, <1>8 DEF Command, ParseOption, Usage, MainFault, SocketFails, StartFails,
       PipeHashFails, PipeSticks, HashAborts, Terminated, vars
  <2>2. mpc' = mpc \/ mpc' \notin Working \cup {"kill", "wait"}
    BY Zenon, <1>8, Fails DEF Command, ParseOption, Usage, MainFault, SocketFails,
       StartFails, PipeHashFails, PipeSticks, HashAborts, Terminated, vars
  <2>. QED BY Zenon, <1>a, <2>1, <2>2
<1>9. ASSUME NEW signum \in {"SIGINT", "SIGTERM"}, Signal(signum) PROVE ChildKnown'
  <2>1. /\ UNCHANGED <<child, worker, pos, source>>
        /\ mpc' = mpc \/ mpc' \in {"pipe_eof", "decide", "killed"}
    BY Zenon, <1>9, Signals
  <2>. QED BY <1>a, <2>1
<1>10. CASE Worker \/ WorkerFault \/ WorkerSticks
  <2>1. /\ UNCHANGED <<child, pos, source, mpc>>
        /\ worker' = "done" \/ (worker' = "stuck" /\ MayStick)
    BY Zenon, <1>10 DEF Worker, WorkerFault, WorkerSticks, WorkerEnds, ServerLost,
       WorkerFails, inputVars, MayStick
  <2>. QED BY <2>1 DEF ChildKnown, MayStick
<1>11. CASE ServerStep \/ ServerFault
  <2>1. UNCHANGED <<worker, pos, source, mpc>>
    BY Zenon, <1>11 DEF ServerStep, ServerFault
  <2>2. \/ child \in {"forked", "serving"} /\ child' \in {"serving", "zombie"}
        \/ child = "killed" /\ child' = "zombie"
    BY Zenon, <1>11 DEF ServerStep, ServerFault
  <2>. QED BY <2>1, <2>2 DEF ChildKnown
<1>. QED
  BY Zenon, <1>1, <1>2, <1>3, <1>4, <1>5, <1>6, <1>7, <1>8, <1>9, <1>10, <1>11
     DEF Next, Main, Fault

\* main() never waits for a worker that does not run, for a server that nobody
\* killed, or for bytes that have no room in the buffer; a worker that runs and
\* never ends reads a truncated file, or its hash has a worker that did not start.
THEOREM MainWaitsForSomebody == Spec => []WaitsForSomebody
<1>1. Init => ChildKnown
  BY ProgramAssumption DEF Init, ChildKnown, Working
<1>2. IInv /\ ChildKnown => WaitsForSomebody
  <2>. SUFFICES ASSUME IInv, ChildKnown PROVE WaitsForSomebody
    OBVIOUS
  <2>1. left \in Nat /\ pos \in Nat /\ worker \in {"none", "run", "done", "stuck"}
    BY Zenon DEF IInv, TypeOK
  <2>2. PipeDone \/ (left > 0 /\ pos < PipeBuffer)
    BY <2>1, ProgramAssumption DEF ChildKnown, PipeDone
  <2>. QED BY <2>1, <2>2 DEF WaitsForSomebody, ChildKnown, Working
<1>3. Spec => []ChildKnown
  BY <1>1, NextChild, Invariance, PTL DEF Spec
<1>. QED BY <1>2, <1>3, Invariance, PTL

\* How far a phase is from the end of the program.
Rank(p) ==
    CASE p = "options"                  -> 16
      [] p = "sigint"                   -> 15
      [] p = "sigterm"                  -> 14
      [] p = "probe"                    -> 13
      [] p = "tmpdir"                   -> 12
      [] p = "socket"                   -> 11
      [] p = "env"                      -> 10
      [] p = "fork"                     -> 9
      [] p \in {"setup", "open_pipe"}   -> 8
      [] p \in {"hash", "pipe_hash"}    -> 7
      [] p = "thread"                   -> 6
      [] p \in {"join", "pipe"}         -> 5
      [] p \in {"kill", "pipe_eof"}     -> 4
      [] p \in {"wait", "pipe_final"}   -> 3
      [] p = "decide"                   -> 2
      [] p \in {"print", "unstart", "stuck"} -> 1
      [] OTHER                          -> 0

\* A bound of the steps that main() has left: a byte of the pipe is read and then
\* hashed.
StepsLeft == 2 * left + pos + Rank(mpc)

\* Every step of main() leaves fewer steps, and no signal, fault, worker or server
\* adds one: main() has no loop that goes on forever, and it ends when those it
\* waits for do.
MainAdvances ==
    [][/\ Main => StepsLeft' < StepsLeft
       /\ ~Main => StepsLeft' = StepsLeft \/ StepsLeft' < StepsLeft]_vars

\* The ranks, one by one.
LEMMA Ranks ==
    /\ Rank("options") = 16 /\ Rank("sigint") = 15 /\ Rank("sigterm") = 14
    /\ Rank("probe") = 13 /\ Rank("tmpdir") = 12 /\ Rank("socket") = 11
    /\ Rank("env") = 10 /\ Rank("fork") = 9
    /\ Rank("setup") = 8 /\ Rank("open_pipe") = 8
    /\ Rank("hash") = 7 /\ Rank("pipe_hash") = 7 /\ Rank("thread") = 6
    /\ Rank("join") = 5 /\ Rank("pipe") = 5
    /\ Rank("kill") = 4 /\ Rank("pipe_eof") = 4
    /\ Rank("wait") = 3 /\ Rank("pipe_final") = 3 /\ Rank("decide") = 2
    /\ Rank("print") = 1 /\ Rank("unstart") = 1 /\ Rank("stuck") = 1
    /\ \A p \in Ended : Rank(p) = 0
    /\ \A p \in Phases : Rank(p) \in Nat /\ (p \notin Ended => Rank(p) > 0)
BY DEF Rank, Ended, Phases, Unprobed, Starting, Piping, Working, Stopping, Deciding

\* A step to a phase closer to the end, which reads nothing.
LEMMA Lowers ==
    ASSUME IInv, UNCHANGED <<left, pos>>, mpc' \in Phases,
           Rank(mpc') < Rank(mpc)
    PROVE  StepsLeft' < StepsLeft
<1>1. left \in Nat /\ pos \in Nat /\ mpc \in Phases
  BY Zenon DEF IInv, TypeOK
<1>2. PICK m, n \in Nat : m = Rank(mpc) /\ n = Rank(mpc')
  BY Zenon, <1>1, Ranks
<1>3. StepsLeft = 2 * left + pos + m /\ StepsLeft' = 2 * left + pos + n
  BY <1>2 DEF StepsLeft
<1>. QED BY <1>1, <1>2, <1>3

\* A step that leaves everything the bound depends on.
LEMMA Keeps ==
    ASSUME IInv, UNCHANGED <<left, pos, mpc>>
    PROVE  StepsLeft' = StepsLeft
BY Zenon DEF StepsLeft

\* Reading the pipe and hashing what was read.
LEMMA PipeAdvances ==
    ASSUME IInv, PipeRead \/ PipeUpdate
    PROVE  StepsLeft' < StepsLeft
<1>1. left \in Nat /\ pos \in Nat /\ mpc \in Phases /\ PipeCounted
  BY Zenon DEF IInv, TypeOK
<1>2. CASE PipeRead
  <2>1. PICK n \in 1..left : pos' = pos + n /\ left' = left - n
    BY Zenon, <1>2 DEF PipeRead
  <2>2. PICK r \in Nat : r = Rank(mpc)
    BY Zenon, <1>1, Ranks
  <2>3. StepsLeft = 2 * left + pos + r /\ StepsLeft' = 2 * (left - n) + (pos + n) + r
    <3>1. mpc' = mpc
      BY Zenon, <1>2 DEF PipeRead
    <3>. QED BY Zenon, <2>1, <2>2, <3>1 DEF StepsLeft
  <2>. QED BY <1>1, <2>1, <2>2, <2>3
<1>3. CASE PipeUpdate
  <2>1. /\ mpc \in {"pipe", "pipe_eof"} /\ pos' = 0 /\ left' = left
        /\ mpc' = IF pos = 0 THEN "pipe_final" ELSE AfterPart
    BY Zenon, <1>3 DEF PipeUpdate, GoTo
  <2>2. mpc = "pipe_eof" => ~running
    BY Zenon, <1>1 DEF PipeCounted
  <2>3. \/ mpc' = "pipe_final"
        \/ mpc' = "pipe" /\ mpc = "pipe" /\ pos # 0
    BY Zenon, <2>1, <2>2 DEF AfterPart
  <2>4. /\ Rank("pipe") = 5 /\ Rank("pipe_eof") = 4 /\ Rank("pipe_final") = 3
    BY Zenon, Ranks
  <2>5. PICK m, n \in Nat : /\ m = Rank(mpc) /\ n = Rank(mpc')
                            /\ n < m \/ (n = m /\ pos # 0)
    <3>1. CASE mpc' = "pipe_final"
      BY <2>1, <2>4, <3>1
    <3>2. CASE mpc' = "pipe" /\ mpc = "pipe" /\ pos # 0
      BY <2>4, <3>2
    <3>. QED BY Zenon, <2>3, <3>1, <3>2
  <2>6. StepsLeft = 2 * left + pos + m /\ StepsLeft' = 2 * left + 0 + n
    BY Zenon, <2>1, <2>5 DEF StepsLeft
  <2>. QED BY <1>1, <2>5, <2>6
<1>. QED BY Zenon, <1>2, <1>3

\* Every step of main() lowers the bound.
LEMMA MainLowers == ASSUME IInv, [Next]_vars, Main PROVE StepsLeft' < StepsLeft
<1>0. mpc \in Phases /\ mpc' \in Phases /\ source \in SourceKinds
  BY Zenon, NextPhases DEF IInv, TypeOK
<1>. USE DEF GoTo, pipeVars
<1>f. Rank("failed") = 0 /\ Rank("crashed") = 0 /\ Rank("not_started") = 0
      /\ Rank("signaled") = 0 /\ Rank("exited0") = 0 /\ Rank("exited1") = 0
  BY Zenon, Ranks DEF Ended
<1>a. ASSUME UNCHANGED <<left, pos>>, Rank(mpc') < Rank(mpc)
      PROVE  StepsLeft' < StepsLeft
  BY Zenon, <1>0, <1>a, Lowers
<1>1. CASE EndOptions \/ SetupSignals
  <2>1. UNCHANGED <<left, pos>>
    BY Zenon, <1>1 DEF EndOptions, SetupSignals
  <2>2. \/ mpc = "options" /\ mpc' \in {"crashed", "failed", "sigint"}
        \/ mpc = "sigint" /\ mpc' = "sigterm"
        \/ mpc = "sigterm" /\ mpc' \in {"open_pipe", "setup", "probe"}
    BY <1>1, Fails DEF EndOptions, SetupSignals
  <2>3. Rank(mpc') < Rank(mpc)
    BY <1>f, <2>2, Ranks
  <2>. QED BY Zenon, <1>a, <2>1, <2>3
<1>2. CASE Probe \/ create_tmpdir \/ create_listening_socket \/ CreateEnv \/ Fork
           \/ Unstart
  <2>1. UNCHANGED <<left, pos>>
    BY Zenon, <1>2 DEF Probe, create_tmpdir, create_listening_socket, CreateEnv, Fork,
       Unstart
  <2>2. \/ mpc = "probe" /\ mpc' \in {"tmpdir", "setup", "failed"}
        \/ mpc = "tmpdir" /\ mpc' = "socket"
        \/ mpc = "socket" /\ mpc' = "env"
        \/ mpc = "env" /\ mpc' = "fork"
        \/ mpc = "fork" /\ mpc' = "setup"
        \/ mpc = "unstart" /\ mpc' = "not_started"
    BY Zenon, <1>2, Fails DEF Probe, create_tmpdir, create_listening_socket, CreateEnv,
       Fork, Unstart
  <2>3. Rank(mpc') < Rank(mpc)
    BY <1>f, <2>2, Ranks
  <2>. QED BY Zenon, <1>a, <2>1, <2>3
<1>3. CASE SetupWorker \/ CreateHash \/ StartWorker \/ JoinWorker \/ KillServer
           \/ WaitServer
  <2>1. UNCHANGED <<left, pos>>
    BY Zenon, <1>3 DEF SetupWorker, CreateHash, StartWorker, JoinWorker, KillServer,
       WaitServer
  <2>2. \/ mpc = "setup" /\ mpc' \in {"hash", "failed"}
        \/ mpc = "hash" /\ mpc' \in {"thread", "failed"}
        \/ mpc = "thread" /\ mpc' = "join"
        \/ mpc = "join" /\ mpc' \in {"kill", "decide"}
        \/ mpc = "kill" /\ mpc' = "wait"
        \/ mpc = "wait" /\ mpc' = "decide"
    BY Zenon, <1>3, Fails DEF SetupWorker, CreateHash, StartWorker, JoinWorker, KillServer,
       WaitServer
  <2>3. Rank(mpc') < Rank(mpc)
    BY <1>f, <2>2, Ranks
  <2>. QED BY Zenon, <1>a, <2>1, <2>3
<1>4. CASE CreatePipeHash \/ PipeFinal \/ Decide
  <2>1. UNCHANGED <<left, pos>>
    BY Zenon, <1>4 DEF CreatePipeHash, PipeFinal, Decide
  <2>2. \/ mpc = "open_pipe" /\ mpc' = "pipe_hash"
        \/ mpc = "pipe_hash" /\ mpc' \in {"pipe", "failed"}
        \/ mpc = "pipe_final" /\ mpc' = "decide"
        \/ mpc = "decide" /\ mpc' \in {"signaled", "exited1", "print"}
        \/ mpc = "print" /\ mpc' = "exited0"
    BY Zenon, <1>4, Fails DEF CreatePipeHash, PipeFinal, Decide, Decision
  <2>3. Rank(mpc') < Rank(mpc)
    BY <1>f, <2>2, Ranks
  <2>. QED BY Zenon, <1>a, <2>1, <2>3
<1>. QED BY Zenon, <1>1, <1>2, <1>3, <1>4, PipeAdvances DEF Main

\* The other steps keep the bound, or end a phase early.
LEMMA OthersAddNothing ==
    ASSUME IInv, [Next]_vars, ~Main
    PROVE  StepsLeft' = StepsLeft \/ StepsLeft' < StepsLeft
<1>0. mpc \in Phases /\ mpc' \in Phases
  BY Zenon, NextPhases DEF IInv, TypeOK
<1>. USE DEF GoTo, pipeVars
<1>a. ASSUME UNCHANGED <<left, pos>>, mpc \notin Ended, mpc' \in Ended
      PROVE  StepsLeft' < StepsLeft
  <2>1. Rank(mpc') = 0 /\ Rank(mpc) \in Nat /\ Rank(mpc) > 0
    BY Zenon, <1>0, <1>a, Ranks
  <2>2. Rank(mpc') < Rank(mpc)
    BY <2>1
  <2>. QED BY Zenon, <1>0, <1>a, <2>2, Lowers
<1>1. CASE Command
  <2>1. /\ UNCHANGED <<left, pos>> /\ mpc = "options"
        /\ mpc' \in {"options", "failed", "usage"}
    BY <1>1, Fails DEF Command, ParseOption, Usage
  <2>. QED BY Zenon, <1>a, <2>1, Keeps DEF Ended
<1>2. ASSUME NEW signum \in {"SIGINT", "SIGTERM"}, Signal(signum)
      PROVE  StepsLeft' = StepsLeft \/ StepsLeft' < StepsLeft
  <2>1. /\ UNCHANGED <<left, pos>> /\ mpc \notin Ended
        /\ \/ mpc' = mpc
           \/ mpc = "pipe" /\ mpc' = "pipe_eof"
           \/ mpc = "wait" /\ mpc' = "decide"
           \/ mpc' = "killed"
    BY Zenon, <1>2, Signals
  <2>2. CASE mpc' = mpc
    BY Zenon, <2>1, <2>2, Keeps
  <2>3. CASE mpc' = "killed"
    BY <1>a, <2>1, <2>3 DEF Ended
  <2>4. CASE \/ mpc = "pipe" /\ mpc' = "pipe_eof"
             \/ mpc = "wait" /\ mpc' = "decide"
    <3>1. Rank(mpc') < Rank(mpc)
      BY <2>4, Ranks
    <3>. QED BY Zenon, <1>0, <2>1, <3>1, Lowers
  <2>. QED BY Zenon, <2>1, <2>2, <2>3, <2>4
<1>3. CASE Worker \/ ServerStep \/ WorkerFault \/ WorkerSticks \/ ServerFault \/ Terminated
           \/ UNCHANGED vars
  <2>1. UNCHANGED <<left, pos, mpc>>
    BY Zenon, <1>3 DEF Worker, ServerStep, WorkerFault, WorkerSticks, ServerFault,
       Terminated, WorkerEnds, ServerLost, WorkerFails, vars
  <2>. QED BY Zenon, <2>1, Keeps
<1>4. CASE SocketFails \/ StartFails
  <2>1. /\ UNCHANGED <<left, pos>> /\ mpc' = "unstart"
        /\ mpc \in {"socket", "env", "fork"}
    BY Zenon, <1>4 DEF SocketFails, StartFails
  <2>2. Rank(mpc') < Rank(mpc)
    BY <2>1, Ranks
  <2>. QED BY Zenon, <1>0, <2>1, <2>2, Lowers
<1>5. CASE MainFault \/ PipeHashFails
  <2>1. UNCHANGED <<left, pos>>
    BY Zenon, <1>5 DEF MainFault, PipeHashFails
  <2>2. mpc \notin Ended /\ mpc' \in Ended
    BY <1>5, Fails DEF MainFault, PipeHashFails, MainFaults, Ended
  <2>. QED BY Zenon, <1>a, <2>1, <2>2
<1>6. CASE PipeSticks
  <2>1. /\ UNCHANGED <<left, pos>> /\ mpc' = "stuck"
        /\ mpc \in {"pipe", "pipe_eof", "pipe_final"}
    BY Zenon, <1>6 DEF PipeSticks
  <2>2. Rank(mpc') < Rank(mpc)
    BY <2>1, Ranks
  <2>. QED BY Zenon, <1>0, <2>1, <2>2, Lowers
<1>7. CASE HashAborts
  <2>1. UNCHANGED <<left, pos>>
    BY Zenon, <1>7 DEF HashAborts
  <2>2. mpc \notin Ended /\ mpc' \in Ended
    BY <1>7 DEF HashAborts, WorkerLives, Ended
  <2>. QED BY Zenon, <1>a, <2>1, <2>2
<1>. QED BY Zenon, <1>1, <1>2, <1>3, <1>4, <1>5, <1>6, <1>7 DEF Next, Fault

\* StepsLeft is a number that main() counts down and nobody counts up: the safety
\* part of Ends, for every command line, any pipe and whatever fails.
THEOREM ProgramAlwaysAdvances == Spec => [](StepsLeft \in Nat) /\ MainAdvances
<1>1. IInv => StepsLeft \in Nat
  <2>. SUFFICES ASSUME IInv PROVE StepsLeft \in Nat
    OBVIOUS
  <2>1. left \in Nat /\ pos \in Nat /\ mpc \in Phases
    BY Zenon DEF IInv, TypeOK
  <2>2. PICK r \in Nat : r = Rank(mpc)
    BY Zenon, <2>1, Ranks
  <2>3. StepsLeft = 2 * left + pos + r
    BY Zenon, <2>2 DEF StepsLeft
  <2>. QED BY <2>1, <2>2, <2>3
<1>2. IInv /\ [Next]_vars =>
          [/\ Main => StepsLeft' < StepsLeft
           /\ ~Main => StepsLeft' = StepsLeft \/ StepsLeft' < StepsLeft]_vars
  BY Zenon, MainLowers, OthersAddNothing
<1>. QED BY <1>1, <1>2, Invariance, PTL DEF Spec, MainAdvances

\* A signal that was handled before main() decided is the one that ends the
\* program: it is never replaced by another one, and no step prints a checksum or
\* reports the failure of a worker instead.
SignalKept ==
    [][terminated # None /\ mpc \notin Ended \cup {"print"} =>
          /\ terminated' = terminated
          /\ mpc' \notin {"print", "exited0", "exited1"}]_vars

\* The safety part of SignalEnds, wherever main() is when the signal comes.
THEOREM SignalIsKept == Spec => SignalKept
<1>1. IInv /\ [Next]_vars =>
          [terminated # None /\ mpc \notin Ended \cup {"print"} =>
              /\ terminated' = terminated
              /\ mpc' \notin {"print", "exited0", "exited1"}]_vars
  <2>. SUFFICES ASSUME IInv, [Next]_vars, terminated # None,
                       mpc \notin Ended \cup {"print"}
                PROVE  /\ terminated' = terminated
                       /\ mpc' \notin {"print", "exited0", "exited1"}
    OBVIOUS
  <2>. USE DEF GoTo, exitVars
  <2>1. CASE Decide
    BY <2>1 DEF Decide, Decision
  <2>2. ASSUME NEW signum \in {"SIGINT", "SIGTERM"}, Signal(signum)
        PROVE  /\ terminated' = terminated
               /\ mpc' \notin {"print", "exited0", "exited1"}
    <3>1. terminated' = terminated
      BY Zenon, <2>2 DEF Signal
    <3>2. mpc' = mpc \/ mpc' \in {"pipe_eof", "decide", "killed"}
      BY Zenon, <2>2, Signals
    <3>. QED BY <3>1, <3>2 DEF Ended
  <2>3. CASE Main /\ ~Decide
    <3>1. terminated' = terminated
      BY Zenon, <2>3, Fails DEF Main, EndOptions, SetupSignals, Probe, create_tmpdir,
         create_listening_socket, CreateEnv, Fork, Unstart, SetupWorker, CreateHash,
         StartWorker, JoinWorker, KillServer, WaitServer, CreatePipeHash, PipeRead,
         PipeUpdate, PipeFinal
    <3>2. mpc' \notin {"print", "exited0", "exited1"}
      BY <2>3, Fails DEF Main, EndOptions, SetupSignals, Probe, create_tmpdir,
         create_listening_socket, CreateEnv, Fork, Unstart, SetupWorker, CreateHash,
         StartWorker, JoinWorker, KillServer, WaitServer, CreatePipeHash, PipeRead,
         PipeUpdate, PipeFinal, AfterPart
    <3>. QED BY Zenon, <3>1, <3>2
  <2>4. CASE Command \/ Fault \/ Worker \/ ServerStep \/ Terminated \/ UNCHANGED vars
    <3>1. terminated' = terminated
      BY Zenon, <2>4, Fails DEF Command, ParseOption, Usage, Fault, MainFault,
         SocketFails, StartFails, PipeHashFails, PipeSticks, WorkerFault, WorkerSticks,
         WorkerFails, HashAborts, ServerFault, Worker, WorkerEnds, ServerLost,
         ServerStep, Terminated, vars
    <3>2. mpc' = mpc \/ mpc' \in {"options", "failed", "usage", "unstart", "hash_failed",
                                  "crashed", "stuck"}
      BY Zenon, <2>4, Fails DEF Command, ParseOption, Usage, Fault, MainFault,
         SocketFails, StartFails, PipeHashFails, PipeSticks, WorkerFault, WorkerSticks,
         WorkerFails, HashAborts, ServerFault, Worker, WorkerEnds, ServerLost,
         ServerStep, Terminated, vars
    <3>. QED BY <3>1, <3>2 DEF Ended
  <2>. QED BY Zenon, <2>1, <2>2, <2>3, <2>4 DEF Next
<1>. QED BY <1>1, Invariance, PTL DEF Spec, SignalKept
=============================================================================
