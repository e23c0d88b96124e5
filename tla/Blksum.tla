------------------------------- MODULE Blksum -------------------------------
(***************************************************************************)
(* The blksum program from main() to its exit: the options, the signal     *)
(* handlers, qemu-nbd with its process, socket and directory               *)
(* (bin/nbd-server.c), the setup and the tear down of the worker thread    *)
(* (bin/aio-checksum.c), or the loop over standard input (bin/checksum.c,  *)
(* bin/pipe-src.c), and the decision to print.  What the worker thread     *)
(* does between its start and its end is the module AioChecksum.           *)
(***************************************************************************)
EXTENDS Options, Sequences, FiniteSets

CONSTANTS
    Sources,     \* kinds of input, see SourceKinds
    Environs,    \* environments of the program, sequences of names
    Values,      \* values tried for every option that has one
    MaxOptions,  \* bound: options on the command line
    MaxPipe,     \* bound: bytes in the pipe
    PipeBuffer,  \* bytes of one read of the pipe, in place of opt.read_size
    Faults,      \* what may fail
    None

\* An image in a file, without libnbd the file itself, an NBD URI, the
\* standard input.
SourceKinds == {"image", "file", "uri", "pipe"}

\* Steps of the main thread that may call FAIL().
MainFaults == {"sigterm", "probe", "tmpdir", "setup", "hash", "thread", "open_pipe",
               "pipe_hash", "pipe"}

ASSUME ProgramAssumption ==
    /\ Sources \subseteq SourceKinds
    /\ {MaxOptions, MaxPipe} \subseteq Nat /\ PipeBuffer \in Nat \ {0}
    /\ Faults \subseteq MainFaults \cup {"socket", "listen", "env", "fork", "server",
                                         "worker", "unlink", "rmdir", "update",
                                         "final", "truncate", "pool"}

\* parse_humansize() returns a number for every option with a value, the names in
\* the environment are strings, and NULL is neither one nor a signal.
ASSUME InputAssumption ==
    /\ DOMAIN Values \subseteq {"threads", "queue-depth", "read-size", "block-size",
                               "cache", "no-digest"}
    /\ \A name \in DOMAIN Values : Values[name] \subseteq Int
    /\ Environs \subseteq Seq(STRING)
    /\ None \notin STRING \cup {"LISTEN_PID", "LISTEN_FDS", "SIGINT", "SIGTERM"}

VARIABLES
    source, environ, debug,  \* the input, the environment, BLKSUM_DEBUG
    mpc,                     \* where the main thread is
    opt, nopts,              \* the options, and how many were parsed
    terminated, failed,
    tmpdir, sock,            \* the directory and the socket in it exist
    spath,                   \* s->sock is set
    gaveup,                  \* history: listen() or the tear down failed
    env, child,              \* the environment of qemu-nbd, and its process
    worker,                  \* the worker thread
    config,                  \* of the hash
    size, left, pos, hashed, \* bytes of the pipe: all, unread, read, hashed
    digest                   \* blkhash_final() stored a digest

inputVars == <<source, environ, debug, size>>
optVars == <<opt, nopts>>
exitVars == <<terminated, failed>>
fsVars == <<tmpdir, sock, spath, gaveup>>
serverVars == <<fsVars, env, child>>
hashVars == <<worker, config, digest>>
pipeVars == <<left, pos, hashed>>
vars == <<inputVars, mpc, optVars, exitVars, serverVars, hashVars, pipeVars>>

\* The program ended: 0 or 1 after the decision of main(), by the signal, in
\* FAIL() of the main thread, in start_nbd_server(), in checksum(), after the
\* usage, by a signal nobody handled or by a crash.
Ended == {"exited0", "exited1", "signaled", "failed", "not_started", "hash_failed",
          "usage", "killed", "crashed"}

Init ==
    /\ source \in Sources /\ environ \in Environs /\ debug \in BOOLEAN
    /\ size \in IF source = "pipe" THEN 0..MaxPipe ELSE {0}
    /\ mpc = "options"
    /\ opt = DefaultOptions /\ nopts = 0
    /\ terminated = None /\ failed = FALSE
    /\ tmpdir = FALSE /\ sock = FALSE /\ spath = FALSE /\ gaveup = FALSE
    /\ env = <<>> /\ child = "none"
    /\ worker = "none" /\ config = None /\ digest = FALSE
    /\ left = size /\ pos = 0 /\ hashed = 0

running == terminated = None /\ ~failed

\* fail() records a failure, unless the program was terminated or failed before.
FailureRecorded == failed' = (failed \/ terminated = None \/ debug)

MainFails == FailureRecorded /\ mpc' = "failed" /\ UNCHANGED terminated

MainFault ==
    /\ mpc \in MainFaults \cap Faults
    /\ MainFails
    /\ UNCHANGED <<inputVars, optVars, serverVars, hashVars, pipeVars>>

GoTo(step) == mpc' = step /\ UNCHANGED exitVars

-----------------------------------------------------------------------------
(* main() up to the input *)

ParseOption(name, value) ==
    /\ mpc = "options" /\ nopts < MaxOptions
    /\ nopts' = nopts + 1
    /\ IF Accepted(opt, name, value)
       THEN opt' = WithOption(opt, name, value) /\ GoTo("options")
       ELSE UNCHANGED opt /\ MainFails
    /\ UNCHANGED <<inputVars, serverVars, hashVars, pipeVars>>

\* --help and --list-digests
Usage ==
    /\ mpc = "options"
    /\ GoTo("usage")
    /\ UNCHANGED <<inputVars, optVars, serverVars, hashVars, pipeVars>>

EndOptions ==
    /\ mpc = "options"
    /\ \/ DividesByZero(opt) /\ GoTo("crashed")
       \/ ~DividesByZero(opt) /\ ~Valid(opt) /\ MainFails
       \/ ~DividesByZero(opt) /\ Valid(opt) /\ GoTo("sigint")
    /\ nopts' = 0
    /\ UNCHANGED <<inputVars, opt, serverVars, hashVars, pipeVars>>

\* setup_signals() installs one handler and then the other.
SetupSignals ==
    /\ \/ mpc = "sigint" /\ GoTo("sigterm")
       \/ mpc = "sigterm" /\ GoTo(CASE source = "pipe" -> "open_pipe"
                                    [] source = "uri"  -> "setup"
                                    [] OTHER           -> "probe")
    /\ UNCHANGED <<inputVars, optVars, serverVars, hashVars, pipeVars>>

\* What probe_file() may find: an unknown file system is like any other one.
FileInfos == [format : {"raw", "qcow2"}, fs_name : {"nfs", "other"}]

\* probe_file() and optimize_for_nbd_server(); without libnbd only the format
\* matters.
Probe ==
    /\ mpc = "probe"
    /\ \E fi \in FileInfos, direct_io \in BOOLEAN :
          IF source = "image"
          THEN opt' = optimize_for_nbd_server(opt, fi, direct_io) /\ GoTo("tmpdir")
          ELSE /\ UNCHANGED opt
               /\ IF fi.format = "raw" THEN GoTo("setup") ELSE MainFails
    /\ UNCHANGED <<inputVars, nopts, serverVars, hashVars, pipeVars>>

-----------------------------------------------------------------------------
(* start_nbd_server() *)

create_tmpdir ==
    /\ mpc = "tmpdir"
    /\ tmpdir' = TRUE
    /\ GoTo("socket")
    /\ UNCHANGED <<inputVars, optVars, sock, spath, gaveup, env, child, hashVars,
                   pipeVars>>

create_listening_socket ==
    /\ mpc = "socket"
    /\ sock' = TRUE /\ spath' = TRUE
    /\ GoTo("env")
    /\ UNCHANGED <<inputVars, optVars, tmpdir, gaveup, env, child, hashVars, pipeVars>>

\* When listen() fails the socket was bound and its path is forgotten.
SocketFails ==
    /\ mpc = "socket"
    /\ \/ "socket" \in Faults /\ UNCHANGED <<sock, gaveup>>
       \/ "listen" \in Faults /\ sock' = TRUE /\ gaveup' = TRUE
    /\ GoTo("unstart")
    /\ UNCHANGED <<inputVars, optVars, tmpdir, spath, env, child, hashVars, pipeVars>>

LISTEN == {"LISTEN_PID", "LISTEN_FDS"}

create_env_Keeps(names) == \* wrong: keeps the old variables
    <<"LISTEN_PID", "LISTEN_FDS">> \o names \o <<None>>

\* The array create_env() fills: a skipped variable leaves its entry NULL.
create_env(names) ==
    <<"LISTEN_PID", "LISTEN_FDS">>
      \o [i \in 1..Len(names) |-> IF names[i] \in LISTEN THEN None ELSE names[i]]
      \o <<None>>

CreateEnv ==
    /\ mpc = "env"
    /\ env' = create_env(environ)
    /\ GoTo("fork")
    /\ UNCHANGED <<inputVars, optVars, fsVars, child, hashVars, pipeVars>>

Fork ==
    /\ mpc = "fork"
    /\ child' = "forked"
    /\ GoTo("setup")
    /\ UNCHANGED <<inputVars, optVars, fsVars, env, hashVars, pipeVars>>

StartFails ==
    /\ mpc \in {"env", "fork"} \cap Faults
    /\ GoTo("unstart")
    /\ UNCHANGED <<inputVars, optVars, serverVars, hashVars, pipeVars>>

UnlinkPath_Kept == FALSE \* wrong: leaves the socket for others to remove

\* remove_tmpdir() removes the socket if it has its path.
UnlinkPath == spath

\* remove_tmpdir() stops at the first error; a directory with the socket in it
\* is not empty.
remove_tmpdir ==
    \/ /\ "unlink" \in Faults /\ UnlinkPath
       /\ gaveup' = TRUE
       /\ UNCHANGED <<tmpdir, sock, spath>>
    \/ /\ spath' = (spath /\ ~UnlinkPath)
       /\ sock' = (sock /\ ~UnlinkPath)
       /\ \/ tmpdir' = (tmpdir /\ sock') /\ UNCHANGED gaveup
          \/ "rmdir" \in Faults /\ gaveup' = TRUE /\ UNCHANGED tmpdir

\* start_nbd_server() cleans up and exits.
Unstart ==
    /\ mpc = "unstart"
    /\ remove_tmpdir
    /\ GoTo("not_started")
    /\ UNCHANGED <<inputVars, optVars, env, child, hashVars, pipeVars>>

-----------------------------------------------------------------------------
(* init_worker(), and the end of aio_checksum() *)

\* The extents and the commands with their buffers.  A queue depth that was
\* negative is a number of commands no memory can hold.
SetupWorker ==
    /\ mpc = "setup"
    /\ IF opt.queue_depth <= MAX_QUEUE_DEPTH
          /\ (opt.queue_depth > 0 => Allocatable(opt.read_size))
       THEN GoTo("hash") ELSE MainFails
    /\ UNCHANGED <<inputVars, optVars, serverVars, hashVars, pipeVars>>

\* The options create_hash() and checksum() set.  blkhash_new_opts() fails
\* without the digest.
HashAccepts ==
    /\ blkhash_opts_set_block_size(ToUnsigned(opt.block_size)) = 0
    /\ blkhash_opts_set_threads(opt.threads) = 0
    /\ opt.digest

\* blkhash_aio_completion_fd() fails if the queue depth is 0.
CreateHash ==
    /\ mpc = "hash"
    /\ IF HashAccepts /\ opt.queue_depth # 0
       THEN /\ config' = config_init(ToUnsigned(opt.block_size), opt.threads,
                                     ToUnsigned(opt.queue_depth))
            /\ GoTo("thread")
       ELSE UNCHANGED config /\ MainFails
    /\ UNCHANGED <<inputVars, optVars, serverVars, worker, digest, pipeVars>>

StartWorker ==
    /\ mpc = "thread"
    /\ worker' = "run"
    /\ GoTo("join")
    /\ UNCHANGED <<inputVars, optVars, serverVars, config, digest, pipeVars>>

\* join_worker(), and destroy_worker() up to the server.
JoinWorker ==
    /\ mpc = "join" /\ worker = "done"
    /\ GoTo(IF source = "image" THEN "kill" ELSE "decide")
    /\ UNCHANGED <<inputVars, optVars, serverVars, hashVars, pipeVars>>

Killed(process) == IF process \in {"forked", "serving"} THEN "killed" ELSE process

\* stop_nbd_server() kills the server and waits for it.
KillServer ==
    /\ mpc = "kill"
    /\ child' = Killed(child)
    /\ GoTo("wait")
    /\ UNCHANGED <<inputVars, optVars, fsVars, env, hashVars, pipeVars>>

WaitServer ==
    /\ mpc = "wait" /\ child = "zombie"
    /\ child' = "reaped"
    /\ remove_tmpdir
    /\ GoTo("decide")
    /\ UNCHANGED <<inputVars, optVars, env, hashVars, pipeVars>>

-----------------------------------------------------------------------------
(* checksum() of the standard input *)

CreatePipeHash ==
    /\ \/ mpc = "open_pipe" /\ GoTo("pipe_hash") /\ UNCHANGED config
       \/ /\ mpc = "pipe_hash"
          /\ IF Allocatable(opt.read_size) /\ HashAccepts
             THEN /\ config' = config_init(ToUnsigned(opt.block_size), opt.threads, 0)
                  /\ GoTo("pipe")
             ELSE UNCHANGED config /\ MainFails
    /\ UNCHANGED <<inputVars, optVars, serverVars, worker, digest, pipeVars>>

\* One read() in pipe_ops_read(), of as many bytes as there are.
PipeRead ==
    /\ mpc = "pipe"
    /\ \E n \in 1..left :
          /\ pos + n <= PipeBuffer
          /\ pos' = pos + n /\ left' = left - n
    /\ UNCHANGED <<inputVars, mpc, optVars, exitVars, serverVars, hashVars, hashed>>

\* Wrong: a short read is taken for the end of the input.
AfterPart_Final == "pipe_final"

\* After a part of the input was hashed.
AfterPart == IF running THEN "pipe" ELSE "pipe_final"

PipeDone_Full == pos = PipeBuffer \* wrong: does not see the end of the input

\* pipe_ops_read() returns: the buffer is full or the input ended.
PipeDone == pos = PipeBuffer \/ left = 0

\* checksum() updates the hash with what was read.  A read that was interrupted
\* by a signal emulates the end of the input.
PipeUpdate ==
    /\ mpc = "pipe_eof" \/ (mpc = "pipe" /\ PipeDone)
    /\ hashed' = hashed + pos /\ pos' = 0
    /\ GoTo(IF pos = 0 THEN "pipe_final" ELSE AfterPart)
    /\ UNCHANGED <<inputVars, optVars, serverVars, hashVars, left>>

PipeFinal ==
    /\ mpc = "pipe_final"
    /\ digest' = running
    /\ GoTo("decide")
    /\ UNCHANGED <<inputVars, optVars, serverVars, worker, config, pipeVars>>

\* blkhash_update() or blkhash_final() fails; checksum() exits.
PipeHashFails ==
    /\ \/ "update" \in Faults /\ mpc \in {"pipe", "pipe_eof"} /\ pos > 0
       \/ "final" \in Faults /\ mpc = "pipe_final" /\ running
    /\ GoTo("hash_failed")
    /\ UNCHANGED <<inputVars, optVars, serverVars, hashVars, pipeVars>>

\* checksum() waits for ever: a worker of the hash did not start, and nobody
\* takes a submission that blkhash_update() or blkhash_final() waits for.
PipeSticks ==
    /\ "pool" \in Faults
    /\ \/ (mpc = "pipe_eof" \/ (mpc = "pipe" /\ PipeDone)) /\ pos > 0
       \/ mpc = "pipe_final" /\ running
    /\ GoTo("stuck")
    /\ UNCHANGED <<inputVars, optVars, serverVars, hashVars, pipeVars>>

-----------------------------------------------------------------------------
(* The end of main() *)

\* Wrong: a failure comes before a signal.
Decision_FailedFirst ==
    IF failed THEN "exited1" ELSE IF terminated # None THEN "signaled" ELSE "print"

Decision ==
    IF terminated # None THEN "signaled" ELSE IF failed THEN "exited1" ELSE "print"

Decide ==
    /\ \/ mpc = "decide" /\ GoTo(Decision)
       \/ mpc = "print" /\ GoTo("exited0")
    /\ UNCHANGED <<inputVars, optVars, serverVars, hashVars, pipeVars>>

-----------------------------------------------------------------------------
(* The signals, the worker thread and qemu-nbd *)

Handled(signum) ==
    mpc \notin {"options", "sigint"} /\ (mpc = "sigterm" => signum = "SIGINT")

\* A handled signal interrupts a read of the pipe and waitpid(), or arrives just
\* before.
Interrupt ==
    \/ UNCHANGED <<mpc, fsVars>>
    \/ mpc = "pipe" /\ mpc' = "pipe_eof" /\ UNCHANGED fsVars
    \/ mpc = "wait" /\ mpc' = "decide" /\ remove_tmpdir

Signal(signum) ==
    /\ mpc \notin Ended
    /\ IF Handled(signum)
       THEN terminated' = (IF terminated = None THEN signum ELSE terminated) /\ Interrupt
       ELSE mpc' = "killed" /\ UNCHANGED <<terminated, fsVars>>
    /\ UNCHANGED <<inputVars, optVars, failed, env, child, hashVars, pipeVars>>

WorkerLives == worker = "run" /\ mpc \notin Ended

\* What AioChecksum shows of the worker if the file keeps its size and the hash
\* completes every update: it ends with a digest, or early when the program was
\* terminated.
WorkerEnds ==
    /\ WorkerLives
    /\ running /\ source = "image" => child = "serving"
    /\ digest' = running
    /\ worker' = "done"
    /\ UNCHANGED <<inputVars, mpc, optVars, exitVars, serverVars, config, pipeVars>>

WorkerFails ==
    /\ FailureRecorded
    /\ worker' = "done"
    /\ UNCHANGED <<inputVars, mpc, optVars, terminated, serverVars, config, digest,
                   pipeVars>>

\* What AioChecksum excepts: file_ops_pread() reads a truncated file for ever,
\* and the worker waits in poll() for an update that nobody completes, since a
\* worker of the hash did not start.  Neither looks at the flags again.
WorkerSticks ==
    /\ WorkerLives
    /\ \/ "truncate" \in Faults /\ source = "file"
       \/ "pool" \in Faults /\ (source = "image" => child # "forked")
    /\ worker' = "stuck"
    /\ UNCHANGED <<inputVars, mpc, optVars, exitVars, serverVars, config, digest,
                   pipeVars>>

\* The connection is refused or lost.
ServerLost == WorkerLives /\ child = "zombie" /\ WorkerFails

WorkerFault == "worker" \in Faults /\ WorkerLives /\ WorkerFails

\* The assertion of is_zero() fails in the first full block of data.
HashAborts ==
    /\ WorkerLives \/ (mpc \in {"pipe", "pipe_eof"} /\ pos > 0)
    /\ config.block_size < 16
    /\ mpc' = "crashed"
    /\ UNCHANGED <<inputVars, optVars, exitVars, serverVars, hashVars, pipeVars>>

\* exec_qemu_nbd(), and the death of a process that was killed.
ServerStep ==
    /\ \/ child = "forked" /\ child' = "serving"
       \/ child = "killed" /\ child' = "zombie"
    /\ UNCHANGED <<inputVars, mpc, optVars, exitVars, fsVars, env, hashVars, pipeVars>>

\* The server cannot be executed, or ends.
ServerFault ==
    /\ "server" \in Faults
    /\ child \in {"forked", "serving"}
    /\ child' = "zombie"
    /\ UNCHANGED <<inputVars, mpc, optVars, exitVars, fsVars, env, hashVars, pipeVars>>

Main ==
    \/ EndOptions
    \/ SetupSignals
    \/ Probe
    \/ create_tmpdir
    \/ create_listening_socket
    \/ CreateEnv
    \/ Fork
    \/ Unstart
    \/ SetupWorker
    \/ CreateHash
    \/ StartWorker
    \/ JoinWorker
    \/ KillServer
    \/ WaitServer
    \/ CreatePipeHash
    \/ PipeRead
    \/ PipeUpdate
    \/ PipeFinal
    \/ Decide

Fault ==
    \/ MainFault
    \/ SocketFails
    \/ StartFails
    \/ PipeHashFails
    \/ PipeSticks
    \/ WorkerFault
    \/ WorkerSticks
    \/ HashAborts
    \/ ServerFault

Command ==
    \/ \E name \in DOMAIN Values : \E value \in Values[name] : ParseOption(name, value)
    \/ Usage

Worker == WorkerEnds \/ ServerLost

Terminated == mpc \in Ended /\ UNCHANGED vars

Next ==
    \/ Main
    \/ Command
    \/ \E signum \in {"SIGINT", "SIGTERM"} : Signal(signum)
    \/ Worker
    \/ ServerStep
    \/ Fault
    \/ Terminated

Spec == Init /\ [][Next]_vars

\* The threads keep running, the worker ends or is stuck (AioChecksum), the server
\* starts and a killed one dies, and the pipe is closed by its writer.
FairSpec == Spec /\ WF_vars(Main) /\ WF_vars(Worker) /\ WF_vars(ServerStep)

-----------------------------------------------------------------------------
(* Properties *)

\* Whatever the options, their order and their optimization: the hash gets a
\* positive block size that divides the read size, and its pool has room for a
\* STOP for every worker, which HashPool assumes.
HashConfigured ==
    config # None =>
        /\ config.block_size > 0 /\ config.block_size % 2 = 0
        /\ opt.read_size > 0 /\ opt.read_size % config.block_size = 0
        /\ config.workers \in 1..MAX_THREADS
        /\ config.max_submissions >= config.workers
        /\ config.max_submissions >= config.queue_depth

\* qemu-nbd never runs with the host cache and aio=native, which it refuses, and
\* a cache the user asked for is never dropped.
ServerOptions ==
    child # "none" =>
        /\ ~(opt.cache /\ opt.aio = "native")
        /\ "USER_CACHE" \in opt.flags => opt.cache

\* What the environment of qemu-nbd holds: the entries before the first NULL.
Passed == {i \in DOMAIN env : \A j \in 1..i : env[j] # None}

\* qemu-nbd finds one LISTEN_PID and one LISTEN_FDS, the ones that were added,
\* and every variable of a program that was not socket activated itself.
ServerEnvironment ==
    child # "none" =>
        /\ \A name \in LISTEN : \E i \in Passed : env[i] = name
        /\ \A i, j \in Passed : env[i] = env[j] /\ env[i] \in LISTEN => i = j
        /\ (\A i \in DOMAIN environ : environ[i] \notin LISTEN) =>
              Cardinality(Passed) = Len(environ) + 2

\* A program that ends after the tear down of the server, or because the server
\* did not start, leaves no directory, no socket and no running server, unless
\* unlink(), rmdir() or the listen() that makes rmdir() fail returned an error.
NoLeftovers ==
    mpc \in {"exited0", "exited1", "signaled", "not_started"} =>
        /\ child \notin {"forked", "serving"}
        /\ ~gaveup => ~tmpdir /\ ~sock

\* "assert not os.path.isdir(os.path.dirname(sock))": whenever the program ends
\* by itself there is no directory and no running server.
NothingLeftBehind ==
    mpc \in {"exited0", "exited1", "signaled", "failed"} =>
        ~tmpdir /\ child \notin {"forked", "serving"}

\* A checksum is printed only for a digest of all the input: no failure and no
\* interrupted read of the pipe is taken for the end of the input.
PrintedIsWhole == mpc \in {"print", "exited0"} => digest /\ hashed = size

\* The main thread or the worker never returns.
Stuck == mpc = "stuck" \/ worker = "stuck"

\* The program ends, whatever fails, unless a file was truncated or a worker of
\* the hash did not start: then it may never end.
Ends == <>(mpc \in Ended \/ Stuck)

\* A signal that is handled before main() decides ends the program by that
\* signal, unless the main thread fails or crashes before it comes to that; it
\* never prints a checksum and never reports the failure of the worker.  It does
\* not end a program that is stuck: nobody looks at the signal.
SignalEnds ==
    terminated # None /\ mpc \notin Ended \cup {"print"}
        ~> mpc \in Ended \ {"exited0", "exited1"} \/ Stuck
=============================================================================
