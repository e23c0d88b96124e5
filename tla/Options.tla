------------------------------- MODULE Options ------------------------------
(***************************************************************************)
(* The options of blksum and what becomes of them: parse_options() of      *)
(* bin/blksum.c, optimize_for_nbd_server() of bin/nbd-server.c, the option *)
(* setters of lib/blkhash.c and config_init() of lib/config.c.             *)
(*                                                                         *)
(* Sizes are bytes.  The integers have the conversions of the code at any  *)
(* width: IntLimit is INT_MAX + 1 and SizeLimit is PTRDIFF_MAX + 1, the    *)
(* halves of what an int and a size_t tell apart.                          *)
(***************************************************************************)
EXTENDS Integers

CONSTANTS IntLimit, SizeLimit

ASSUME WidthsAssumption ==
    /\ IntLimit \in Nat /\ IntLimit > 2097152   \* 2 MiB is an int
    /\ SizeLimit \in Nat /\ SizeLimit >= IntLimit

EINVAL == 22

MAX_THREADS == 128
MAX_QUEUE_DEPTH == 128
page_size == 4096
nfs_read_size == 2097152

MaxOf(a, b) == IF a >= b THEN a ELSE b

\* Conversions of a number to int, unsigned and size_t.
ToUnsigned(n) == n % (2 * IntLimit)
ToInt(n) == IF ToUnsigned(n) < IntLimit THEN ToUnsigned(n)
                                        ELSE ToUnsigned(n) - 2 * IntLimit
ToSize(n) == n % (2 * SizeLimit)

\* struct options.  Of the name of the digest all that matters is whether there
\* is such a digest.
DefaultOptions ==
    [digest |-> TRUE, read_size |-> 262144, queue_depth |-> 16,
     block_size |-> 65536, threads |-> 4, cache |-> FALSE, aio |-> "native",
     flags |-> {}]

-----------------------------------------------------------------------------
(* parse_options() *)

ThreadsInRange(value) ==
    ToInt(value) # -EINVAL /\ ToInt(value) >= 1 /\ ToInt(value) <= MAX_THREADS

\* The checks of one option; value is what parse_humansize() returned.  That of
\* the block size looks at the size from before the option.
Accepted(opt, name, value) ==
    CASE name = "threads"     -> ThreadsInRange(value)
      [] name = "queue-depth" -> ToInt(value) # -EINVAL /\ ToInt(value) <= MAX_QUEUE_DEPTH
      [] name = "read-size"   -> ToInt(value) # -EINVAL
      [] name = "block-size"  -> ToInt(value) # -EINVAL /\ opt.block_size % page_size = 0
      [] OTHER                -> TRUE

WithOption(opt, name, value) ==
    CASE name = "threads"     -> [opt EXCEPT !.threads = ToInt(value)]
      [] name = "queue-depth" -> [opt EXCEPT !.queue_depth = ToSize(ToInt(value)),
                                             !.flags = @ \cup {"USER_QUEUE_DEPTH"}]
      [] name = "read-size"   -> [opt EXCEPT !.read_size = ToSize(ToInt(value)),
                                             !.flags = @ \cup {"USER_READ_SIZE"}]
      [] name = "block-size"  -> [opt EXCEPT !.block_size = ToSize(ToInt(value))]
      [] name = "cache"       -> [opt EXCEPT !.cache = TRUE,
                                             !.flags = @ \cup {"USER_CACHE"}]
      [] name = "no-digest"   -> [opt EXCEPT !.digest = FALSE]

\* The checks after all options; a block size of 0 is a division by zero.
DividesByZero(opt) == opt.block_size = 0

Valid_NotMultiple(opt) == opt.read_size >= opt.block_size \* wrong

Valid(opt) == opt.read_size % opt.block_size = 0 /\ opt.read_size >= opt.block_size

-----------------------------------------------------------------------------
(* optimize_for_nbd_server() *)

\* Wrong: looks at the cache before it decides about it.
WithoutNative_Early(opt, cache) ==
    IF opt.cache /\ opt.aio = "native" THEN [opt EXCEPT !.aio = "threads"] ELSE opt

\* "Cache is not compatible with aio=native."
WithoutNative(opt, cache) ==
    IF cache /\ opt.aio = "native" THEN [opt EXCEPT !.aio = "threads"] ELSE opt

\* Larger reads of raw images, unless the user asked for others.
LargeReads(opt) ==
    IF "USER_READ_SIZE" \in opt.flags THEN opt
    ELSE [opt EXCEPT !.read_size = nfs_read_size,
                     !.queue_depth = IF "USER_QUEUE_DEPTH" \in opt.flags THEN @ ELSE 4]

\* fi is what probe_file() found out, direct_io whether the file can be opened
\* with O_DIRECT.
optimize_for_nbd_server(opt, fi, direct_io) ==
    IF fi.fs_name = "nfs"
    THEN LET o == WithoutNative(opt, TRUE)
         IN IF fi.format = "raw" THEN LargeReads(o) ELSE o
    ELSE LET cache == opt.cache \/ ~direct_io
         IN [WithoutNative(opt, cache) EXCEPT !.cache = cache]

-----------------------------------------------------------------------------
(* blkhash_opts and config_init() *)

\* malloc() of more than a pointer difference can hold fails.
Allocatable(bytes) == bytes < SizeLimit

blkhash_opts_set_block_size(block_size) == IF block_size % 2 # 0 THEN EINVAL ELSE 0

blkhash_opts_set_threads(threads) ==
    IF threads < 1 \/ threads > MAX_THREADS THEN EINVAL ELSE 0

config_init(block_size, threads, queue_depth) ==
    [block_size |-> block_size, workers |-> threads, queue_depth |-> queue_depth,
     max_submissions |-> MaxOf(ToUnsigned(MaxOf(queue_depth, threads) * 4), 32)]
=============================================================================
