------------------------------- MODULE MCBlksum -----------------------------
(* Blksum for TLC. *)
EXTENDS Blksum

AllSources == SourceKinds
Image == {"image"}
SomeEnvirons == {<<"PATH">>, <<"LISTEN_FDS", "PATH">>}
OneEnviron == {<<"PATH">>}
AllFaults == MainFaults \cup {"socket", "listen", "env", "fork", "server", "worker",
                              "unlink", "rmdir", "update", "final", "truncate",
                              "pool"}
NoFaults == {}
\* An int of 28 bits and a size_t of 30.
SmallInt == 2^27
SmallSize == 2^29
NoSuchDigest == [name \in {"no-digest"} |-> {0}]

\* Values at the limits of the checks, values that change when they become an
\* int, and what parse_humansize() returns for something else.
SomeValues ==
    [name \in {"threads", "queue-depth", "read-size", "block-size", "cache",
               "no-digest"} |->
        CASE name = "threads"     -> {-EINVAL, 0, 128, 129, 2 * IntLimit + 1}
          [] name = "queue-depth" -> {0, 128, 129, IntLimit}
          [] name = "read-size"   -> {-EINVAL, 0, 65536, IntLimit}
          [] name = "block-size"  -> {-EINVAL, 0, 1, 8, 3000, 4096, 524288,
                                       IntLimit}
          [] OTHER                -> {0}]
=============================================================================
