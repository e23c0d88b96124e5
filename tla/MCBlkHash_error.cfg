\* A worker may fail, and the caller goes on after an error.
CONSTANTS
    BlockSize = 2
    Byte <- Bytes
    WordSize = 1
    ZERO_BATCH_SIZE = 2
    QueueSize = 2
    MaxMessage = 4
    MaxData = 2
    MaxZeros = 2
    Faults <- BlockFault
    FinalAfterError = TRUE
    NoDigest = NoDigest
SPECIFICATION Spec
INVARIANT NoDigestAfterError
