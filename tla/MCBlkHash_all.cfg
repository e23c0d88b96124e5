\* Every way to cut a message into calls, each of which may fail; the caller
\* stops at the first error.
CONSTANTS
    BlockSize = 3
    Byte <- Bytes
    WordSize = 2
    ZERO_BATCH_SIZE = 2
    QueueSize = 2
    MaxMessage = 7
    MaxData = 4
    MaxZeros = 7
    Faults <- AllFaults
    FinalAfterError = FALSE
    NoDigest = NoDigest
SPECIFICATION FairSpec
INVARIANTS OuterIsPrefix BytesAccounted QueueCoversMessage
PROPERTIES ImplementsAPI CallsReturn
