\* An image, no fault, and a digest that does not exist.
CONSTANTS
    IntLimit <- SmallInt
    SizeLimit <- SmallSize
    Sources <- Image
    Environs <- OneEnviron
    Values <- NoSuchDigest
    MaxOptions = 1
    MaxPipe = 0
    PipeBuffer = 1
    Faults <- NoFaults
    None = None
SPECIFICATION Spec
INVARIANT NothingLeftBehind
