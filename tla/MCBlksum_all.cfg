\* Every kind of input and up to two options, signals at any time, and every
\* fault.
CONSTANTS
    IntLimit <- SmallInt
    SizeLimit <- SmallSize
    Sources <- AllSources
    Environs <- SomeEnvirons
    Values <- SomeValues
    MaxOptions = 2
    MaxPipe = 3
    PipeBuffer = 2
    Faults <- AllFaults
    None = None
SPECIFICATION FairSpec
INVARIANTS HashConfigured ServerOptions ServerEnvironment NoLeftovers PrintedIsWhole
PROPERTIES Ends SignalEnds
