\* 3 commands for an image of 5 units in any extents; everything may fail.
CONSTANTS
    QueueDepth = 3
    ImageSize = 5
    ReadSize = 2
    ExtentsSize = 3
    MaxExtents = 2
    Signals = TRUE
    Faults <- AllFaults
SPECIFICATION FairSpec
INVARIANTS TypeOK CommandsCounted ImageInOrder BufferInUse PrintedIsComplete
PROPERTY Ends
