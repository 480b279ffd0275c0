CONSTANTS
    ChunkFrames = 3
    RingFrames = 2
    MaxFrames = 11
    MaxStarts = 2
    Depth = 1
SPECIFICATION StreamSpec
INVARIANTS
    StreamTypeOK
    GapsAreCounted
    GapsAreNumbered
PROPERTIES
    FramesInOrder
    NoStall
    StopReturns
