CONSTANTS
    Width = 3
    Height = 3
    Stride = 4
    Samples = {0, 9, 65535}
    Padding = 7
    PixelMax = 65535
    IntMax = 2147483647
SPECIFICATION FairSpec
INVARIANTS
    TypeOK
    RoundTrip
    ConsumesExactly
PROPERTIES
    Terminates
