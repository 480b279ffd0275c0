CONSTANTS
    Kinds = {"color", "depth"}
    Depth = 2
    MaxFrames = 3
    MaxTxStarts = 2
    MaxRxStarts = 2
SPECIFICATION FairSpec
INVARIANTS
    TypeOK
    ReplaysBounded
PROPERTIES
    ImplementsLatestWins
    DecodedOncePerSession
    LatestArrives
    SubscriberGoesEmpty
