CONSTANTS
    Kinds = {"color", "depth"}
    Depth = 1
    MaxFrames = 2
    MaxTxStarts = 2
    MaxRxStarts = 2
SPECIFICATION FairSpec
PROPERTY DecodedGoesEmpty
