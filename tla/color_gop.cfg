CONSTANTS
    Kinds = {"color"}
    Depth = 2
    MaxFrames = 4
    MaxTxStarts = 2
    MaxRxStarts = 2
    KeyInterval = 2
SPECIFICATION GopSpec
INVARIANTS
    GopTypeOK
    DamageIsRecent
