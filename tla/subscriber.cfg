CONSTANTS
    Depth = 2
    StaleMs = 3
    PollMs = 1
    LagMs = 1
    MaxTime = 10
    MaxMsg = 4
    MaxStarts = 2
SPECIFICATION Spec
INVARIANTS
    TypeOK
    NoStaleData
    BufferNotBehindHook
PROPERTIES
    ClearDropsStaleOrJustArrived
    HookInOrder
