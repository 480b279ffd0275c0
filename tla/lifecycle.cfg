CONSTANTS
    MaxCameras = 2
    MaxMics = 1
    MaxStarts = 3
SPECIFICATION Spec
INVARIANTS
    TypeOK
    NothingLeftBehind
    TrueMeansStarted
    SourceOutlives
    CameraSourcesRun
    HeldHasPeer
    OnlyMisuseTerminates
