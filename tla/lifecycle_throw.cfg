CONSTANTS
    MaxCameras = 2
    MaxMics = 1
    MaxStarts = 2
SPECIFICATION Spec
INVARIANT
    BadSensorIsSkipped
