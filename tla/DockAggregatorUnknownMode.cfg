SPECIFICATION Spec
CONSTANTS
    BucketCodes <- MCBucketCodes
    AirborneSet <- MCAirborneSet
    BareFlightMs = 1
    DockData <- MCDockData
    DroneData <- MCDroneData
    SilenceMs = 1
    WarmingMs = 2
    GustMs = 1
    RingMax = 2
    MaxClock = 4
    MaxFrames = 4
INVARIANTS
    UnknownModeAirborne
CHECK_DEADLOCK FALSE
