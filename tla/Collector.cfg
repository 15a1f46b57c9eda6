SPECIFICATION CollectorSpec
CONSTANTS
    BucketCodes <- MCBucketCodes
    AirborneSet <- MCAirborneSet
    BareFlightMs = 1
    DockData <- MCDockData
    DroneData <- MCDroneData
    SilenceMs = 1
    WarmingMs = 2
    GustMs = 1
    RingMax = 2
    MaxClock = 4
    MaxFrames = 4
    SampleInterval = 1
INVARIANTS
    TransitionsChain
    NeverBlind
    GustIsWindowMax
    AirborneSeen
    DurationsTrue
    OfflineNotOverstated
    PeakIsStrongest
    SamplesPaced
CHECK_DEADLOCK FALSE
