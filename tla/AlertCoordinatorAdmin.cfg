SPECIFICATION FairSpec
CONSTANTS
    Rules <- TwoRules
    Level <- TwoLevel
    Code <- TwoCode
    Override <- TwoOverride
    DefaultCooldown = 2
    EmergencyFloor = 1
    DedupWindow = 2
    BurstThreshold = 1
    SecondMs = 2
    WithBus = TRUE
    DockMuteRequests <- MCDockMuteRequests
    GlobalMuteRequests <- MCGlobalMuteRequests
    MaxClock = 3
    MaxFrames = 2
    MaxBoots = 2
INVARIANTS
    TypeOK
    DeliveredAudited
    EmergencyGetsThrough
PROPERTIES
    FrameCompletes
    ImplementsLog
CHECK_DEADLOCK FALSE
