SPECIFICATION Spec
CONSTANTS
    Rules <- MCRules
    Level <- MCLevel
    Code <- MCCode
    Override <- MCOverride
    DefaultCooldown = 2
    EmergencyFloor = 1
    DedupWindow = 2
    BurstThreshold = 1
    SecondMs = 2
    WithBus = FALSE
    DockMuteRequests <- NoRequests
    GlobalMuteRequests <- NoRequests
    MaxClock = 5
    MaxFrames = 3
    MaxBoots = 2
INVARIANTS
    CooldownSpacing
    SuppressionHasCause
    BurstExact
CHECK_DEADLOCK FALSE
