SPECIFICATION Spec
CONSTANTS
    DockTopics <- MCDockTopics
    DroneTopics <- MCDroneTopics
    DockOsd = 1
    Drones <- MCDrones
    InitialDelay = 1
    Factor = 2
    MaxDelay = 3
    MaxMsgs = 2
    MaxFails = 4
INVARIANTS
    DroneTopicsFollowOsd
CHECK_DEADLOCK FALSE
