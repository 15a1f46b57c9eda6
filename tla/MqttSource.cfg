SPECIFICATION FairSpec
CONSTANTS
    DockTopics <- MCDockTopics
    DroneTopics <- MCDroneTopics
    DockOsd = 1
    Drones <- MCDrones
    InitialDelay = 1
    Factor = 2
    MaxDelay = 3
    MaxMsgs = 2
    MaxFails = 4
INVARIANTS
    DockSubscribed
    NothingSkipped
    DroneAfterDock
    BackoffFollowsFailures
PROPERTIES
    Resubscribes
CHECK_DEADLOCK FALSE
