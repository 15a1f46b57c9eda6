SPECIFICATION FairSpec
CONSTANTS
    b1 = b1
    b2 = b2
    Clients <- MCClients
    QueueMax = 2
    MaxEvents = 5
INVARIANTS
    NoGap
PROPERTIES
    Handed
CHECK_DEADLOCK FALSE
