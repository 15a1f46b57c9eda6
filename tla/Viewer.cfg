SPECIFICATION FairSpec
CONSTANTS
    None = None
    HMS_TEXT <- MCHmsText
    HMS_TEXT_EXTRA <- MCHmsExtra
    Recordings = {1, 2}
    Initial <- MCInitial
    Reports <- MCReports
    Tabs = {1}
    WinSizes = {1, 2}
    Rerun <- MCRerun
    MaxRuns = 2
INVARIANTS
    StaleSizePending
    ShownWasOnDisk
    RowHolds
    BatchZeroIsComplete
    PointsTellReport
    PanelsAgree
    PointsOnAxis
PROPERTIES
    PageSettles
CHECK_DEADLOCK FALSE
