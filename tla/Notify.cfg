SPECIFICATION FairSpec
CONSTANTS
    Robots <- MCRobots
    Endpoints <- MCEndpoints
    Filter <- MCFilter
    Retry <- MCRetry
    BadUrl = {"e3"}
    Alerts <- MCAlerts
    Overrides <- MCOverrides
    Defaults <- MCDefaults
    Attached = {"webhook", "dingtalk"}
    MaxDispatches = 2
INVARIANTS
    ReportTruthful
    RetryDiscipline
    DeadLetterIffExhausted
PROPERTIES
    DispatchReturns
CHECK_DEADLOCK FALSE
