SPECIFICATION Spec
CONSTANTS
    RuleIds <- MCRuleIds
    CustomRules <- MCCustomRules
    Phases <- MCPhases
    RuleSets <- MCRuleSets
    FirstSet <- MCFirstSet
    MaxClock = 2
    MaxFrames = 3
INVARIANTS
    DwellHonoured
    DwellExact
    FailuresReported
    JudgedOnce
CHECK_DEADLOCK FALSE
