SPECIFICATION FairSpec
CONSTANTS
    NumImages = 2
    MaxRetry = 1
    MaxRuns = 2
    Default = 1
    Limits <- MCLimits
    Scenarios <- MCScenarios
INVARIANTS
    FanOutOnce
PROPERTIES
    FanOutLast
    Admission
    NotStranded
    SlotsReturn
CHECK_DEADLOCK FALSE
