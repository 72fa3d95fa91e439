SPECIFICATION Spec
CONSTANTS
    summary = summary
    batch = batch
    Subtask <- MCOneSubtask
    Summary <- MCSummary
    MaxRetry = 0
    MaxFault = 1
    Ops = {"cancel", "reparse", "delete"}
    MaxOps = 2
    QuietReparse = FALSE
INVARIANTS
    TypeOK
    NoOrphans
PROPERTIES
    CounterRisesOnlyAtHandover
    DeletedForGood
    CancelSticks
CHECK_DEADLOCK FALSE
