SPECIFICATION FairSpec
CONSTANTS
    summary = summary
    batch = batch
    Subtask <- MCSubtask
    Summary <- MCSummary
    MaxRetry = 1
    MaxFault = 1
    Ops = {"reparse"}
    MaxOps = 1
    QuietReparse = TRUE
INVARIANTS
    CompletedOnlyWhenDrained
PROPERTIES
    ComesToRest
CHECK_DEADLOCK FALSE
