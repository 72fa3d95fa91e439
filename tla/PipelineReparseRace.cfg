SPECIFICATION Spec
CONSTANTS
    summary = summary
    batch = batch
    Subtask <- MCSubtask
    Summary <- MCSummary
    MaxRetry = 0
    MaxFault = 0
    Ops = {"reparse"}
    MaxOps = 1
    QuietReparse = FALSE
PROPERTIES
    NoStalePromotion
CHECK_DEADLOCK FALSE
