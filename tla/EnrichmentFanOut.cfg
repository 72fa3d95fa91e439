SPECIFICATION FairSpec
CONSTANTS
    summary = summary
    batch = batch
    wiki = wiki
    Subtask <- MCSubtask
    Wiki <- MCWiki
    MaxRetry = 1
INVARIANTS
    TypeOK
    CounterExact
    CompletedOnlyWhenDrained
PROPERTIES
    FailsForAReason
    Settles
    Implements
CHECK_DEADLOCK FALSE
