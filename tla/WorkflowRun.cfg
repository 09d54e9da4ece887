SPECIFICATION RunFairSpec
CONSTANTS
    o1 = o1
    o2 = o2
    NoOp = NoOp
    Ops = {o1}
    Jobs = {j1, j2}
    Workers = {w1, w2}
    Cancellable = {o1}
    WorkspaceOf <- OwnWorkspace
    MaxAttempts = 1
    Queue = "platform"
    AtomicClaim = FALSE
    MaxRetries = 1
    MaxAbandons = 1
CHECK_DEADLOCK FALSE
INVARIANTS
    RunTypeOK
    FinalOperationClosesRun
    CancelledMeansCancelled
PROPERTIES
    EndedRunStays
    RunsEnd
