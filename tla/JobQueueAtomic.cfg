SPECIFICATION FairSpec
CONSTANTS
    o1 = o1
    o2 = o2
    NoOp = NoOp
    Ops = {o1, o2}
    Jobs = {j1, j2, j3}
    Workers = {w1, w2}
    Cancellable = {o1, o2}
    WorkspaceOf <- OwnWorkspace
    MaxAttempts = 3
    Queue = "rag"
    AtomicClaim = TRUE
    MaxRetries = 1
    MaxAbandons = 1
CHECK_DEADLOCK FALSE
INVARIANTS
    OperationMirrorsJob
    AttemptsWithinBudget
PROPERTIES
    FinalJobStays
    OperationsTerminate
