SPECIFICATION Spec
CONSTANTS
    o1 = o1
    o2 = o2
    NoOp = NoOp
    Ops = {o1}
    Jobs = {j1}
    Workers = {w1}
    Cancellable = {o1}
    WorkspaceOf <- OwnWorkspace
    MaxAttempts = 2
    Queue = "rag"
    AtomicClaim = TRUE
    MaxRetries = 0
    MaxAbandons = 0
SYMMETRY Interchangeable
CHECK_DEADLOCK FALSE
INVARIANTS
    WaitingOperationCanBeCancelled
