SPECIFICATION Spec
CONSTANTS
    Requests = {r1, r2}
    NumBuckets = 2
    BucketAmount = 2
    Payments = {p1}
    OrderCredits = 2
    Estimates = {1, 2}
    Costs = {1, 3}
SYMMETRY Interchangeable
CHECK_DEADLOCK FALSE
INVARIANTS
    SettledWithinReservation
