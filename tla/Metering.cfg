SPECIFICATION FairSpec
CONSTANTS
    Requests = {r1, r2}
    NumBuckets = 1
    BucketAmount = 2
    Payments = {p1}
    OrderCredits = 1
    Estimates = {1}
    Costs = {1, 2}
    MaxDeliver = 2
CHECK_DEADLOCK FALSE
INVARIANTS
    DeliveryTypeOK
    ConsumedIsBilled
    FrozenIsExplained
    UnbilledIsExplained
    ReleasedIsFree
PROPERTIES
    BillsRequests
    EveryRequestResolves
