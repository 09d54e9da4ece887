SPECIFICATION FairSpec
CONSTANTS
    Views = {v1}
    RestLimit = 1
    ReplayLimit = 2
    SnapshotSize = 1
    MaxPending = 2
    MaxEvents = 3
    Commands = {1, 2}
    MaxRuns = 2
CHECK_DEADLOCK FALSE
INVARIANTS
    SessionTypeOK
    MissingIsExplained
    AtMostOneDouble
    PendingIsUnheard
    BusyIsExplained
PROPERTIES
    CancelEndsRun
    PagesCatchUp
