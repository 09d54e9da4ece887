SPECIFICATION FairSpec
CONSTANTS
    Sandboxes = {1, 2}
    Scopes = {x1}
    Containers = {1, 2, 3}
    Requests = {1, 2, 3}
    None = None
    MaxTotal = 1
    PrewarmSize = 0
    MaxWrites = 1
    MaxTroubles = 1
CHECK_DEADLOCK FALSE
PROPERTIES
    ExpiredIsReaped
    BrokenBoxIsNoticed
