SPECIFICATION Spec
CONSTANTS
    Sandboxes = {1, 2}
    Scopes = {x1}
    Containers = {1, 2, 3}
    Requests = {1, 2, 3}
    None = None
    MaxTotal = 1
    PrewarmSize = 1
    MaxWrites = 1
    MaxTroubles = 1
CHECK_DEADLOCK FALSE
INVARIANTS
    TypeOK
    BoxesWithinReach
PROPERTIES
    KeepsWorkspacesPrivate
