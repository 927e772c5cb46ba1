SPECIFICATION Spec
CONSTANTS
    Keys = {k1}
    NoKey = NoKey
    Clients = {c1}
    MaxMutations = 2
    Volatile = {}
    MaxCheckpoints = 0
    MaxFailures = 0
    MaxCrashes = 0
    SeparateReader = TRUE
CHECK_DEADLOCK FALSE
INVARIANT ResidentIsLatest
