SPECIFICATION Spec
CONSTANTS
    Keys = {k1, k2}
    NoKey = NoKey
    Clients = {c1}
    MaxMutations = 3
    Volatile <- SecondExpires
    MaxCheckpoints = 1
    MaxFailures = 1
    MaxCrashes = 1
    SeparateReader = FALSE
SYMMETRY KeySymmetry
CHECK_DEADLOCK FALSE
INVARIANTS EntriesFit StoredWhenQuiet CleanIsStored CheckpointIsStored
