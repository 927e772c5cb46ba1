CONSTANTS
    k1 = k1
    k2 = k2
    Keys <- OneKey
    NoKey = NoKey
    TapNames = {t1}
    Persistence = persistence
    CheckpointMaxItems = 2
    MaxCheckpoints = 2
    MaxMutationId = 8
    MaxCheckpointId = 2
    States = {"active", "replica"}
    InconsistentSlave = FALSE
SPECIFICATION Spec
CHECK_DEADLOCK FALSE
INVARIANT NeverAborts
