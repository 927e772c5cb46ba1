CONSTANTS
    k1 = k1
    k2 = k2
    Keys <- MCKeys
    NoKey = NoKey
    TapNames = {t1}
    Persistence = persistence
    CheckpointMaxItems = 2
    MaxCheckpoints = 2
    MaxMutationId = 9
    MaxCheckpointId = 1
    States = {"active"}
    InconsistentSlave = FALSE
SPECIFICATION Spec
SYMMETRY KeySymmetry
CHECK_DEADLOCK FALSE
INVARIANTS NoDanglingCursor RefCountsExact CountsExact PendingIsResident
PROPERTIES ImplementsUnifiedQueue
