SPECIFICATION Spec
CONSTANTS
    Items = {i1}
    Deletes = {}
    Controls = {c1}
    WaitForWarmup = FALSE
    Forces = {TRUE, FALSE}
    MaxMutations = 1
    MaxRequests = 2
    MaxSnapshots = 1
    MaxFailures = 1
CHECK_DEADLOCK FALSE
INVARIANTS FlusherInv StoppedMeansFlushed OneLiveTask NoLostWakeup
PROPERTIES PausedWritesNothing PauseTakesEffect StopTakesEffect DirtyIsStored
