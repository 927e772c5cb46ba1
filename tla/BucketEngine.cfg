SPECIFICATION Spec
CONSTANTS
    c1 = c1
    c2 = c2
    w1 = w1
    w2 = w2
    Conns <- MCConns
    Sends <- MCSends
    Names = {b, d}
    Workers <- MCWorkers
    Dispatched <- MCDispatched
    Tap = tap
    Default = b
    AutoCreate = TRUE
    MaxHandles = 2
CHECK_DEADLOCK FALSE
INVARIANTS HandlesFit CallsInLiveEngine
PROPERTIES AnsweredOrDeadlocked ShutdownEnds
