SPECIFICATION Spec
CONSTANTS
    c1 = c1  c2 = c2  w1 = w1  w2 = w2
    Conns = {c1, c2}
    Workers = {w1, w2}
    Worker <- Together
    Sends <- Setters
    Keys = {k1}
    NoThread = NoThread
    InitialState = "pending"
    States = {"active"}
    SyncKeys = {}
    MaxRequests = 2
    MaxSyncs = 0
    MaxChanges = 1
CHECK_DEADLOCK FALSE
PROPERTY PendingIsWoken
