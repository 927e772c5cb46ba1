SPECIFICATION Spec
CONSTANTS
    c1 = c1  c2 = c2  w1 = w1  w2 = w2
    Conns = {c1, c2}
    Workers = {w1, w2}
    Worker <- Apart
    Sends <- Writers
    Keys = {k1, k2}
    NoThread = NoThread
    InitialState = "pending"
    States = {"active", "pending", "dead"}
    SyncKeys = {{k1, k2}}
    MaxRequests = 3
    MaxSyncs = 1
    MaxChanges = 1
CHECK_DEADLOCK FALSE
INVARIANTS WaitersFit SyncedAll
PROPERTIES WokenOrDeadlocked SyncIsAnswered
