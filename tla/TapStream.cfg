SPECIFICATION Spec
CONSTANTS
    Stream <- TwoCheckpoints
    SeqMod = 1000
    InitialSeqno = 996
    AckInterval = 2
    AckWindow = 2
    MaxTakeoverLog = 4
    Takeover = TRUE
    MaxRefusals = 1
    MaxReconnects = 2
CHECK_DEADLOCK FALSE
INVARIANTS TapInv NothingDropped EndAfterItems OneOwner
PROPERTIES ItemsArrive TakeoverEnds
