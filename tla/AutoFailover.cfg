SPECIFICATION FairSpec
CONSTANTS
    Nodes = {n1, n2, n3, n4}
    NoNode = NoNode
    Joining = {n4}
    DownThreshold = 2
    MaxDown = 2
    MaxEvents = 2
CHECK_DEADLOCK FALSE
INVARIANTS FailoverInv
PROPERTIES FailsOverSafely DownIsFailedOver
