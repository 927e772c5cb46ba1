SPECIFICATION Spec
CONSTANTS
    N = 3
    Version <- LastIsNewer
    Timeout = 3
    MaxFaults = 1
CHECK_DEADLOCK FALSE
INVARIANTS MasterInv RivalsEnd
PROPERTIES AgreesOrClashes
