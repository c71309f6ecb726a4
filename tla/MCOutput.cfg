SPECIFICATION Spec
CONSTANTS
    w1 = w1
    w2 = w2
    w3 = w3
    Writers <- Processes
    MaxOthers = 2
INVARIANTS OutputIsWhole SuccessIsExclusive
PROPERTY NothingIsReplaced
CHECK_DEADLOCK FALSE
