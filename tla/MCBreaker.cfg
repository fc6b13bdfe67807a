SPECIFICATION Spec
CONSTANTS
    MaxFails = 2
    FailTimeout = 2
    Threads = 2
    MaxCalls = 4
    Clocks <- MCClocks
INVARIANTS OpenIsEarned SkippedWhenDown
CHECK_DEADLOCK FALSE
