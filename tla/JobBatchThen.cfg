CONSTANTS
    Jobs = {a, b}
    MaxFaults = 0
SPECIFICATION Spec
INVARIANT ThenMeansAllSucceeded
CHECK_DEADLOCK FALSE
