CONSTANTS
    Jobs = {a, b}
    MaxFaults = 2
SPECIFICATION FairSpec
INVARIANTS TypeOK CallbacksAtMostOnce FinishedMeansSettled
PROPERTIES NoThenIfCancelledFirst EventuallyFinally FailureCaught EventuallyFinished
CHECK_DEADLOCK FALSE
