SPECIFICATION Spec
CONSTANTS
    N = 3
    MaxGoroutines = 2
    Faults = {"make", "remove"}
INVARIANTS TypeOK FilesOutliveProcess QuietAfterWait MergeNeedsEveryPlan LeftoversAreReported
PROPERTIES CancelledRunReturns RefinesContract
CHECK_DEADLOCK FALSE
