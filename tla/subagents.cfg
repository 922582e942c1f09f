SPECIFICATION FairSpec
CONSTANTS
    Singles = {"s1"}
    Batch = {"b1"}
    Limits = {1, 2}
    MaxAttempts = 2
INVARIANTS ChargedForLiveTools NobodyWaitsBesideRoom PublishedIsLast
PROPERTIES WorkWithinLimit OnlyRetryRevives EveryJobReports
CHECK_DEADLOCK FALSE
