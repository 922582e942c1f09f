SPECIFICATION Spec
CONSTANTS
    Singles = {"s1", "s2"}
    Batch = {}
    Limits = {1}
    MaxAttempts = 1
PROPERTY CancelledDoesNotStart
CHECK_DEADLOCK FALSE
