SPECIFICATION Spec
CONSTANTS
    MaxRounds = 3
    MaxCancels = 1
    MaxCrashes = 0
    MaxDisturbances = 1
    Messages = {m1}
INVARIANTS
    SentOnce
CHECK_DEADLOCK FALSE
