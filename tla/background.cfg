SPECIFICATION FairSpec
CONSTANTS
    Results = {1, 2}
    Size <- GrowingSizes
    Window = 2
    BoxLimit = 2
    MaxFaults = 1
INVARIANTS AckedIsHeld OneSubmitter
CHECK_DEADLOCK FALSE
PROPERTY HeldIsDelivered
