SPECIFICATION Spec
CONSTANTS
    MaxRounds = 2
    MaxCancels = 1
    MaxCrashes = 1
    MaxDisturbances = 1
    Messages = {m1, m2}
INVARIANTS
    SentOnce
    NothingLost
    HeldByTheRound
    EditedIsHeldBack
    OpeningDecides
CHECK_DEADLOCK FALSE
SYMMETRY Interchangeable
