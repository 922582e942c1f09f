SPECIFICATION FairSpec
CONSTANTS
    None = None
    Questions = {q}
    Commands = {c}
    AskTime = 2
    CommandTime = 1
    MaxTime = 2
    Preferred = {TRUE}
    Bound = 3
INVARIANTS WakeupIsKept
PROPERTIES WithdrawnNeverAnswers DueIsAnswered
CHECK_DEADLOCK FALSE
