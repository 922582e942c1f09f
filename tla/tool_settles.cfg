SPECIFICATION FairSpec
CONSTANTS
    Last = 2
    LaneSets = {{}, {diff}}
    MaxEndings = 1
    Limits = {1, 2}
PROPERTIES TurnSettles
CHECK_DEADLOCK FALSE
