SPECIFICATION Spec
CONSTANTS
    diff = diff
    fanout = fanout
    Last = 2
    LaneSets <- AllLaneSets
    MaxEndings = 2
    Limits = {1, 3}
SYMMETRY LanePermutations
INVARIANTS LanesExclusive EndingIsLast EffectsAreExecuting NoMissedWakeup
PROPERTIES NothingAfterEnding NoOvertaking WithinLimit
CHECK_DEADLOCK FALSE
