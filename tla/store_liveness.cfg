SPECIFICATION FairSpec
CONSTANTS
    Series = {s1}
    Names = {m}
    Callers = {c1, c2}
    InputBuffer = 1
    Period <- OneUnit
    MaxCount <- TwoPoints
    StopJoins = TRUE
    MayCrash = TRUE
    MaxFail = 1
    MaxTime = 0
    MaxRecs = 3
    MaxLives = 2
    None = None
PROPERTIES
    EverySettled
    StopEnds
CHECK_DEADLOCK FALSE
