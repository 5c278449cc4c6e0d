SPECIFICATION FairSpec
CONSTANTS
    Series = {s1}
    Names = {m}
    Callers = {c1}
    InputBuffer = 1
    Period <- OneUnit
    MaxCount <- TwoPoints
    StopJoins = TRUE
    MayCrash = FALSE
    MaxFail = 0
    MaxTime = 4
    MaxRecs = 1
    MaxLives = 2
    None = None
PROPERTIES
    EveryTableShrunk
CHECK_DEADLOCK FALSE
