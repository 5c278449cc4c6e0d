SPECIFICATION FairSpec
CONSTANTS
    Series = {s1, s2}
    Names = {m}
    Callers = {c1}
    InputBuffer = 1
    Period <- OneUnit
    MaxCount <- TwoPoints
    StopJoins = FALSE
    MayCrash = TRUE
    MaxFail = 0
    MaxTime = 4
    MaxRecs = 2
    MaxLives = 1
    None = None
PROPERTIES
    StaleRowsVanish
    ImplementsWriteBehind
CHECK_DEADLOCK FALSE
