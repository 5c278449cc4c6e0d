SPECIFICATION Spec
CONSTANTS
    Series = {s1}
    Names = {m}
    Callers = {c1}
    InputBuffer = 1
    Period <- OneUnit
    MaxCount <- TwoPoints
    StopJoins = TRUE
    MayCrash = FALSE
    MaxFail = 0
    MaxTime = 0
    MaxRecs = 2
    MaxLives = 1
    None = None
INVARIANTS
    GracefulStopKeepsAll
CHECK_DEADLOCK FALSE
