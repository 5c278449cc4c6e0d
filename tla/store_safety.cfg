SPECIFICATION Spec
CONSTANTS
    Series = {s1}
    Names = {m}
    Callers = {c1, c2}
    InputBuffer = 2
    Period <- OneUnit
    MaxCount <- TwoPoints
    StopJoins = TRUE
    MayCrash = TRUE
    MaxFail = 1
    MaxTime = 4
    MaxRecs = 3
    MaxLives = 2
    None = None
SYMMETRY CallerSymmetry
INVARIANTS
    TypeOK
    Readable
    RestoredAll
    NoOvertaking
    NoSendOnClosed
    OneErrorOneRecord
PROPERTIES
    LatestWins
CHECK_DEADLOCK FALSE
