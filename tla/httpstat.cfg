SPECIFICATION FairSpec
CONSTANTS
    Requests = {r1, r2}
    Codes = {103, 200, 404, 500}
    Room = 1
    MaxCalls = 2
    None = None
    Hijacked = Hijacked
INVARIANTS TypeOK CountsAddUp CountedAsSent AlwaysAnswered
PROPERTY RequestsEnd
CHECK_DEADLOCK FALSE
