SPECIFICATION Spec
CONSTANTS
    Requests = {r1}
    Codes = {200, 404, 500}
    Room = 1
    MaxCalls = 2
    None = None
    Hijacked = Hijacked
PROPERTY SuperfluousIgnored
CHECK_DEADLOCK FALSE
