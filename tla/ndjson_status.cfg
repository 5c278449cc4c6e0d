SPECIFICATION Spec
CONSTANTS
    Kinds = {"gauge", "timer"}
    Statuses = {200, 204, 404, 503}
    Dests = {"http"}
    None = None
INVARIANT SuccessMeans2xx
CHECK_DEADLOCK FALSE
