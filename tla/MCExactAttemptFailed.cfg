SPECIFICATION Spec
CONSTANTS
    RequestCount <- MCRequestCount
    Preflight = {1}
INVARIANTS
    FailedIsEvidenced
CHECK_DEADLOCK FALSE
