CONSTANTS
    Callers = {c1, c2}
    Replicas = {r1, r2}
    Nobody = Nobody
    HandlerTimeout = 4
    CallerTimeout = 5
    Horizon = 5
SPECIFICATION Spec
PROPERTY TimeoutMeansTimedOut
CHECK_DEADLOCK FALSE
