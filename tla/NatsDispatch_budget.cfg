CONSTANTS
    Callers = {c1, c2}
    Replicas = {r1}
    Nobody = Nobody
    HandlerTimeout = 4
    CallerTimeout = 5
    Horizon = 10
SPECIFICATION Spec
INVARIANT ReplyWithinBudget
CHECK_DEADLOCK FALSE
