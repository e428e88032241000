CONSTANTS
    Callers = {c1, c2, c3}
    Replicas = {r1, r2}
    Nobody = Nobody
    HandlerTimeout = 1
    CallerTimeout = 2
    Horizon = 4
SPECIFICATION FairSpec
INVARIANTS
    OnePlace
    DelayIsBounded
    IdleMeansInTime
PROPERTIES
    QueueDrains
    ImplementsRequestService
CHECK_DEADLOCK FALSE
