SPECIFICATION Spec
INVARIANT ReadyMeansConnected
CHECK_DEADLOCK FALSE
