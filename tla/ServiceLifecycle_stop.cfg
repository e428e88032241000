SPECIFICATION FairSpec
INVARIANTS
    NeverIdle
    HeldUpOnlyUnsubscribed
    TelemetryEnds
PROPERTY StopsUnlessStuck
CHECK_DEADLOCK FALSE
