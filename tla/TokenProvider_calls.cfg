CONSTANTS
    Calls = {c1, c2, c3}
    FetchTimeout = 2
    CallTimeout = 2
    TokenLife = 4
    ExpiryBuffer = 2
    Horizon = 7
SPECIFICATION FairSpec
INVARIANTS
    TokenOutlastsRequest
    NoNeedlessExchange
    DrainIsBounded
PROPERTY WorkersEnd
CHECK_DEADLOCK FALSE
