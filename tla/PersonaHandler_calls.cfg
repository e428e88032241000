CONSTANTS
    QuerySources = {q1, q2, q3}
    CDPRoles = cdp_roles
SPECIFICATION FairSpec
INVARIANTS
    TypeOK
    NoResultLost
    SuccessIsComplete
    TimeoutKeepsFinished
    NoSendAfterClose
    SendNeverBlocks
PROPERTIES
    ImplementsPersonaReply
    MergedIsKept
    AlwaysReplies
    NoGoroutineLeak
CHECK_DEADLOCK FALSE
