SPECIFICATION FairSpec
CONSTANTS
    source = source
    fm = fm
    fa = fa
    m1 = m1
    be = be
    bu = bu
    ae = ae
    au = au
    Tasks <- MCTasks
    Detached <- MCDetached
    Source = source
    Board = Board
    All = All
    EmailLeg <- MCEmailLeg
    UsernameLeg <- MCUsernameLeg
    MemberRefresh = fm
    AffiliationsRefresh = fa
    Members <- MCMembers
    Lists <- MCLists
    Bodies <- MCBodies
    UIDs = {u1, u2}
    Garbled = Garbled
    NoMember = NoMember
    Deadline = 1
    HTTPTimeout = 1
    TokenWait = 1
INVARIANTS TypeOK RefreshEndsInTime OutputIsResolved ErrorTellsOutage
PROPERTY EndsWithContext
CHECK_DEADLOCK FALSE
