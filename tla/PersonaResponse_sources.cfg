CONSTANTS
    Launches <- MCLaunches
    ProjectUIDs <- MCProjectUIDs
    SlugOf <- MCSlugOf
    MemberRecords <- MCMemberRecords
    ListRecords <- MCListRecords
    MeetingRecords <- MCMeetingRecords
    SettingsRecords <- MCSettingsRecords
    Affiliations <- MCAffiliations
SPECIFICATION Spec
INVARIANTS
    MergedIsGrouped
    OneEntryPerProject
    OnlyTheRequester
    NothingMissing
    CountedOnce
    BoardAlsoCommittee
    OnlyResolvedAffiliations
CHECK_DEADLOCK FALSE
