------------------------------ MODULE QueryLegs ------------------------------
(***************************************************************************)
(* The goroutines of the query sources (internal/service/source_*.go).     *)
(* sourceMailingList, sourceMeetingAttendance and sourceWriterAuditor run  *)
(* one search in two legs, each a goroutine; the committee source runs two *)
(* such searches (queryCommitteeMembers), each in a goroutine of its own.  *)
(* Whoever starts goroutines waits for all of them and only then reads the *)
(* channels their results are in.                                          *)
(*                                                                         *)
(* What the records say and how they are filtered is in PersonaSources;    *)
(* the one search of sourceExecutiveDirector has no legs.                  *)
(***************************************************************************)
EXTENDS UpstreamCalls, PersonaSources

CONSTANTS
    Board, All,         \* the searches: for Board records only, for all
    EmailLeg(_), UsernameLeg(_)     \* the tasks of the legs of a search

VARIABLES
    work,           \* "search", "committee" or, in SourceCalls, "cdp_roles"
    anonymous,      \* the query client has no TokenFunc
    hasUsername,    \* the request has a username
    pc,             \* where the source is
    search,         \* search[b]: where search b is
    legCh,          \* legCh[t]: the channel of leg t
    found,          \* found[b]: what search b returned
    output          \* what the source returns

searchVars == <<search, legCh, found>>
legVars == <<now, ended, call, work, anonymous, hasUsername, pc, searchVars, output>>
sourceFixed == <<now, ended, work, anonymous, hasUsername>>

Searches == {Board, All}
Run ==
    CASE work = "search"    -> {All}
      [] work = "committee" -> Searches
      [] OTHER              -> {}

LegsOf(b) == {EmailLeg(b), UsernameLeg(b)}
Legs == LegsOf(Board) \cup LegsOf(All)
Asked(b) == IF hasUsername THEN LegsOf(b) ELSE {EmailLeg(b)}

LegCapacity_None == 0
LegCapacity == 1

SendLeg(t, result) ==
    /\ Len(legCh[t]) < LegCapacity
    /\ legCh' = [legCh EXCEPT ![t] = Append(@, result)]

Return(result) == pc' = "returned" /\ output' = result

-----------------------------------------------------------------------------

(* What only a query source looks at.                                       *)
QueryOnly == IF work = "cdp_roles" THEN {FALSE} ELSE BOOLEAN

LegsInit ==
    /\ anonymous \in QueryOnly /\ hasUsername \in QueryOnly
    /\ search = [b \in Searches |-> IF b \in Run THEN "start" ELSE "off"]
    /\ legCh = [t \in Legs |-> <<>>]
    /\ found = [b \in Searches |-> Failed]

(* sourceWriterAuditor asks for nothing when there is no username.          *)
NothingToSearch ==
    /\ work = "search" /\ pc = "start"
    /\ ~hasUsername /\ search[All] = "start"
    /\ search' = [search EXCEPT ![All] = "off"]
    /\ Return(Found(<<>>))
    /\ UNCHANGED <<sourceFixed, call, legCh, found>>

StartLegs(b) ==
    /\ search[b] = "start"
    /\ call' = [t \in Tasks |-> IF t \in Asked(b) THEN NewCall("search", anonymous) ELSE call[t]]
    /\ search' = [search EXCEPT ![b] = IF hasUsername THEN "searching" ELSE "skipping"]
    /\ UNCHANGED <<sourceFixed, pc, legCh, found, output>>

(* Without a username the search itself puts an empty result there.         *)
SkipUsernameLeg(b) ==
    /\ search[b] = "skipping"
    /\ SendLeg(UsernameLeg(b), Found(<<>>))
    /\ search' = [search EXCEPT ![b] = "searching"]
    /\ UNCHANGED <<sourceFixed, call, pc, found, output>>

(* The leg's goroutine: the send, then wg.Done.                             *)
LegReturns(t) ==
    /\ t \in Legs /\ Stage(t, "done")
    /\ SendLeg(t, IF call[t].result.err THEN Failed
                  ELSE Found(call[t].result.value))
    /\ call' = [call EXCEPT ![t].stage = "idle"]
    /\ UNCHANGED <<sourceFixed, pc, search, found, output>>

(* wg.Wait, then the two receives: the end of a search, which returns an    *)
(* error only if both legs did.                                             *)
JoinLegs(b) ==
    /\ search[b] = "searching" /\ \A t \in Asked(b) : Stage(t, "idle")
    /\ \A t \in LegsOf(b) : legCh[t] # <<>>
    /\ found' = [found EXCEPT ![b] = TwoLegs(Head(legCh[EmailLeg(b)]), Head(legCh[UsernameLeg(b)]))]
    /\ legCh' = [t \in Legs |-> IF t \in LegsOf(b) THEN Tail(legCh[t]) ELSE legCh[t]]
    /\ search' = [search EXCEPT ![b] = "returned"]
    /\ UNCHANGED <<sourceFixed, call, pc, output>>

(* The other query sources return what their search does ...                *)
ReturnSearch ==
    /\ work = "search" /\ pc = "start" /\ search[All] = "returned"
    /\ Return(found[All])
    /\ UNCHANGED <<sourceFixed, call, searchVars>>

(* ... the committee source waits for both its searches and returns what    *)
(* they found.  It logs their errors and returns none.                      *)
JoinBranches ==
    /\ work = "committee" /\ pc = "start"
    /\ \A b \in Searches : search[b] = "returned"
    /\ Return(Found(CommitteeRecords(found[Board], found[All])))
    /\ UNCHANGED <<sourceFixed, call, searchVars>>

SearchStep(b) == StartLegs(b) \/ SkipUsernameLeg(b) \/ JoinLegs(b)
QueryStep == NothingToSearch \/ ReturnSearch \/ JoinBranches

LegsType ==
    /\ {anonymous, hasUsername} \subseteq BOOLEAN
    /\ search \in [Searches -> {"off", "start", "skipping", "searching", "returned"}]
    /\ DOMAIN legCh = Legs /\ \A t \in Legs : Len(legCh[t]) <= LegCapacity
    /\ DOMAIN found = Searches /\ \A b \in Searches : found[b].err \in BOOLEAN
=============================================================================
