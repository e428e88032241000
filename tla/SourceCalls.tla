----------------------------- MODULE SourceCalls -----------------------------
(***************************************************************************)
(* One source goroutine of a request, down to its upstream calls           *)
(* (internal/service/message_handler.go): the committee source or another  *)
(* query source (QueryLegs), or sourceCDPRoles, which looks a member and   *)
(* then his affiliations up in the cache or at CDP, starts refreshes of    *)
(* what is stale and has the project slugs resolved by one goroutine each, *)
(* over a channel of their own, through NATSClient.Request.                *)
(*                                                                         *)
(* What the cache holds is the subject of CdpCache; here a lookup may hit, *)
(* hit a stale entry or miss.  PersonaHandler starts the goroutine and     *)
(* takes what it returns.                                                  *)
(***************************************************************************)
EXTENDS QueryLegs, FiniteSets, Functions

CONSTANTS
    Source,         \* the source's task
    MemberRefresh,  \* backgroundRefreshMemberID
    AffiliationsRefresh,  \* backgroundRefreshAffiliations
    Members,        \* CDP member ids
    Lists,          \* lists of affiliations: [id, slug, nonlf]
    UIDs,           \* v2 project UIDs
    Deadline        \* the request's handler timeout

ASSUME SourceAssumption ==
    /\ Detached = {MemberRefresh, AffiliationsRefresh}
    /\ Board # All
    /\ {Source} \cup Legs \subseteq Tasks \ Detached /\ Source \notin Legs
    /\ \A b, c \in Searches :
          /\ EmailLeg(b) # UsernameLeg(c)
          /\ b # c => EmailLeg(b) # EmailLeg(c) /\ UsernameLeg(b) # UsernameLeg(c)
    /\ Deadline \in Nat

VARIABLES
    resolver,       \* the handler has a NATS client
    affiliations,   \* what it converts
    lookup,         \* lookup[s]: [stage, answer] of slug s
    ch              \* the channel of resolveSlugsToUIDs

cdpVars == <<resolver, affiliations, lookup, ch>>
vars == <<legVars, cdpVars>>

Slugs == {a.slug : a \in UNION {Range(l) : l \in Lists}}
NoSlug == ""
Blank == "blank"            \* an empty or '{...' response, or an error
NotAsked == [stage |-> "off", answer |-> Blank]

\* CDP's lists are lists, and the empty answer is no UID.
ASSUME AnswerAssumption ==
    /\ Bodies("affiliations") \subseteq Lists
    /\ \A l \in Lists : l \in Seq(Range(l)) /\ \A a \in Range(l) : a.nonlf \in BOOLEAN
    /\ IsFiniteSet(Slugs)
    /\ Blank \notin UIDs

-----------------------------------------------------------------------------

Init ==
    /\ now = 0 /\ ended = FALSE
    /\ call = [t \in Tasks |-> Idle]
    /\ work \in {"search", "committee", "cdp_roles"}
    /\ resolver \in IF work = "cdp_roles" THEN BOOLEAN ELSE {TRUE}
    /\ LegsInit
    /\ pc = "start"
    /\ affiliations = <<>>
    /\ lookup = [s \in Slugs |-> NotAsked]
    /\ ch = <<>>
    /\ output = Failed

fixed == <<sourceFixed, searchVars, resolver>>

-----------------------------------------------------------------------------
(* sourceCDPRoles                                                           *)

(* Steps 1 and 2: a hit, a stale hit, for which a refresh is started, or a  *)
(* miss.                                                                    *)
Cached(kind, refresh, next) ==
    /\ pc' = next
    /\ UNCHANGED call \/ call' = [call EXCEPT ![refresh] = NewCall(kind, FALSE)]

Missed(kind, next) ==
    /\ pc' = next
    /\ call' = [call EXCEPT ![Source] = NewCall(kind, FALSE)]

LookupMember ==
    /\ work = "cdp_roles" /\ pc = "start"
    /\ Cached("resolve", MemberRefresh, "have_member") \/ Missed("resolve", "resolving")
    /\ UNCHANGED <<fixed, affiliations, lookup, ch, output>>

MemberResolved ==
    /\ pc = "resolving" /\ Stage(Source, "done")
    /\ LET r == call[Source].result
       IN  IF r.err THEN Return(Failed)
           ELSE IF r.value = NoMember THEN Return(Found(<<>>))
           ELSE pc' = "have_member" /\ UNCHANGED output
    /\ UNCHANGED <<fixed, call, affiliations, lookup, ch>>

LookupAffiliations ==
    /\ pc = "have_member"
    /\ \/ /\ Cached("affiliations", AffiliationsRefresh, "have_affiliations")
          /\ affiliations' \in Lists
       \/ Missed("affiliations", "fetching") /\ UNCHANGED affiliations
    /\ UNCHANGED <<fixed, lookup, ch, output>>

AffiliationsFetched ==
    /\ pc = "fetching" /\ Stage(Source, "done")
    /\ LET r == call[Source].result
       IN  IF r.err
             THEN Return(Failed) /\ UNCHANGED affiliations
             ELSE affiliations' = r.value /\ pc' = "have_affiliations" /\ UNCHANGED output
    /\ UNCHANGED <<fixed, call, lookup, ch>>

-----------------------------------------------------------------------------
(* resolveSlugsToUIDs                                                       *)

(* The slugs to ask for, each once.                                         *)
Unique == {a.slug : a \in {b \in Range(affiliations) : ~b.nonlf}} \ {NoSlug}

ChannelCapacity_None == 0
ChannelCapacity == Cardinality(Unique)

(* Nobody to ask, or nothing to ask for: a nil map.                         *)
NothingToResolve ==
    /\ pc = "have_affiliations" /\ (~resolver \/ Unique = {})
    /\ Return(CDPRoles(affiliations, <<>>))
    /\ UNCHANGED <<fixed, call, affiliations, lookup, ch>>

FanOut ==
    /\ pc = "have_affiliations" /\ resolver /\ Unique # {}
    /\ lookup' = [s \in Slugs |->
                    IF s \in Unique THEN [NotAsked EXCEPT !.stage = "asking"] ELSE NotAsked]
    /\ pc' = "waiting"
    /\ UNCHANGED <<fixed, call, affiliations, ch, output>>

(* NATSClient.Request answers with a UID ...                                *)
SlugAnswered(s) ==
    /\ lookup[s].stage = "asking"
    /\ \E u \in UIDs : lookup' = [lookup EXCEPT ![s] = [stage |-> "sending", answer |-> u]]
    /\ UNCHANGED <<fixed, call, pc, affiliations, ch, output>>

(* ... or fails: not ready, nobody there, the context has ended, or the     *)
(* response is empty or an error.                                           *)
SlugUnknown_Sends(s) ==
    /\ lookup[s].stage = "asking"
    /\ lookup' = [lookup EXCEPT ![s].stage = "sending"]
    /\ UNCHANGED <<fixed, call, pc, affiliations, ch, output>>

SlugUnknown(s) ==
    /\ lookup[s].stage = "asking"
    /\ lookup' = [lookup EXCEPT ![s].stage = "done"]
    /\ UNCHANGED <<fixed, call, pc, affiliations, ch, output>>

Result(s) == [slug |-> s, uid |-> lookup[s].answer]

SendUID(s) ==
    /\ lookup[s].stage = "sending" /\ Len(ch) < ChannelCapacity
    /\ ch' = Append(ch, Result(s))
    /\ lookup' = [lookup EXCEPT ![s].stage = "done"]
    /\ UNCHANGED <<fixed, call, pc, affiliations, output>>

WaitOver_Any == \E s \in Unique : lookup[s].stage = "done"
WaitOver == \A s \in Unique : lookup[s].stage = "done"

(* The channel, read to its end, as a map.                                  *)
SlugMap ==
    [s \in {r.slug : r \in Range(ch)} |-> (CHOOSE r \in Range(ch) : r.slug = s).uid]

(* wg.Wait, close, the map, affiliationsToProjects.                         *)
Convert ==
    /\ pc = "waiting" /\ WaitOver
    /\ Return(CDPRoles(affiliations, SlugMap))
    /\ ch' = <<>>
    /\ UNCHANGED <<fixed, call, affiliations, lookup>>

-----------------------------------------------------------------------------
(* contexts, refreshes and time                                             *)

(* The deadline, the parent, or cancel() when the handler has replied.      *)
EndContext ==
    /\ ~ended /\ ended' = TRUE
    /\ UNCHANGED <<now, call, work, anonymous, hasUsername, pc, searchVars, output, cdpVars>>

(* backgroundRefresh...: the put, or nothing, and the goroutine is gone.    *)
RefreshEnds(f) ==
    /\ Stage(f, "done")
    /\ call' = [call EXCEPT ![f] = Idle]
    /\ UNCHANGED <<fixed, pc, affiliations, lookup, ch, output>>

Asking == \E s \in Slugs : lookup[s].stage = "asking"

(* Time does not pass over the end of a context or of a call; NATS requests *)
(* have only the context's.                                                 *)
Tick ==
    /\ now < Deadline + TokenWait + HTTPTimeout + 1
    /\ ended \/ now < Deadline
    /\ ended => ~Asking
    /\ \A t \in Tasks : InTime(t)
    /\ now' = now + 1
    /\ UNCHANGED <<ended, call, work, anonymous, hasUsername, pc, searchVars, output, cdpVars>>

SourceStep ==
    \/ QueryStep /\ UNCHANGED cdpVars
    \/ LookupMember \/ MemberResolved \/ LookupAffiliations \/ AffiliationsFetched
    \/ NothingToResolve \/ FanOut \/ Convert

Calls(t) ==
    /\ CallStep(t)
    /\ UNCHANGED <<work, anonymous, hasUsername, pc, searchVars, output, cdpVars>>

Searching(b) == SearchStep(b) /\ UNCHANGED cdpVars

SendLegResult(t) == LegReturns(t) /\ UNCHANGED cdpVars

Next ==
    \/ SourceStep
    \/ \E b \in Searches : Searching(b)
    \/ \E t \in Tasks : Calls(t)
    \/ \E t \in Legs : SendLegResult(t)
    \/ \E s \in Slugs : SlugAnswered(s) \/ SlugUnknown(s) \/ SendUID(s)
    \/ \E f \in Detached : RefreshEnds(f)
    \/ EndContext
    \/ Tick

Spec == Init /\ [][Next]_vars

(* Goroutines run; calls end when their context does.  No service need ever *)
(* answer, and no refresh need end.                                         *)
FairSpec ==
    /\ Spec
    /\ WF_vars(SourceStep)
    /\ \A b \in Searches : WF_vars(Searching(b))
    /\ \A t \in Tasks \ Detached : WF_vars(Interrupted(t) /\ Calls(t))
    /\ \A t \in Legs : WF_vars(SendLegResult(t))
    /\ \A s \in Slugs : WF_vars(ended /\ SlugUnknown(s)) /\ WF_vars(SendUID(s))

-----------------------------------------------------------------------------
(* Properties.                                                              *)

(* Every variable stays in its domain.                                      *)
TypeOK ==
    /\ now \in Nat /\ {ended, resolver} \subseteq BOOLEAN /\ LegsType
    /\ call \in [Tasks -> CallType]
    /\ work \in {"search", "committee", "cdp_roles"}
    /\ pc \in {"start", "resolving", "have_member", "fetching", "have_affiliations",
               "waiting", "returned"}
    /\ affiliations \in Lists \cup {<<>>}
    /\ lookup \in [Slugs -> [stage : {"off", "asking", "sending", "done"},
                             answer : UIDs \cup {Blank}]]
    /\ Range(ch) \subseteq [slug : Slugs, uid : UIDs] /\ Len(ch) <= Cardinality(Slugs)
    /\ output.err \in BOOLEAN

Over(t) == call[t].stage = "idle"
AllAnswered == \A s \in Slugs : lookup[s].stage \in {"off", "done"}

(* When the request's context ends, whatever the services do, the source    *)
(* returns and none of its goroutines is left: no search of the committee   *)
(* source, no leg of a search and no resolution of a slug, either in its    *)
(* call or in a send that nobody receives.  That goes for a wait for a      *)
(* token too: Token selects ctx.Done() (auth.go:92-97).  The comment at     *)
(* message_handler.go:163-166, by which the token provider `will not        *)
(* honour cancellation', is true only of the exchange that Token leaves     *)
(* behind, which is TokenProvider's subject.                                *)
EndsWithContext ==
    ended ~> /\ pc = "returned" /\ AllAnswered
             /\ \A b \in Searches : search[b] \in {"off", "returned"}
             /\ \A t \in Legs : Over(t)

(* A background refresh has no context to end it: it is over, answered or   *)
(* not, once a token can be waited for no longer and http.Client's timeout  *)
(* has passed.  How many run at a time is not bounded by this, nor by the   *)
(* code; and TokenWait grows with the calls that queue for a token.         *)
RefreshEndsInTime ==
    \A f \in Detached : InCall(f) => now - call[f].began <= TokenWait + HTTPTimeout

Resolved ==
    Only(affiliations,
         {a \in Range(affiliations) : ~a.nonlf /\ lookup[a.slug].answer # Blank})

(* What sourceCDPRoles returns has exactly the affiliations whose slug the  *)
(* project service answered, each with that slug's own UID, in whatever     *)
(* order the goroutines ended; none is there before its answer.             *)
OutputIsResolved ==
    pc = "returned" /\ work = "cdp_roles" /\ ~output.err =>
        /\ Len(output.records) = Len(Resolved)
        /\ \A i \in DOMAIN Resolved :
              /\ output.records[i].slug = Resolved[i].slug
              /\ output.records[i].uid = lookup[Resolved[i].slug].answer
              /\ output.records[i].detections[1].id = Resolved[i].id

(* The last answer says nothing of the person: none came, or a status that  *)
(* is no answer to the question, or a body that cannot be read.             *)
Outage(c) ==
    \/ c.reply.status \in {"none", "other"}
    \/ c.reply.status = "404" /\ c.kind # "resolve"
    \/ c.reply.status = "200" /\ c.reply.body = Garbled

(* A source returns an error exactly when                                   *)
(*   - it is the CDP source, and the last answer to step 1 or 2 (the member *)
(*     or his affiliations) was an outage: that is never taken for `no      *)
(*     member' or `no affiliations', nor a 404 on the member for an outage; *)
(*   - it is a query source other than the committee's, there is a          *)
(*     username, and the last answers of both its legs were outages.        *)
(* All else is silent.  One leg that fails; a search for a request without  *)
(* a username; all four legs of the committee source, which logs the errors *)
(* of both its searches and returns none (source_board_member.go:48-73);    *)
(* and the project service in step 3 of the CDP source: for these an outage *)
(* of the service looks as if it had nothing to say of the person.          *)
ErrorTellsOutage ==
    pc = "returned" =>
        (output.err <=>
            \/ work = "cdp_roles" /\ Stage(Source, "done") /\ Outage(call[Source])
            \/ work = "search" /\ hasUsername /\ \A t \in LegsOf(All) : Outage(call[t]))
=============================================================================
