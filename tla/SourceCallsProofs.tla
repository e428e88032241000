-------------------------- MODULE SourceCallsProofs --------------------------
(***************************************************************************)
(* Proofs about SourceCalls, for any tasks, answers and timeouts.          *)
(***************************************************************************)
EXTENDS SourceCalls, ListProofs, FiniteSetTheorems

-----------------------------------------------------------------------------
(* Calls.                                                                  *)

Values == UNION {Bodies(k) : k \in Kinds} \cup {Garbled, NoMember}

(* A call waits for its token at most TokenWait and for its answer at most *)
(* HTTPTimeout.                                                            *)
CallInTime(c) ==
    /\ c.stage = "token" =>
        c.since = c.began /\ c.began <= now /\ now <= c.began + TokenWait
    /\ c.stage = "http" =>
        /\ c.began <= c.since /\ c.since <= c.began + TokenWait
        /\ c.since <= now /\ now <= c.since + HTTPTimeout

(* It returns an error if and only if its last answer says nothing.        *)
CallIsTrue(c) ==
    /\ c.result.err <=> Outage(c)
    /\ c.kind = "affiliations" /\ ~c.result.err => c.result.value \in Bodies("affiliations")

CallInv == \A t \in Tasks : call[t] \in CallType /\ CallInTime(call[t]) /\ CallIsTrue(call[t])

AllBodies == UNION {Bodies(k) : k \in Kinds}
Read  == AllBodies \cup {Garbled}
Given == AllBodies \cup {Garbled, NoMember}

LEMMA CallTypeIs ==
    ASSUME NEW c
    PROVE  c \in CallType <=>
             c \in [stage : {"idle", "token", "http", "done"}, kind : Kinds,
                   began : Nat, since : Nat,
                   reply : [status : {"200", "404", "other", "none"}, body : Read],
                   result : [err : BOOLEAN, value : Given]]
<1>1. Statuses \cup {"none"} = {"200", "404", "other", "none"}
  BY DEF Statuses
<1>. QED  BY <1>1 DEF CallType, Read, Given, AllBodies

LEMMA NothingRead == Garbled \in Read /\ Garbled \in Given /\ NoMember \in Given
BY DEF Read, Given

LEMMA ReadIsGiven ==
    /\ Read \subseteq Given
    /\ \A k \in Kinds : Bodies(k) \subseteq Read
<1>1. ASSUME NEW k \in Kinds, NEW b \in Bodies(k) PROVE b \in AllBodies
  <2>1. Bodies(k) \in {Bodies(j) : j \in Kinds}
    BY Zenon
  <2>. QED  BY <2>1, Zenon DEF AllBodies
<1>2. \A k \in Kinds : Bodies(k) \subseteq AllBodies
  BY <1>1, Zenon
<1>. QED  BY <1>2 DEF Read, Given

(* A call before its answer says what an outage says.                      *)
LEMMA UnansweredIsGood ==
    ASSUME now \in Nat, NEW stage \in {"idle", "token", "http"}, NEW kind \in Kinds,
           NEW began \in {0, now}, stage = "idle" \/ began = now
    PROVE  LET c == [stage |-> stage, kind |-> kind, began |-> began, since |-> began,
                     reply |-> NoReply, result |-> Failure]
           IN  c \in CallType /\ CallInTime(c) /\ CallIsTrue(c)
<1>. DEFINE c == [stage |-> stage, kind |-> kind, began |-> began, since |-> began,
                  reply |-> NoReply, result |-> Failure]
<1>1. c \in CallType
  <2>1. NoReply \in [status : {"200", "404", "other", "none"}, body : Read]
    BY NothingRead DEF NoReply
  <2>2. Failure \in [err : BOOLEAN, value : Given]
    BY NothingRead DEF Failure
  <2>3. began \in Nat
    OBVIOUS
  <2>. QED  BY <2>1, <2>2, <2>3, CallTypeIs
<1>2. CallInTime(c)
  BY CallAssumption DEF CallInTime
<1>3. CallIsTrue(c)
  <2>1. Outage(c)
    BY DEF Outage, NoReply
  <2>2. c.result.err = TRUE
    BY DEF Failure
  <2>. QED  BY <2>1, <2>2 DEF CallIsTrue
<1>. QED  BY <1>1, <1>2, <1>3

(* A step of one task's call leaves the others alone.                      *)
Good(c) == c \in CallType /\ CallInTime(c) /\ CallIsTrue(c)

LEMMA OneCallKept ==
    ASSUME CallInv, UNCHANGED now, NEW t, NEW c, Good(c), call' = [call EXCEPT ![t] = c],
           call \in [Tasks -> CallType]
    PROVE  CallInv' /\ call' \in [Tasks -> CallType]
<1>1. ASSUME NEW u \in Tasks
      PROVE  call'[u] \in CallType /\ CallInTime(call[u])' /\ CallIsTrue(call[u])'
  <2>1. \A d : (CallInTime(d) <=> CallInTime(d)')
    BY DEF CallInTime
  <2>2. call'[u] = c \/ call'[u] = call[u]
    OBVIOUS
  <2>3. Good(call'[u])
    BY <2>2 DEF CallInv, Good
  <2>. QED  BY <2>3 DEF Good, CallInTime, CallIsTrue, Outage
<1>. QED  BY <1>1 DEF CallInv, Good

LEMMA NewIsGood ==
    ASSUME now \in Nat, NEW kind \in Kinds, NEW anon \in BOOLEAN
    PROVE  Good(NewCall(kind, anon)) /\ Good(Idle)
<1>1. Good(NewCall(kind, anon))
  <2>1. CASE anon
    BY <2>1, UnansweredIsGood DEF Good, NewCall
  <2>2. CASE ~anon
    BY <2>2, UnansweredIsGood DEF Good, NewCall
  <2>. QED  BY <2>1, <2>2
<1>2. Good(Idle)
  BY UnansweredIsGood DEF Good, Idle, Kinds
<1>. QED  BY <1>1, <1>2

(* Decoding returns an error for an outage and for nothing else.           *)
LEMMA DecodeIsTrue ==
    ASSUME NEW kind \in Kinds, NEW reply \in [status : Statuses, body : Read],
           reply.body \in Bodies(kind) \cup {Garbled}
    PROVE  LET r == Decode(kind, reply)
           IN  /\ r \in [err : BOOLEAN, value : Given]
               /\ r.err <=> \/ reply.status = "other"
                            \/ reply.status = "404" /\ kind # "resolve"
                            \/ reply.status = "200" /\ reply.body = Garbled
               /\ kind = "affiliations" /\ ~r.err => r.value \in Bodies("affiliations")
<1>. DEFINE r == Decode(kind, reply)
<1>. SUFFICES /\ r \in [err : BOOLEAN, value : Given]
              /\ r.err <=> (\/ reply.status = "other"
                            \/ reply.status = "404" /\ kind # "resolve"
                            \/ reply.status = "200" /\ reply.body = Garbled)
              /\ kind = "affiliations" /\ ~r.err => r.value \in Bodies("affiliations")
  OBVIOUS
<1>1. reply.body \in Given /\ Garbled \in Given /\ NoMember \in Given
  BY ReadIsGiven, NothingRead
<1>2. CASE reply.status = "200" /\ reply.body # Garbled
  <2>1. r = [err |-> FALSE, value |-> reply.body]
    BY <1>2 DEF Decode, Success
  <2>2. reply.body \in Bodies(kind)
    BY <1>2
  <2>. HIDE DEF r
  <2>. QED  BY <2>1, <2>2, <1>1, <1>2
<1>3. CASE reply.status = "404" /\ kind = "resolve"
  <2>1. r = [err |-> FALSE, value |-> NoMember]
    BY <1>3 DEF Decode, Success
  <2>. HIDE DEF r
  <2>. QED  BY <2>1, <1>1, <1>3
<1>4. CASE /\ ~(reply.status = "200" /\ reply.body # Garbled)
           /\ ~(reply.status = "404" /\ kind = "resolve")
  <2>1. r = [err |-> TRUE, value |-> Garbled]
    BY <1>4 DEF Decode, Failure
  <2>2. reply.status \in {"200", "404", "other"}
    BY DEF Statuses
  <2>. HIDE DEF r
  <2>. QED  BY <2>1, <2>2, <1>1, <1>4
<1>. QED  BY <1>2, <1>3, <1>4

LEMMA CallSteps ==
    ASSUME CallInv, now \in Nat, call \in [Tasks -> CallType], NEW t \in Tasks, CallStep(t)
    PROVE  \E c : /\ Good(c) /\ call' = [call EXCEPT ![t] = c] /\ UNCHANGED <<now, ended>>
                  /\ InCall(t) /\ c.kind = call[t].kind /\ c.stage \in {"http", "done"}
<1>. DEFINE b == call[t]
<1>1. /\ b.stage \in {"idle", "token", "http", "done"} /\ b.kind \in Kinds
      /\ b.began \in Nat /\ b.since \in Nat
      /\ b.reply \in [status : {"200", "404", "other", "none"}, body : Read]
      /\ b.result \in [err : BOOLEAN, value : Given]
      /\ b = [stage |-> b.stage, kind |-> b.kind, began |-> b.began, since |-> b.since,
              reply |-> b.reply, result |-> b.result]
      /\ CallInTime(b) /\ CallIsTrue(b)
  BY CallTypeIs DEF CallInv
<1>2. CASE GotToken(t)
  <2>. DEFINE c == [b EXCEPT !.stage = "http", !.since = now]
  <2>1. /\ c.stage = "http" /\ c.since = now /\ c.kind = b.kind /\ c.began = b.began
        /\ c.reply = b.reply /\ c.result = b.result
    BY <1>1
  <2>2. c \in CallType
    BY <1>1, CallTypeIs
  <2>3. CallInTime(c)
    BY <1>1, <1>2, <2>1, CallAssumption DEF CallInTime, GotToken, Stage
  <2>4. CallIsTrue(c)
    BY <1>1, <2>1 DEF CallIsTrue, Outage
  <2>5. call' = [call EXCEPT ![t] = c] /\ UNCHANGED <<now, ended>> /\ InCall(t)
    BY <1>2 DEF GotToken, Stage, InCall
  <2>. HIDE DEF c
  <2>. QED  BY <2>1, <2>2, <2>3, <2>4, <2>5 DEF Good
<1>3. ASSUME NEW reply \in [status : {"200", "404", "other", "none"}, body : Read],
             NEW result \in [err : BOOLEAN, value : Given],
             Returned(t, reply, result), UNCHANGED <<now, ended>>, InCall(t),
             result.err <=> \/ reply.status \in {"none", "other"}
                            \/ reply.status = "404" /\ b.kind # "resolve"
                            \/ reply.status = "200" /\ reply.body = Garbled,
             b.kind = "affiliations" /\ ~result.err => result.value \in Bodies("affiliations")
      PROVE  \E c : /\ Good(c) /\ call' = [call EXCEPT ![t] = c] /\ UNCHANGED <<now, ended>>
                    /\ InCall(t) /\ c.kind = b.kind /\ c.stage \in {"http", "done"}
  <2>. DEFINE c == [b EXCEPT !.stage = "done", !.began = 0, !.since = 0, !.reply = reply,
                             !.result = result]
  <2>1. /\ c.stage = "done" /\ c.since = 0 /\ c.kind = b.kind /\ c.began = 0
        /\ c.reply = reply /\ c.result = result
    BY <1>1
  <2>2. c \in CallType
    BY <1>1, CallTypeIs
  <2>3. call' = [call EXCEPT ![t] = c]
    BY <1>3 DEF Returned
  <2>. HIDE DEF c
  <2>4. CallInTime(c) /\ CallIsTrue(c)
    BY <1>3, <2>1 DEF CallInTime, CallIsTrue, Outage
  <2>. QED  BY <1>3, <2>1, <2>2, <2>3, <2>4 DEF Good
<1>4. CASE Answered(t)
  <2>1. PICK reply \in Replies(b.kind) : Returned(t, reply, Decode(b.kind, reply))
    BY <1>4 DEF Answered
  <2>2. /\ reply \in [status : Statuses, body : Bodies(b.kind) \cup {Garbled}]
        /\ reply.body \in Bodies(b.kind) \cup {Garbled}
    BY DEF Replies, Statuses
  <2>3. reply \in [status : Statuses, body : Read]
    BY <1>1, <2>2, NothingRead, ReadIsGiven
  <2>4. UNCHANGED <<now, ended>> /\ InCall(t)
    BY <1>4 DEF Answered, Stage, InCall
  <2>5. reply \in [status : {"200", "404", "other", "none"}, body : Read]
        /\ reply.status # "none"
    BY <2>3 DEF Statuses
  <2>. QED  BY <1>1, <1>3, <2>1, <2>2, <2>3, <2>4, <2>5, DecodeIsTrue
<1>5. CASE Fails(t)
  <2>1. NoReply \in [status : {"200", "404", "other", "none"}, body : Read]
        /\ NoReply.status = "none"
    BY NothingRead DEF NoReply
  <2>2. Failure \in [err : BOOLEAN, value : Given] /\ Failure.err = TRUE
    BY NothingRead DEF Failure
  <2>3. Returned(t, NoReply, Failure) /\ UNCHANGED <<now, ended>> /\ InCall(t)
    BY <1>5 DEF Fails
  <2>. QED  BY <1>3, <2>1, <2>2, <2>3
<1>. QED  BY <1>2, <1>4, <1>5 DEF CallStep

-----------------------------------------------------------------------------
(* Types, of the calls, the legs, the look-ups and the source itself.      *)

LegResults == [err : BOOLEAN, records : Given \cup {<<>>}]
Stages == {"off", "asking", "sending", "done"}

CallPart ==
    /\ now \in Nat /\ ended \in BOOLEAN
    /\ call \in [Tasks -> CallType] /\ CallInv

LegPart ==
    /\ anonymous \in BOOLEAN /\ hasUsername \in BOOLEAN
    /\ legCh \in [Legs -> Seq(LegResults)]
    /\ \A t \in Legs : Len(legCh[t]) <= LegCapacity
    /\ search \in [Searches -> {"off", "start", "skipping", "searching", "returned"}]
    /\ DOMAIN found = Searches /\ \A b \in Searches : found[b].err \in BOOLEAN

(* Only UIDs are on their way through the channel.                         *)
ListPart ==
    /\ resolver \in BOOLEAN
    /\ affiliations \in Lists \cup {<<>>}
    /\ lookup \in [Slugs -> [stage : Stages, answer : UIDs \cup {Blank}]]
    /\ \A s \in Slugs : lookup[s].stage = "sending" => lookup[s].answer \in UIDs
    /\ ch \in Seq([slug : Slugs, uid : UIDs]) /\ Len(ch) <= Cardinality(Slugs)

QueryPcs == {"start", "returned"}
CdpPcs == {"start", "resolving", "have_member", "fetching", "have_affiliations",
           "waiting", "returned"}

(* What is fetched is a list; the CDP source runs no search.               *)
PcPart ==
    /\ work \in {"search", "committee", "cdp_roles"} /\ output.err \in BOOLEAN
    /\ work # "cdp_roles" => pc \in QueryPcs
    /\ work = "cdp_roles" => pc \in CdpPcs /\ \A b \in Searches : search[b] = "off"
    /\ pc = "fetching" => call[Source].kind = "affiliations"

TypeInv == CallPart /\ LegPart /\ ListPart /\ PcPart

LEMMA TypeInvTypes == TypeInv => TypeOK
<1>. SUFFICES ASSUME TypeInv PROVE TypeOK
  OBVIOUS
<1>1. Range(ch) \subseteq [slug : Slugs, uid : UIDs]
  <2>1. ch \in Seq([slug : Slugs, uid : UIDs])
    BY DEF TypeInv, ListPart
  <2>. QED  BY <2>1, RangeOfList
<1>2. pc \in {"start", "resolving", "have_member", "fetching", "have_affiliations",
               "waiting", "returned"}
  BY DEF TypeInv, PcPart, QueryPcs, CdpPcs
<1>3. LegsType
  <2>1. LegPart
    BY DEF TypeInv
  <2>2. DOMAIN legCh = Legs
    BY <2>1 DEF LegPart
  <2>. QED  BY <2>1, <2>2 DEF LegPart, LegsType
<1>4. /\ now \in Nat /\ {ended, resolver} \subseteq BOOLEAN /\ call \in [Tasks -> CallType]
      /\ work \in {"search", "committee", "cdp_roles"} /\ output.err \in BOOLEAN
  BY DEF TypeInv, CallPart, ListPart, PcPart
<1>5. /\ affiliations \in Lists \cup {<<>>}
      /\ lookup \in [Slugs -> [stage : {"off", "asking", "sending", "done"},
                               answer : UIDs \cup {Blank}]]
      /\ Len(ch) <= Cardinality(Slugs)
  BY DEF TypeInv, ListPart, Stages
<1>. QED  BY <1>1, <1>2, <1>3, <1>4, <1>5 DEF TypeOK

LEMMA TypeInit == Init => TypeInv
<1>. SUFFICES ASSUME Init PROVE TypeInv
  OBVIOUS
<1>1. CallPart
  <2>1. now \in Nat /\ ended \in BOOLEAN /\ call = [t \in Tasks |-> Idle]
    BY DEF Init
  <2>2. Good(Idle)
    BY <2>1, NewIsGood DEF Kinds
  <2>. HIDE DEF Idle
  <2>. QED  BY <2>1, <2>2 DEF CallPart, CallInv, Good
<1>2. LegPart
  <2>1. anonymous \in BOOLEAN /\ hasUsername \in BOOLEAN
    <3>1. QueryOnly \subseteq BOOLEAN
      BY DEF QueryOnly
    <3>. QED  BY <3>1 DEF Init, LegsInit
  <2>2. legCh = [t \in Legs |-> <<>>] /\ \A t \in Legs : Len(legCh[t]) <= LegCapacity
    BY DEF Init, LegsInit, LegCapacity
  <2>3. search \in [Searches -> {"off", "start", "skipping", "searching", "returned"}]
    BY DEF Init, LegsInit
  <2>4. DOMAIN found = Searches /\ \A b \in Searches : found[b].err \in BOOLEAN
    BY DEF Init, LegsInit, Failed
  <2>. QED  BY <2>1, <2>2, <2>3, <2>4 DEF LegPart
<1>3. ListPart
  <2>1. Cardinality(Slugs) \in Nat
    BY AnswerAssumption, FS_CardinalityType
  <2>2. resolver \in BOOLEAN
    BY DEF Init
  <2>. QED  BY <2>1, <2>2 DEF Init, ListPart, NotAsked, Stages
<1>4. PcPart
  BY DEF Init, LegsInit, Run, PcPart, QueryPcs, CdpPcs, Failed
<1>. QED  BY <1>1, <1>2, <1>3, <1>4 DEF TypeInv

-----------------------------------------------------------------------------

(* A new call, and a call that is over, is of the types above.             *)
LEMMA CallPartKept ==
    ASSUME CallPart, UNCHANGED <<now, ended>>,
           \/ UNCHANGED call
           \/ \E t \in Tasks, kind \in Kinds : call' = [call EXCEPT ![t] = NewCall(kind, FALSE)]
           \/ \E t \in Tasks : call' = [call EXCEPT ![t] = Idle]
    PROVE  CallPart'
<1>1. CASE UNCHANGED call
  BY <1>1 DEF CallPart, CallInv, CallInTime, CallIsTrue, Outage
<1>2. ASSUME NEW t \in Tasks, NEW kind \in Kinds, call' = [call EXCEPT ![t] = NewCall(kind, FALSE)]
      PROVE  CallPart'
  <2>. DEFINE c == NewCall(kind, FALSE)
  <2>1. Good(c) /\ call' = [call EXCEPT ![t] = c]
    BY <1>2, NewIsGood DEF CallPart
  <2>2. PICK d : d = c
    OBVIOUS
  <2>3. CallInv' /\ call' \in [Tasks -> CallType]
    BY <2>1, <2>2, OneCallKept DEF CallPart
  <2>. QED  BY <2>3 DEF CallPart
<1>3. ASSUME NEW t \in Tasks, call' = [call EXCEPT ![t] = Idle] PROVE CallPart'
  <2>1. Good(Idle)
    BY NewIsGood DEF CallPart, Kinds
  <2>2. CallInv' /\ call' \in [Tasks -> CallType]
    BY <1>3, <2>1, OneCallKept DEF CallPart
  <2>. QED  BY <2>2 DEF CallPart
<1>. QED  BY <1>1, <1>2, <1>3

LEMMA CallsAreTyped == ASSUME TypeInv, NEW t \in Tasks, Calls(t) PROVE TypeInv'
<1>1. PICK c : /\ Good(c) /\ call' = [call EXCEPT ![t] = c] /\ UNCHANGED <<now, ended>>
               /\ InCall(t) /\ c.kind = call[t].kind /\ c.stage \in {"http", "done"}
  BY CallSteps DEF TypeInv, CallPart, Calls
<1>2. CallPart'
  BY <1>1, OneCallKept DEF TypeInv, CallPart
<1>3. UNCHANGED <<anonymous, hasUsername, pc, search, legCh, found, output, work, resolver, affiliations, lookup, ch>>
  BY DEF Calls, cdpVars, searchVars
<1>4. call'[Source].kind = call[Source].kind
  BY <1>1 DEF TypeInv, CallPart
<1>. QED  BY <1>2, <1>3, <1>4 DEF TypeInv, LegPart, ListPart, PcPart

(* The steps of sourceCDPRoles up to its affiliations.                     *)
LEMMA RefreshesAreTasks ==
    /\ Source \in Tasks /\ MemberRefresh \in Tasks /\ AffiliationsRefresh \in Tasks
    /\ Source \notin Detached /\ Source \notin Legs
    /\ Legs \subseteq Tasks /\ Legs \cap Detached = {}
    /\ MemberRefresh \in Detached /\ AffiliationsRefresh \in Detached
BY SourceAssumption, CallAssumption

(* No leg belongs to two searches.                                         *)
LEMMA LegsApart ==
    /\ \A b \in Searches : /\ LegsOf(b) \subseteq Legs /\ LegsOf(b) = {EmailLeg(b), UsernameLeg(b)}
                           /\ EmailLeg(b) # UsernameLeg(b)
                           /\ Asked(b) \subseteq LegsOf(b)
    /\ \A b, c \in Searches : b # c => LegsOf(b) \cap LegsOf(c) = {}
    /\ \A t \in Legs : \E b \in Searches : t \in LegsOf(b)
    /\ All \in Searches
<1>1. Board \in Searches /\ All \in Searches /\ \A b \in Searches : b = Board \/ b = All
  BY DEF Searches
<1>2. \A b \in Searches : EmailLeg(b) # UsernameLeg(b)
  BY SourceAssumption
<1>3. \A b, c \in Searches : b # c => LegsOf(b) \cap LegsOf(c) = {}
  BY SourceAssumption DEF LegsOf
<1>4. \A b \in Searches : LegsOf(b) \subseteq Legs
  BY <1>1 DEF Legs
<1>. QED  BY <1>1, <1>2, <1>3, <1>4 DEF Asked, LegsOf, Legs

LEMMA StartedCalls ==
    ASSUME NEW kind \in Kinds, NEW f \in {MemberRefresh, AffiliationsRefresh}, NEW next,
           Cached(kind, f, next) \/ Missed(kind, next)
    PROVE  /\ pc' \in {next}
           /\ \/ UNCHANGED call
              \/ \E t \in Tasks : call' = [call EXCEPT ![t] = NewCall(kind, FALSE)]
BY RefreshesAreTasks DEF Cached, Missed

(* What is returned is an error or is none.                                *)
LEMMA FoundIsNoError ==
    /\ Failed.err = TRUE /\ \A q : Found(q).err = FALSE
    /\ \A a, u : CDPRoles(a, u).err = FALSE
    /\ \A e, u : TwoLegs(e, u).err <=> e.err /\ u.err
<1>1. Failed.err = TRUE /\ \A q : Found(q).err = FALSE
  BY DEF Failed, Found
<1>2. ASSUME NEW a, NEW u PROVE CDPRoles(a, u).err = FALSE
  <2>1. \E q : CDPRoles(a, u) = Found(q)
    BY Zenon DEF CDPRoles
  <2>. QED  BY <1>1, <2>1
<1>3. ASSUME NEW e, NEW u PROVE TwoLegs(e, u).err <=> e.err /\ u.err
  BY <1>1 DEF TwoLegs
<1>. QED  BY <1>1, <1>2, <1>3

LEMMA LookupsAreTyped ==
    ASSUME TypeInv,
           LookupMember \/ MemberResolved \/ LookupAffiliations \/ AffiliationsFetched
    PROVE  TypeInv'
<1>1. /\ UNCHANGED <<now, ended, work, anonymous, hasUsername, search, legCh, found, resolver, lookup, ch>>
      /\ CallPart /\ LegPart /\ ListPart /\ PcPart
  BY DEF LookupMember, MemberResolved, LookupAffiliations, AffiliationsFetched, fixed, sourceFixed, searchVars, TypeInv
<1>2. work = "cdp_roles"
  BY <1>1 DEF LookupMember, MemberResolved, LookupAffiliations, AffiliationsFetched,
              PcPart, QueryPcs
<1>3. LegPart'
  BY <1>1 DEF LegPart
<1>4. CallPart'
  <2>1. CASE MemberResolved \/ AffiliationsFetched
    BY <1>1, <2>1, CallPartKept DEF MemberResolved, AffiliationsFetched
  <2>2. \/ UNCHANGED call
        \/ \E t \in Tasks, kind \in Kinds : call' = [call EXCEPT ![t] = NewCall(kind, FALSE)]
        \/ MemberResolved \/ AffiliationsFetched
    BY StartedCalls DEF LookupMember, LookupAffiliations, Kinds
  <2>. QED  BY <1>1, <2>1, <2>2, CallPartKept
<1>5. ListPart'
  <2>1. affiliations' \in Lists \cup {<<>>}
    <3>1. CASE AffiliationsFetched
      <4>1. call[Source].kind = "affiliations" /\ CallIsTrue(call[Source])
        BY <1>1, <3>1, RefreshesAreTasks DEF AffiliationsFetched, PcPart, CallPart, CallInv
      <4>. QED  BY <1>1, <3>1, <4>1, AnswerAssumption
                DEF AffiliationsFetched, CallIsTrue, ListPart
    <3>2. CASE LookupMember \/ MemberResolved \/ LookupAffiliations
      BY <1>1, <3>2 DEF LookupMember, MemberResolved, LookupAffiliations, ListPart
    <3>. QED  BY <3>1, <3>2
  <2>. QED  BY <1>1, <2>1 DEF ListPart
<1>6. PcPart'
  <2>1. output'.err \in BOOLEAN
    BY <1>1, FoundIsNoError DEF PcPart, LookupMember, MemberResolved, LookupAffiliations,
                AffiliationsFetched, Return
  <2>2. pc' \in CdpPcs
    BY StartedCalls DEF CdpPcs, Kinds, LookupMember, MemberResolved, LookupAffiliations,
       AffiliationsFetched, Return
  <2>3. pc' = "fetching" => call'[Source].kind = "affiliations"
    BY <1>1, RefreshesAreTasks DEF LookupMember, MemberResolved, LookupAffiliations,
       AffiliationsFetched, Cached, Missed, Return, NewCall, CallPart
  <2>. QED  BY <1>1, <1>2, <2>1, <2>2, <2>3 DEF PcPart
<1>. QED  BY <1>3, <1>4, <1>5, <1>6 DEF TypeInv

-----------------------------------------------------------------------------

LEMMA UniqueIsFinite ==
    ASSUME ListPart
    PROVE  /\ Unique \subseteq Slugs /\ NoSlug \notin Unique
           /\ Cardinality(Unique) \in Nat /\ Cardinality(Unique) <= Cardinality(Slugs)
           /\ Cardinality(Slugs) \in Nat
<1>1. ASSUME NEW a \in Range(affiliations) PROVE a.slug \in Slugs
  <2>1. affiliations \in Lists
    BY DEF ListPart, Range
  <2>. QED  BY <2>1 DEF Slugs
<1>2. Unique \subseteq Slugs /\ NoSlug \notin Unique
  BY <1>1 DEF Unique
<1>. QED  BY <1>2, AnswerAssumption, FS_Subset, FS_CardinalityType

(* The steps of resolveSlugsToUIDs.                                        *)
LEMMA ResolutionIsTyped ==
    ASSUME TypeInv,
           \/ NothingToResolve \/ FanOut \/ Convert
           \/ \E s \in Slugs : SlugAnswered(s) \/ SlugUnknown(s) \/ SendUID(s)
    PROVE  TypeInv'
<1>1. /\ UNCHANGED <<now, ended, work, anonymous, hasUsername, search, legCh, found, resolver, call, affiliations>>
      /\ CallPart /\ LegPart /\ ListPart /\ PcPart
  BY DEF NothingToResolve, FanOut, Convert, SlugAnswered, SlugUnknown, SendUID, fixed, sourceFixed, searchVars, TypeInv
<1>2. CallPart' /\ LegPart'
  BY <1>1, CallPartKept DEF LegPart
<1>3. ListPart'
  <2>1. CASE NothingToResolve
    BY <1>1, <2>1 DEF NothingToResolve, ListPart
  <2>2. CASE FanOut
    <3>1. ASSUME NEW s \in Slugs
          PROVE  lookup'[s] \in [stage : Stages, answer : UIDs \cup {Blank}]
                 /\ lookup'[s].stage # "sending"
      BY <2>2 DEF FanOut, NotAsked, Stages
    <3>2. lookup' \in [Slugs -> [stage : Stages, answer : UIDs \cup {Blank}]]
      BY <2>2, <3>1 DEF FanOut
    <3>. QED  BY <1>1, <2>2, <3>1, <3>2 DEF FanOut, ListPart
  <2>3. CASE Convert
    <3>1. ch' = <<>> /\ UNCHANGED lookup
      BY <2>3 DEF Convert
    <3>. QED  BY <1>1, <3>1, UniqueIsFinite DEF ListPart
  <2>4. ASSUME NEW s \in Slugs, SlugAnswered(s) PROVE ListPart'
    BY <1>1, <2>4 DEF SlugAnswered, ListPart, Stages
  <2>5. ASSUME NEW s \in Slugs, SlugUnknown(s) PROVE ListPart'
    BY <1>1, <2>5 DEF SlugUnknown, ListPart, Stages
  <2>6. ASSUME NEW s \in Slugs, SendUID(s) PROVE ListPart'
    <3>1. Result(s) \in [slug : Slugs, uid : UIDs]
      BY <1>1, <2>6 DEF SendUID, ListPart, Result
    <3>2. ch' = Append(ch, Result(s)) /\ Len(ch) < Cardinality(Unique)
      BY <2>6 DEF SendUID, ChannelCapacity
    <3>3. ch' \in Seq([slug : Slugs, uid : UIDs]) /\ Len(ch') <= Cardinality(Slugs)
      BY <1>1, <3>1, <3>2, UniqueIsFinite DEF ListPart
    <3>. QED  BY <1>1, <2>6, <3>3 DEF SendUID, ListPart, Stages
  <2>. QED  BY <2>1, <2>2, <2>3, <2>4, <2>5, <2>6
<1>4. PcPart'
  <2>1. output'.err \in BOOLEAN
    <3>1. CASE NothingToResolve \/ Convert
      <4>1. \E u : output' = CDPRoles(affiliations, u)
        BY <3>1, Zenon DEF NothingToResolve, Convert, Return
      <4>. QED  BY <4>1, FoundIsNoError
    <3>2. CASE FanOut \/ \E s \in Slugs : SlugAnswered(s) \/ SlugUnknown(s) \/ SendUID(s)
      BY <1>1, <3>2 DEF PcPart, FanOut, SlugAnswered, SlugUnknown, SendUID
    <3>. QED  BY <3>1, <3>2
  <2>2. /\ pc' \in {pc, "waiting", "returned"}
        /\ pc' = "waiting" => work = "cdp_roles"
    BY <1>1 DEF NothingToResolve, FanOut, Convert, SlugAnswered, SlugUnknown, SendUID, Return,
                PcPart, QueryPcs
  <2>. QED  BY <1>1, <2>1, <2>2 DEF PcPart, QueryPcs, CdpPcs
<1>. QED  BY <1>2, <1>3, <1>4 DEF TypeInv

-----------------------------------------------------------------------------
(* The steps of a query source and its legs.                               *)

LEMMA CallsStarted ==
    ASSUME CallPart, UNCHANGED <<now, ended>>, NEW S, NEW kind \in Kinds, NEW anon \in BOOLEAN,
           call' = [t \in Tasks |-> IF t \in S THEN NewCall(kind, anon) ELSE call[t]]
    PROVE  CallPart'
<1>. DEFINE c == NewCall(kind, anon)
<1>1. Good(c) /\ call' = [t \in Tasks |-> IF t \in S THEN c ELSE call[t]]
  BY NewIsGood DEF CallPart
<1>. HIDE DEF c
<1>2. ASSUME NEW u \in Tasks
      PROVE  call'[u] \in CallType /\ CallInTime(call[u])' /\ CallIsTrue(call[u])'
  <2>1. \A d : (CallInTime(d) <=> CallInTime(d)')
    BY DEF CallInTime
  <2>2. call'[u] = c \/ call'[u] = call[u]
    BY <1>1
  <2>3. Good(call'[u])
    BY <1>1, <2>2 DEF CallPart, CallInv, Good
  <2>. QED  BY <2>3 DEF Good, CallInTime, CallIsTrue, Outage
<1>3. call' \in [Tasks -> CallType]
  BY <1>1, <1>2
<1>. QED  BY <1>2, <1>3 DEF CallPart, CallInv

LEMMA SentIsTyped ==
    ASSUME LegPart, NEW t \in Legs, NEW r \in LegResults, SendLeg(t, r),
           UNCHANGED <<anonymous, hasUsername, found>>,
           search' \in [Searches -> {"off", "start", "skipping", "searching", "returned"}]
    PROVE  LegPart'
BY DEF LegPart, SendLeg, LegCapacity

LEMMA SearchIsTyped ==
    ASSUME TypeInv, NEW b \in Searches, Searching(b)
    PROVE  TypeInv'
<1>1. /\ UNCHANGED <<now, ended, work, pc, output, anonymous, hasUsername, resolver,
                     affiliations, lookup, ch>>
      /\ SearchStep(b) /\ CallPart /\ LegPart /\ ListPart /\ PcPart
  BY DEF Searching, SearchStep, StartLegs, SkipUsernameLeg, JoinLegs, sourceFixed, cdpVars, TypeInv
<1>2. ListPart'
  BY <1>1 DEF ListPart
<1>3. /\ search' = [search EXCEPT ![b] = search'[b]]
      /\ search'[b] \in {"skipping", "searching", "returned"} /\ search[b] # "off"
  BY <1>1 DEF SearchStep, StartLegs, SkipUsernameLeg, JoinLegs, LegPart
<1>4. PcPart'
  <2>1. work # "cdp_roles"
    BY <1>1, <1>3 DEF PcPart
  <2>2. pc' = "fetching" => call'[Source].kind = "affiliations"
    BY <1>1, <2>1 DEF PcPart, QueryPcs
  <2>. QED  BY <1>1, <2>1, <2>2 DEF PcPart
<1>5. search' \in [Searches -> {"off", "start", "skipping", "searching", "returned"}]
  BY <1>1, <1>3 DEF LegPart
<1>6. CASE StartLegs(b)
  <2>1. CallPart'
    BY <1>1, <1>6, CallsStarted DEF StartLegs, Kinds, LegPart
  <2>2. LegPart'
    BY <1>1, <1>5, <1>6 DEF StartLegs, LegPart
  <2>. QED  BY <1>2, <1>4, <2>1, <2>2 DEF TypeInv
<1>7. CASE SkipUsernameLeg(b)
  <2>1. CallPart'
    BY <1>1, <1>7, CallPartKept DEF SkipUsernameLeg
  <2>2. Found(<<>>) \in LegResults
    BY DEF Found, LegResults
  <2>3. LegPart'
    BY <1>1, <1>5, <1>7, <2>2, SentIsTyped, LegsApart DEF SkipUsernameLeg
  <2>. QED  BY <1>2, <1>4, <2>1, <2>3 DEF TypeInv
<1>8. CASE JoinLegs(b)
  <2>1. CallPart'
    BY <1>1, <1>8, CallPartKept DEF JoinLegs
  <2>2. ASSUME NEW t \in LegsOf(b)
        PROVE  /\ Head(legCh[t]) \in LegResults
               /\ legCh'[t] \in Seq(LegResults) /\ Len(legCh'[t]) <= LegCapacity
    <3>1. /\ legCh[t] \in Seq(LegResults) /\ Len(legCh[t]) <= LegCapacity
          /\ legCh[t] # <<>> /\ legCh'[t] = Tail(legCh[t])
      BY <1>1, <1>8, LegsApart, Zenon DEF JoinLegs, LegPart
    <3>. QED  BY <3>1 DEF LegCapacity
  <2>3. \A t \in Legs : legCh'[t] \in Seq(LegResults) /\ Len(legCh'[t]) <= LegCapacity
    <3>1. \A t \in Legs \ LegsOf(b) : legCh'[t] = legCh[t]
      BY <1>8 DEF JoinLegs
    <3>. QED  BY <1>1, <2>2, <3>1 DEF LegPart
  <2>4. found'[b].err \in BOOLEAN
    <3>. DEFINE e == Head(legCh[EmailLeg(b)])
                u == Head(legCh[UsernameLeg(b)])
    <3>1. found'[b] = TwoLegs(e, u)
      BY <1>1, <1>8 DEF JoinLegs, LegPart
    <3>. HIDE DEF e, u
    <3>2. TwoLegs(e, u).err = TRUE \/ TwoLegs(e, u).err = FALSE
      BY FoundIsNoError, Zenon DEF TwoLegs, Failed
    <3>. QED  BY <3>1, <3>2
  <2>5. \A c \in Searches : c # b => found'[c] = found[c]
    BY <1>8 DEF JoinLegs
  <2>6. DOMAIN found' = Searches /\ \A c \in Searches : found'[c].err \in BOOLEAN
    BY <1>1, <1>8, <2>4, <2>5 DEF JoinLegs, LegPart
  <2>7. legCh' \in [Legs -> Seq(LegResults)]
    BY <1>8, <2>3 DEF JoinLegs
  <2>8. LegPart'
    BY <1>1, <1>5, <2>3, <2>6, <2>7 DEF LegPart
  <2>. QED  BY <1>2, <1>4, <2>1, <2>8 DEF TypeInv
<1>. QED  BY <1>1, <1>6, <1>7, <1>8 DEF SearchStep

(* What a query source returns is an error or none.                        *)
LEMMA QueryIsTyped ==
    ASSUME TypeInv, QueryStep, UNCHANGED cdpVars
    PROVE  TypeInv'
<1>1. /\ UNCHANGED <<now, ended, call, work, anonymous, hasUsername, legCh, found, resolver,
                     affiliations, lookup, ch>>
      /\ work # "cdp_roles" /\ pc' = "returned"
      /\ CallPart /\ LegPart /\ ListPart /\ PcPart
  BY DEF QueryStep, NothingToSearch, ReturnSearch, JoinBranches, Return, sourceFixed, searchVars,
         cdpVars, TypeInv
<1>2. CallPart'
  BY <1>1, CallPartKept
<1>3. LegPart'
  <2>1. search' \in [Searches -> {"off", "start", "skipping", "searching", "returned"}]
    BY <1>1 DEF QueryStep, NothingToSearch, ReturnSearch, JoinBranches, searchVars, LegPart
  <2>. QED  BY <1>1, <2>1 DEF LegPart
<1>4. output'.err \in BOOLEAN
  <2>1. \/ \E q : output' = Found(q)
        \/ output' = found[All]
    BY Zenon DEF QueryStep, NothingToSearch, ReturnSearch, JoinBranches, Return
  <2>. QED  BY <1>1, <2>1, FoundIsNoError, LegsApart DEF LegPart
<1>. QED  BY <1>1, <1>2, <1>3, <1>4 DEF TypeInv, ListPart, PcPart, QueryPcs

LEMMA LegReturnIsTyped ==
    ASSUME TypeInv, NEW t \in Legs, SendLegResult(t)
    PROVE  TypeInv'
<1>1. /\ UNCHANGED <<now, ended, work, pc, output, anonymous, hasUsername, search, found, resolver,
                     affiliations, lookup, ch>>
      /\ CallPart /\ LegPart /\ ListPart /\ PcPart
      /\ t \in Tasks /\ t # Source
  BY RefreshesAreTasks DEF SendLegResult, LegReturns, sourceFixed, cdpVars, TypeInv
<1>. DEFINE b == call[t]
            c == [b EXCEPT !.stage = "idle"]
<1>2. /\ b.stage \in {"idle", "token", "http", "done"} /\ b.kind \in Kinds
      /\ b.began \in Nat /\ b.since \in Nat
      /\ b.reply \in [status : {"200", "404", "other", "none"}, body : Read]
      /\ b.result \in [err : BOOLEAN, value : Given]
      /\ b = [stage |-> b.stage, kind |-> b.kind, began |-> b.began, since |-> b.since,
              reply |-> b.reply, result |-> b.result]
      /\ CallIsTrue(b)
  BY <1>1, CallTypeIs DEF CallPart, CallInv
<1>3. Good(c)
  <2>1. /\ c.stage = "idle" /\ c.kind = b.kind /\ c.reply = b.reply /\ c.result = b.result
    BY <1>2
  <2>2. c \in CallType
    BY <1>2, CallTypeIs
  <2>. HIDE DEF c
  <2>3. CallInTime(c) /\ CallIsTrue(c)
    BY <1>2, <2>1 DEF CallInTime, CallIsTrue, Outage
  <2>. QED  BY <2>2, <2>3 DEF Good
<1>4. call' = [call EXCEPT ![t] = c]
  BY DEF SendLegResult, LegReturns
<1>5. CallPart'
  <2>. HIDE DEF c
  <2>1. CallInv' /\ call' \in [Tasks -> CallType]
    BY <1>1, <1>3, <1>4, OneCallKept DEF CallPart
  <2>. QED  BY <1>1, <2>1 DEF CallPart
<1>6. LegPart'
  <2>. DEFINE r == IF b.result.err THEN Failed ELSE Found(b.result.value)
  <2>1. r \in LegResults
    <3>1. Failed \in LegResults
      BY DEF Failed, LegResults
    <3>2. Found(b.result.value) \in LegResults
      BY <1>2 DEF Found, LegResults
    <3>. QED  BY <3>1, <3>2
  <2>2. SendLeg(t, r)
    BY DEF SendLegResult, LegReturns
  <2>. HIDE DEF r
  <2>3. search' \in [Searches -> {"off", "start", "skipping", "searching", "returned"}]
    BY <1>1 DEF LegPart
  <2>. QED  BY <1>1, <2>1, <2>2, <2>3, SentIsTyped
<1>7. ListPart'
  BY <1>1 DEF ListPart
<1>8. PcPart'
  <2>1. call'[Source].kind = call[Source].kind
    BY <1>1, <1>4, RefreshesAreTasks DEF CallPart
  <2>. QED  BY <1>1, <2>1 DEF PcPart
<1>. QED  BY <1>5, <1>6, <1>7, <1>8 DEF TypeInv

-----------------------------------------------------------------------------

LEMMA RefreshEndIsTyped ==
    ASSUME TypeInv, NEW f \in Detached, RefreshEnds(f)
    PROVE  TypeInv'
<1>1. /\ UNCHANGED <<now, ended, work, anonymous, hasUsername, search, legCh, found, resolver, pc,
                     affiliations, lookup, ch, output>>
      /\ CallPart /\ LegPart /\ ListPart /\ PcPart
      /\ f \in Tasks /\ f # Source /\ call' = [call EXCEPT ![f] = Idle]
  BY RefreshesAreTasks, CallAssumption DEF RefreshEnds, fixed, sourceFixed, searchVars, TypeInv
<1>2. CallPart'
  BY <1>1, CallPartKept
<1>3. call'[Source].kind = call[Source].kind
  BY <1>1, RefreshesAreTasks DEF CallPart
<1>. QED  BY <1>1, <1>2, <1>3 DEF TypeInv, LegPart, ListPart, PcPart

(* The time passes only as long as no call has to end.                     *)
LEMMA TimeIsTyped ==
    ASSUME TypeInv, EndContext \/ Tick
    PROVE  TypeInv'
<1>1. /\ UNCHANGED <<call, work, anonymous, hasUsername, search, legCh, found, resolver, pc, affiliations,
                     lookup, ch, output>>
      /\ CallPart /\ LegPart /\ ListPart /\ PcPart
  BY DEF EndContext, Tick, cdpVars, searchVars, TypeInv
<1>2. CallPart'
  <2>1. CASE EndContext
    BY <1>1, <2>1 DEF EndContext, CallPart, CallInv, CallInTime, CallIsTrue, Outage
  <2>2. CASE Tick
    <3>1. ASSUME NEW t \in Tasks
          PROVE  call'[t] \in CallType /\ CallInTime(call[t])' /\ CallIsTrue(call[t])'
      <4>. DEFINE b == call[t]
      <4>1. b \in CallType /\ CallInTime(b) /\ CallIsTrue(b) /\ InTime(t) /\ now' = now + 1
        BY <1>1, <2>2 DEF Tick, CallPart, CallInv
      <4>2. b.began \in Nat /\ b.since \in Nat /\ now \in Nat
        BY <1>1, <4>1, CallTypeIs DEF CallPart
      <4>3. CallInTime(call[t])'
        BY <1>1, <4>1, <4>2, CallAssumption DEF CallInTime, InTime, Stage
      <4>. QED  BY <1>1, <4>1, <4>3 DEF CallIsTrue, Outage
    <3>. QED  BY <1>1, <2>2, <3>1 DEF Tick, CallPart, CallInv
  <2>. QED  BY <2>1, <2>2
<1>. QED  BY <1>1, <1>2 DEF TypeInv, LegPart, ListPart, PcPart

LEMMA TypeNext == TypeInv /\ [Next]_vars => TypeInv'
<1>. SUFFICES ASSUME TypeInv, [Next]_vars PROVE TypeInv'
  OBVIOUS
<1>1. CASE UNCHANGED vars
  <2>1. UNCHANGED <<now, ended, call, anonymous, hasUsername, pc, search, legCh, found, output, work, resolver,
                    affiliations, lookup, ch>>
    BY <1>1 DEF vars, legVars, cdpVars, searchVars
  <2>2. CallPart'
    BY <2>1, CallPartKept DEF TypeInv
  <2>. QED  BY <2>1, <2>2 DEF TypeInv, LegPart, ListPart, PcPart
<1>2. CASE Next
  BY <1>2, SearchIsTyped, QueryIsTyped, LookupsAreTyped, ResolutionIsTyped, CallsAreTyped, LegReturnIsTyped,
     RefreshEndIsTyped, TimeIsTyped DEF Next, SourceStep
<1>. QED  BY <1>1, <1>2

LEMMA TypeInvAlways == Spec => []TypeInv
BY TypeInit, TypeNext, PTL DEF Spec

(* Every variable of a source and its calls stays in its domain, whatever  *)
(* the services answer (the three clients and the source goroutines).      *)
THEOREM SourceTypes == Spec => []TypeOK
BY TypeInvAlways, TypeInvTypes, PTL

(* A background refresh, which has no context to end it, is over when the  *)
(* longest wait for a token and http.Client's timeout have passed          *)
(* (backgroundRefreshMemberID, backgroundRefreshAffiliations).             *)
THEOREM RefreshIsBounded == Spec => []RefreshEndsInTime
<1>1. TypeInv => RefreshEndsInTime
  <2>. SUFFICES ASSUME TypeInv, NEW f \in Detached, InCall(f)
                PROVE  now - call[f].began <= TokenWait + HTTPTimeout
    BY DEF RefreshEndsInTime
  <2>. DEFINE b == call[f]
  <2>1. b \in CallType /\ CallInTime(b) /\ now \in Nat /\ b.stage \in {"token", "http"}
    BY CallAssumption DEF TypeInv, CallPart, CallInv, InCall
  <2>2. b.began \in Nat /\ b.since \in Nat
    BY <2>1, CallTypeIs
  <2>. HIDE DEF b
  <2>3. now - b.began <= TokenWait + HTTPTimeout
    BY <2>1, <2>2, CallAssumption DEF CallInTime
  <2>. QED  BY <2>3 DEF b
<1>. QED  BY <1>1, TypeInvAlways, PTL

-----------------------------------------------------------------------------
(* Outages.  In the CDP source: no call is under way outside the two steps *)
(* that wait for one, and the source goes on only after a true answer.  In *)
(* a search: a leg has either not ended, or its result is in its channel   *)
(* and an error exactly if its last answer was an outage.                  *)

Quiet(c) == c.stage \notin {"token", "http"} /\ ~(c.stage = "done" /\ Outage(c))

CdpPart ==
    /\ pc \in {"start", "have_member", "have_affiliations", "waiting"} => Quiet(call[Source])
    /\ pc \in {"resolving", "fetching"} => call[Source].stage \in {"token", "http", "done"}
    /\ pc = "returned" =>
         /\ call[Source].stage \notin {"token", "http"}
         /\ output.err <=> call[Source].stage = "done" /\ Outage(call[Source])

LegRuns(t)  == call[t].stage # "idle" /\ Len(legCh[t]) = 0
LegEnded(t) == call[t].stage = "idle" /\ Len(legCh[t]) = 1
               /\ (legCh[t][1].err <=> Outage(call[t]))

BothOut(b) == hasUsername /\ \A t \in LegsOf(b) : Outage(call[t])

LegsWait(b) ==
    /\ \A t \in Asked(b) : LegRuns(t) \/ LegEnded(t)
    /\ ~hasUsername => call[UsernameLeg(b)].stage = "idle"

OneSearch(b) ==
    /\ search[b] \in {"off", "start", "returned"} =>
         \A t \in LegsOf(b) : call[t].stage = "idle" /\ Len(legCh[t]) = 0
    /\ search[b] \in {"skipping", "searching"} => LegsWait(b)
    /\ search[b] = "skipping" => ~hasUsername /\ Len(legCh[UsernameLeg(b)]) = 0
    /\ search[b] = "searching" /\ ~hasUsername =>
         Len(legCh[UsernameLeg(b)]) = 1 /\ legCh[UsernameLeg(b)][1].err = FALSE
    /\ search[b] = "returned" => (found[b].err <=> BothOut(b))

SearchPart == \A b \in Searches : OneSearch(b)

(* What the query sources make of what their searches return.              *)
QueryPart ==
    pc = "returned" =>
        /\ work = "committee" => output.err = FALSE
        /\ work = "search" => search[All] \in {"off", "returned"} /\ (output.err <=> BothOut(All))

OutageInv ==
    /\ work = "cdp_roles" => CdpPart
    /\ work # "cdp_roles" => QueryPart
    /\ SearchPart

LEMMA OutageInvShows == TypeInv /\ OutageInv => ErrorTellsOutage
BY DEF TypeInv, PcPart, OutageInv, CdpPart, QueryPart, BothOut, ErrorTellsOutage, Stage

LEMMA OutageInit == Init => OutageInv
<1>. SUFFICES ASSUME Init PROVE OutageInv
  OBVIOUS
<1>1. \A t \in Tasks : call[t].stage = "idle"
  BY DEF Init, Idle
<1>2. pc = "start" /\ \A t \in Legs : Len(legCh[t]) = 0
  BY DEF Init, LegsInit
<1>3. \A b \in Searches : search[b] \in {"off", "start"}
  BY DEF Init, LegsInit
<1>4. SearchPart
  BY <1>1, <1>2, <1>3, RefreshesAreTasks, LegsApart DEF SearchPart, OneSearch
<1>. QED  BY <1>1, <1>2, <1>4, RefreshesAreTasks DEF OutageInv, CdpPart, QueryPart, Quiet

(* A search is left alone by what leaves its legs and its result alone.    *)
LEMMA OneSearchKept ==
    ASSUME NEW b \in Searches, OneSearch(b), UNCHANGED hasUsername,
           search'[b] = search[b], found'[b] = found[b],
           \A t \in LegsOf(b) : call'[t] = call[t] /\ legCh'[t] = legCh[t]
    PROVE  OneSearch(b)'
<1>1. Asked(b)' = Asked(b) /\ Asked(b) \subseteq LegsOf(b) /\ UsernameLeg(b) \in LegsOf(b)
  BY DEF Asked, LegsOf
<1>2. \A t \in LegsOf(b) : /\ (LegRuns(t)' <=> LegRuns(t)) /\ (LegEnded(t)' <=> LegEnded(t))
                           /\ (Outage(call[t])' <=> Outage(call[t]))
  BY DEF LegRuns, LegEnded, Outage
<1>3. LegsWait(b) => LegsWait(b)'
  BY <1>1, <1>2 DEF LegsWait
<1>4. BothOut(b)' <=> BothOut(b)
  BY <1>2 DEF BothOut
<1>. QED  BY <1>1, <1>3, <1>4 DEF OneSearch

LEMMA SearchesKept ==
    ASSUME SearchPart, UNCHANGED <<hasUsername, search, found>>,
           \A t \in Legs : call'[t] = call[t] /\ legCh'[t] = legCh[t]
    PROVE  SearchPart'
BY OneSearchKept, LegsApart DEF SearchPart

LEMMA QueryKept ==
    ASSUME QueryPart, UNCHANGED <<work, hasUsername, pc, output>>,
           pc = "returned" => search'[All] = search[All],
           pc = "returned" /\ work = "search" => \A t \in LegsOf(All) : call'[t] = call[t]
    PROVE  QueryPart'
<1>. SUFFICES ASSUME pc = "returned", work = "search" PROVE BothOut(All)' <=> BothOut(All)
  BY DEF QueryPart
<1>. QED  BY DEF BothOut, Outage

(* The CDP source has no legs to wait for.                                 *)
LEMMA NoLegsInCdp ==
    ASSUME TypeInv, OutageInv, work = "cdp_roles"
    PROVE  \A t \in Legs : call[t].stage = "idle"
BY LegsApart DEF TypeInv, PcPart, OutageInv, SearchPart, OneSearch

(* The answer of a call, taken for what it is.                             *)
LEMMA SourceCallIsTrue ==
    ASSUME TypeInv, NEW t \in Tasks
    PROVE  call[t].result.err <=> Outage(call[t])
BY DEF TypeInv, CallPart, CallInv, CallIsTrue

LEMMA OutageInSource ==
    ASSUME TypeInv, OutageInv,
           \/ LookupMember \/ MemberResolved \/ LookupAffiliations \/ AffiliationsFetched
           \/ NothingToResolve \/ FanOut \/ Convert
    PROVE  OutageInv'
<1>1. /\ work = "cdp_roles" /\ UNCHANGED <<work, hasUsername, search, legCh, found>>
      /\ CdpPart /\ SearchPart /\ call \in [Tasks -> CallType]
  BY DEF LookupMember, MemberResolved, LookupAffiliations, AffiliationsFetched,
         NothingToResolve, FanOut, Convert, TypeInv, PcPart, CallPart, QueryPcs, OutageInv, fixed,
         sourceFixed, searchVars
<1>2. Source \in Tasks /\ MemberRefresh # Source /\ AffiliationsRefresh # Source
      /\ \A t \in Legs : t # Source /\ t # MemberRefresh /\ t # AffiliationsRefresh /\ t \in Tasks
  BY RefreshesAreTasks, SourceAssumption
<1>4. \A t \in Legs : call'[t] = call[t]
  BY <1>1, <1>2 DEF LookupMember, MemberResolved, LookupAffiliations, AffiliationsFetched,
         NothingToResolve, FanOut, Convert, Cached, Missed
<1>3. SUFFICES CdpPart'
  <2>1. SearchPart'
    BY <1>1, <1>4, SearchesKept
  <2>. QED  BY <1>1, <1>3, <2>1 DEF OutageInv
<1>5. CASE LookupMember \/ LookupAffiliations
  <2>1. \/ call'[Source] = call[Source] /\ pc' \in {"have_member", "have_affiliations"}
        \/ call'[Source].stage = "token" /\ pc' \in {"resolving", "fetching"}
    BY <1>1, <1>2, <1>5 DEF LookupMember, LookupAffiliations, Cached, Missed, NewCall
  <2>2. Quiet(call[Source])
    BY <1>1, <1>5 DEF LookupMember, LookupAffiliations, CdpPart
  <2>. QED  BY <1>1, <1>4, <2>1, <2>2 DEF CdpPart, Quiet, Outage
<1>6. CASE MemberResolved \/ AffiliationsFetched
  <2>1. /\ call[Source].stage = "done" /\ UNCHANGED call
        /\ \/ call[Source].result.err /\ pc' = "returned" /\ output'.err = TRUE
           \/ /\ ~call[Source].result.err
              /\ \/ pc' \in {"have_member", "have_affiliations"}
                 \/ pc' = "returned" /\ output'.err = FALSE
    BY <1>6, FoundIsNoError DEF MemberResolved, AffiliationsFetched, Stage, Return
  <2>2. call[Source].result.err <=> Outage(call[Source])
    BY <1>2, SourceCallIsTrue
  <2>. QED  BY <1>1, <1>4, <2>1, <2>2 DEF CdpPart, Quiet, Outage
<1>7. CASE NothingToResolve \/ FanOut \/ Convert
  <2>1. UNCHANGED call /\ Quiet(call[Source])
    BY <1>1, <1>7 DEF NothingToResolve, FanOut, Convert, CdpPart
  <2>2. pc' = "waiting" \/ (pc' = "returned" /\ output'.err = FALSE)
    <3>1. CASE FanOut
      BY <3>1 DEF FanOut
    <3>2. CASE NothingToResolve \/ Convert
      <4>1. pc' = "returned" /\ \E u : output' = CDPRoles(affiliations, u)
        BY <3>2, Zenon DEF NothingToResolve, Convert, Return
      <4>. QED  BY <4>1, FoundIsNoError
    <3>. QED  BY <1>7, <3>1, <3>2
  <2>. QED  BY <1>1, <1>4, <2>1, <2>2 DEF CdpPart, Quiet, Outage
<1>. QED  BY <1>5, <1>6, <1>7

LEMMA OneInChannel ==
    ASSUME NEW S, NEW q \in Seq(S), Len(q) <= 1, q # <<>>
    PROVE  Len(q) = 1 /\ Head(q) = q[1] /\ Len(Tail(q)) = 0
<1>1. Len(q) # 0 /\ Len(q) \in Nat
  OBVIOUS
<1>2. Len(q) = 1
  BY <1>1
<1>3. Len(Tail(q)) = Len(q) - 1 /\ Head(q) = q[1]
  OBVIOUS
<1>. QED  BY <1>2, <1>3

LEMMA OutageInSearch ==
    ASSUME TypeInv, OutageInv, NEW b \in Searches, Searching(b)
    PROVE  OutageInv'
<1>1. /\ UNCHANGED <<work, hasUsername, anonymous, pc, output>> /\ SearchPart
      /\ call \in [Tasks -> CallType] /\ LegPart /\ SearchStep(b)
  BY DEF Searching, SearchStep, StartLegs, SkipUsernameLeg, JoinLegs, TypeInv, CallPart, OutageInv,
         sourceFixed
<1>2. /\ LegsOf(b) = {EmailLeg(b), UsernameLeg(b)} /\ EmailLeg(b) # UsernameLeg(b)
      /\ LegsOf(b) \subseteq Legs /\ Legs \subseteq Tasks
      /\ Asked(b)' = Asked(b) /\ Asked(b) \subseteq LegsOf(b) /\ EmailLeg(b) \in Asked(b)
      /\ hasUsername => UsernameLeg(b) \in Asked(b)
      /\ ~hasUsername => UsernameLeg(b) \notin Asked(b)
      /\ \A t \in LegsOf(b) : t \in Asked(b) \/ (~hasUsername /\ t = UsernameLeg(b))
  BY <1>1, LegsApart, RefreshesAreTasks DEF Asked
<1>3. search[b] # "off" /\ OneSearch(b)
  BY <1>1 DEF SearchStep, StartLegs, SkipUsernameLeg, JoinLegs, SearchPart
<1>4. work # "cdp_roles" /\ (work = "search" /\ pc = "returned" => b # All)
  <2>1. work # "cdp_roles"
    BY <1>3 DEF TypeInv, PcPart
  <2>2. search[b] \in {"start", "skipping", "searching"}
    BY <1>1 DEF SearchStep, StartLegs, SkipUsernameLeg, JoinLegs
  <2>3. work = "search" /\ pc = "returned" => search[All] \in {"off", "returned"}
    BY <2>1 DEF OutageInv, QueryPart
  <2>. QED  BY <2>1, <2>2, <2>3
<1>5. ASSUME NEW c \in Searches, c # b
      PROVE  /\ search'[c] = search[c] /\ found'[c] = found[c]
             /\ \A t \in LegsOf(c) : call'[t] = call[t] /\ legCh'[t] = legCh[t]
  <2>1. LegsOf(c) \subseteq Legs /\ LegsOf(c) \subseteq Tasks /\ LegsOf(c) \cap LegsOf(b) = {}
        /\ LegsOf(c) \cap Asked(b) = {}
    BY <1>2, <1>5, LegsApart
  <2>2. CASE StartLegs(b)
    BY <2>1, <2>2, <1>5 DEF StartLegs
  <2>3. CASE SkipUsernameLeg(b)
    BY <1>1, <1>2, <2>1, <2>3, <1>5 DEF SkipUsernameLeg, SendLeg, LegPart
  <2>4. CASE JoinLegs(b)
    BY <2>1, <2>4, <1>5 DEF JoinLegs
  <2>. QED  BY <1>1, <2>2, <2>3, <2>4 DEF SearchStep
<1>6. QueryPart'
  <2>1. QueryPart
    BY <1>4 DEF OutageInv
  <2>2. CASE work = "search"
    <3>1. pc = "returned" =>
            search'[All] = search[All] /\ \A t \in LegsOf(All) : call'[t] = call[t]
      BY <1>4, <1>5, <2>2, LegsApart
    <3>. QED  BY <1>1, <2>1, <3>1, QueryKept
  <2>3. CASE work # "search"
    BY <1>1, <2>1, <2>3 DEF QueryPart
  <2>. QED  BY <2>2, <2>3
<1>7. SUFFICES OneSearch(b)'
  <2>1. \A c \in Searches : c # b => OneSearch(c)'
    BY <1>1, <1>5, OneSearchKept DEF SearchPart
  <2>. QED  BY <1>1, <1>4, <1>6, <1>7, <2>1 DEF OutageInv, SearchPart
<1>8. CASE StartLegs(b)
  <2>1. /\ search[b] = "start" /\ UNCHANGED legCh
        /\ search'[b] = IF hasUsername THEN "searching" ELSE "skipping"
        /\ \A t \in Legs : call'[t] = IF t \in Asked(b) THEN NewCall("search", anonymous) ELSE call[t]
    BY <1>1, <1>2, <1>8 DEF StartLegs, LegPart
  <2>2. \A t \in Asked(b) : call'[t].stage # "idle" /\ Len(legCh'[t]) = 0
    BY <1>2, <1>3, <2>1 DEF OneSearch, NewCall
  <2>3. ~hasUsername => call'[UsernameLeg(b)].stage = "idle" /\ Len(legCh'[UsernameLeg(b)]) = 0
    BY <1>2, <1>3, <2>1 DEF OneSearch
  <2>4. LegsWait(b)'
    BY <1>1, <1>2, <2>2, <2>3 DEF LegsWait, LegRuns
  <2>. QED  BY <1>1, <2>1, <2>3, <2>4 DEF OneSearch
<1>9. CASE SkipUsernameLeg(b)
  <2>1. search[b] = "skipping" /\ search'[b] = "searching" /\ ~hasUsername /\ UNCHANGED call
        /\ legCh' = [legCh EXCEPT ![UsernameLeg(b)] = Append(legCh[UsernameLeg(b)], Found(<<>>))]
        /\ Len(legCh[UsernameLeg(b)]) = 0
    BY <1>1, <1>3, <1>9 DEF SkipUsernameLeg, SendLeg, OneSearch, LegPart
  <2>2. Len(legCh'[UsernameLeg(b)]) = 1 /\ legCh'[UsernameLeg(b)][1].err = FALSE
    <3>. DEFINE f == Found(<<>>)
                q == legCh[UsernameLeg(b)]
    <3>1. f.err = FALSE /\ f \in LegResults
      BY DEF Found, LegResults
    <3>2. q \in Seq(LegResults) /\ Len(q) = 0 /\ legCh'[UsernameLeg(b)] = Append(q, f)
      BY <1>1, <1>2, <2>1 DEF LegPart
    <3>. HIDE DEF f, q
    <3>. QED  BY <3>1, <3>2
  <2>3. \A t \in Asked(b) : legCh'[t] = legCh[t] /\ call'[t] = call[t]
    BY <1>1, <1>2, <2>1 DEF LegPart
  <2>4. \A t \in Asked(b) : LegRuns(t)' \/ LegEnded(t)'
    BY <1>3, <2>1, <2>3 DEF OneSearch, LegsWait, LegRuns, LegEnded, Outage
  <2>5. LegsWait(b)'
    BY <1>1, <1>2, <1>3, <2>1, <2>4 DEF OneSearch, LegsWait
  <2>. QED  BY <1>1, <2>1, <2>2, <2>5 DEF OneSearch
<1>10. CASE JoinLegs(b)
  <2>. DEFINE e == Head(legCh[EmailLeg(b)])
              u == Head(legCh[UsernameLeg(b)])
  <2>1. /\ search[b] = "searching" /\ search'[b] = "returned" /\ UNCHANGED call
        /\ found'[b] = TwoLegs(e, u)
        /\ \A t \in Asked(b) : call[t].stage = "idle"
        /\ \A t \in LegsOf(b) : legCh'[t] = Tail(legCh[t]) /\ legCh[t] # <<>>
    BY <1>1, <1>2, <1>10 DEF JoinLegs, Stage, LegPart
  <2>2. ASSUME NEW t \in LegsOf(b)
        PROVE  /\ legCh[t] \in Seq(LegResults) /\ Len(legCh[t]) = 1 /\ Len(legCh'[t]) = 0
               /\ Head(legCh[t]) = legCh[t][1]
    <3>1. /\ legCh[t] \in Seq(LegResults) /\ Len(legCh[t]) <= LegCapacity
          /\ legCh[t] # <<>> /\ legCh'[t] = Tail(legCh[t])
      BY <1>1, <1>2, <2>1, Zenon DEF LegPart
    <3>2. PICK q : q = legCh[t]
      OBVIOUS
    <3>3. q \in Seq(LegResults) /\ Len(q) <= 1 /\ q # <<>>
      BY <3>1, <3>2 DEF LegCapacity
    <3>4. Len(q) = 1 /\ Head(q) = q[1] /\ Len(Tail(q)) = 0
      BY <3>3, OneInChannel
    <3>. QED  BY <3>1, <3>2, <3>3, <3>4
  <2>3. LegsWait(b) /\ (~hasUsername => legCh[UsernameLeg(b)][1].err = FALSE)
    BY <1>3, <2>1 DEF OneSearch
  <2>4. \A t \in Asked(b) : Head(legCh[t]).err <=> Outage(call[t])
    BY <1>2, <2>1, <2>2, <2>3 DEF LegsWait, LegEnded, LegRuns
  <2>5. \A t \in LegsOf(b) : call[t].stage = "idle"
    BY <1>2, <2>1, <2>3 DEF LegsWait
  <2>6. found'[b].err <=> BothOut(b)
    <3>1. found'[b].err <=> e.err /\ u.err
      BY <2>1, FoundIsNoError
    <3>2. e.err <=> Outage(call[EmailLeg(b)])
      BY <1>2, <2>4
    <3>3. hasUsername => (u.err <=> Outage(call[UsernameLeg(b)]))
      BY <1>2, <2>4
    <3>4. ~hasUsername => u.err = FALSE
      BY <1>2, <2>2, <2>3
    <3>. HIDE DEF e, u
    <3>. QED  BY <1>2, <3>1, <3>2, <3>3, <3>4 DEF BothOut
  <2>7. BothOut(b)' <=> BothOut(b)
    BY <1>1, <2>1 DEF BothOut, Outage
  <2>. QED  BY <1>1, <2>1, <2>2, <2>5, <2>6, <2>7 DEF OneSearch
<1>. QED  BY <1>1, <1>8, <1>9, <1>10 DEF SearchStep

(* A query source returns what its one search does; the committee source   *)
(* never an error.                                                         *)
LEMMA OutageInQuery ==
    ASSUME TypeInv, OutageInv, QueryStep, UNCHANGED cdpVars
    PROVE  OutageInv'
<1>1. /\ UNCHANGED <<work, hasUsername, call, legCh, found>> /\ work # "cdp_roles"
      /\ pc' = "returned" /\ SearchPart /\ LegPart /\ All \in Searches
  BY LegsApart DEF QueryStep, NothingToSearch, ReturnSearch, JoinBranches, Return, sourceFixed,
                   searchVars, OutageInv, TypeInv
<1>2. BothOut(All)' <=> BothOut(All)
  BY <1>1 DEF BothOut, Outage
<1>3. CASE NothingToSearch
  <2>1. /\ work = "search" /\ ~hasUsername /\ search[All] = "start" /\ search'[All] = "off"
        /\ \A c \in Searches : c # All => search'[c] = search[c]
        /\ output'.err = FALSE
    BY <1>1, <1>3, FoundIsNoError DEF NothingToSearch, Return, LegPart
  <2>2. \A c \in Searches : c # All => OneSearch(c)'
    BY <1>1, <2>1, OneSearchKept DEF SearchPart
  <2>3. OneSearch(All)'
    BY <1>1, <2>1 DEF SearchPart, OneSearch
  <2>4. QueryPart'
    BY <1>1, <2>1 DEF QueryPart, BothOut
  <2>. QED  BY <1>1, <2>2, <2>3, <2>4 DEF OutageInv, SearchPart
<1>4. CASE ReturnSearch
  <2>1. work = "search" /\ search[All] = "returned" /\ output' = found[All] /\ UNCHANGED search
    BY <1>4 DEF ReturnSearch, Return, searchVars
  <2>2. found[All].err <=> BothOut(All)
    BY <1>1, <2>1 DEF SearchPart, OneSearch
  <2>3. QueryPart'
    BY <1>1, <1>2, <2>1, <2>2 DEF QueryPart
  <2>. QED  BY <1>1, <2>1, <2>3, SearchesKept DEF OutageInv
<1>5. CASE JoinBranches
  <2>1. work = "committee" /\ output'.err = FALSE /\ UNCHANGED search
    BY <1>5, FoundIsNoError DEF JoinBranches, Return, searchVars
  <2>2. QueryPart'
    BY <1>1, <2>1 DEF QueryPart
  <2>. QED  BY <1>1, <2>1, <2>2, SearchesKept DEF OutageInv
<1>. QED  BY <1>3, <1>4, <1>5 DEF QueryStep

LEMMA OutageInLeg ==
    ASSUME TypeInv, OutageInv, NEW t \in Legs, SendLegResult(t)
    PROVE  OutageInv'
<1>1. /\ UNCHANGED <<work, hasUsername, pc, output, search, found>> /\ LegPart
      /\ call[t].stage = "done" /\ call \in [Tasks -> CallType] /\ t \in Tasks
      /\ call' = [call EXCEPT ![t].stage = "idle"]
      /\ work # "cdp_roles" /\ QueryPart /\ SearchPart
  BY RefreshesAreTasks, NoLegsInCdp
     DEF SendLegResult, LegReturns, sourceFixed, TypeInv, CallPart, OutageInv, Stage
<1>2. PICK b \in Searches : t \in LegsOf(b)
  BY LegsApart
<1>3. /\ search[b] \in {"skipping", "searching"} /\ LegsWait(b) /\ LegRuns(t) /\ t \in Asked(b)
  <2>1. search[b] \in {"skipping", "searching"} /\ LegsWait(b)
    BY <1>1, <1>2 DEF SearchPart, OneSearch, LegPart
  <2>2. t \in Asked(b)
    BY <1>1, <1>2, <2>1 DEF LegsWait, Asked, LegsOf
  <2>. QED  BY <1>1, <2>1, <2>2 DEF LegsWait, LegEnded
<1>. DEFINE r == IF call[t].result.err THEN Failed ELSE Found(call[t].result.value)
            c == [call[t] EXCEPT !.stage = "idle"]
<1>4. r.err <=> Outage(call[t])
  BY <1>1, SourceCallIsTrue, FoundIsNoError
<1>5. legCh' = [legCh EXCEPT ![t] = Append(legCh[t], r)] /\ Len(legCh[t]) = 0
  BY <1>3 DEF SendLegResult, LegReturns, SendLeg, LegRuns
<1>. HIDE DEF r
<1>6. LegEnded(t)'
  <2>1. legCh[t] \in Seq(LegResults) /\ DOMAIN legCh = Legs
    BY <1>1 DEF LegPart
  <2>2. legCh'[t] = Append(legCh[t], r)
    BY <1>5, <2>1
  <2>3. Len(legCh'[t]) = 1 /\ legCh'[t][1] = r
    BY <1>5, <2>1, <2>2
  <2>4. call'[t] = c
    BY <1>1
  <2>5. c.stage = "idle" /\ (Outage(c) <=> Outage(call[t]))
    <3>1. call[t] \in CallType
      BY <1>1
    <3>. QED  BY <3>1, CallTypeIs DEF Outage
  <2>6. Outage(c) <=> Outage(call[t])'
    BY <2>4 DEF Outage
  <2>. QED  BY <1>4, <2>3, <2>4, <2>5, <2>6 DEF LegEnded
<1>7. \A u \in Legs : u # t => call'[u] = call[u] /\ legCh'[u] = legCh[u]
  BY <1>1, <1>5 DEF LegPart
<1>8. OneSearch(b)'
  <2>1. /\ Asked(b)' = Asked(b) /\ Asked(b) \subseteq Legs /\ UsernameLeg(b) \in Legs
        /\ ~hasUsername => t # UsernameLeg(b)
    BY <1>1, <1>3, LegsApart DEF Asked
  <2>2. \A u \in Asked(b) : LegRuns(u)' \/ LegEnded(u)'
    BY <1>3, <1>6, <1>7, <2>1 DEF LegsWait, LegRuns, LegEnded, Outage
  <2>3. LegsWait(b)'
    BY <1>1, <1>3, <1>7, <2>1, <2>2 DEF LegsWait
  <2>. QED  BY <1>1, <1>2, <1>3, <1>7, <2>1, <2>3 DEF SearchPart, OneSearch
<1>9. ASSUME NEW d \in Searches, d # b PROVE OneSearch(d)'
  <2>1. \A u \in LegsOf(d) : u # t /\ u \in Legs
    BY <1>2, <1>9, LegsApart
  <2>2. \A u \in LegsOf(d) : call'[u] = call[u] /\ legCh'[u] = legCh[u]
    BY <1>7, <2>1
  <2>3. search'[d] = search[d] /\ found'[d] = found[d] /\ OneSearch(d)
    BY <1>1 DEF SearchPart
  <2>. QED  BY <1>1, <2>2, <2>3, OneSearchKept
<1>10. QueryPart'
  <2>1. pc = "returned" /\ work = "search" => b # All
    BY <1>1, <1>3 DEF QueryPart
  <2>2. pc = "returned" /\ work = "search" => \A u \in LegsOf(All) : call'[u] = call[u]
    <3>. SUFFICES ASSUME b # All PROVE \A u \in LegsOf(All) : call'[u] = call[u]
      BY <2>1
    <3>1. \A u \in LegsOf(All) : u # t /\ u \in Legs
      BY <1>2, LegsApart
    <3>. QED  BY <1>7, <3>1
  <2>. QED  BY <1>1, <2>2, QueryKept
<1>. QED  BY <1>1, <1>8, <1>9, <1>10 DEF OutageInv, SearchPart

LEMMA OutageInCall ==
    ASSUME TypeInv, OutageInv, NEW t \in Tasks, Calls(t)
    PROVE  OutageInv'
<1>1. PICK c : /\ Good(c) /\ call' = [call EXCEPT ![t] = c] /\ UNCHANGED <<now, ended>>
               /\ InCall(t) /\ c.kind = call[t].kind /\ c.stage \in {"http", "done"}
  BY CallSteps DEF TypeInv, CallPart, Calls
<1>2. /\ UNCHANGED <<hasUsername, pc, search, legCh, found, output, work>>
      /\ call \in [Tasks -> CallType]
      /\ call[t].stage \in {"token", "http"} /\ call'[t] = c
      /\ \A u \in Tasks : u # t => call'[u] = call[u]
  BY <1>1 DEF Calls, cdpVars, searchVars, InCall, TypeInv, CallPart
<1>3. Source \in Tasks /\ Legs \subseteq Tasks /\ Source \notin Legs /\ SearchPart
  BY RefreshesAreTasks DEF OutageInv
<1>4. ASSUME work = "cdp_roles" PROVE CdpPart'
  <2>1. CdpPart /\ pc \in CdpPcs
    BY <1>4 DEF OutageInv, TypeInv, PcPart
  <2>2. CASE t = Source
    <3>1. pc \in {"resolving", "fetching"}
      BY <1>2, <2>1, <2>2 DEF CdpPart, Quiet, CdpPcs
    <3>. QED  BY <1>1, <1>2, <2>1, <2>2, <3>1 DEF CdpPart
  <2>3. CASE t # Source
    <3>1. call'[Source] = call[Source]
      BY <1>2, <1>3, <2>3
    <3>. QED  BY <1>2, <2>1, <3>1 DEF CdpPart, Quiet, Outage
  <2>. QED  BY <2>2, <2>3
<1>5. CASE t \in Legs
  <2>1. work # "cdp_roles" /\ QueryPart
    BY <1>2, <1>5, NoLegsInCdp DEF OutageInv
  <2>2. PICK b \in Searches : t \in LegsOf(b)
    BY <1>5, LegsApart
  <2>3. /\ search[b] \in {"skipping", "searching"} /\ LegsWait(b) /\ LegRuns(t) /\ t \in Asked(b)
    <3>1. search[b] \in {"skipping", "searching"} /\ LegsWait(b)
      BY <1>2, <1>3, <2>2 DEF SearchPart, OneSearch, TypeInv, LegPart
    <3>2. t \in Asked(b)
      BY <1>2, <2>2, <3>1 DEF LegsWait, Asked, LegsOf
    <3>. QED  BY <1>2, <3>1, <3>2 DEF LegsWait, LegEnded
  <2>4. OneSearch(b)'
    <3>1. /\ Asked(b)' = Asked(b) /\ Asked(b) \subseteq Tasks /\ UsernameLeg(b) \in Tasks
          /\ ~hasUsername => t # UsernameLeg(b)
      BY <1>2, <1>3, <2>3, LegsApart DEF Asked
    <3>2. LegRuns(t)'
      BY <1>1, <1>2, <2>3 DEF LegRuns
    <3>3. \A u \in Asked(b) : LegRuns(u)' \/ LegEnded(u)'
      BY <1>2, <2>3, <3>1, <3>2 DEF LegsWait, LegRuns, LegEnded, Outage
    <3>4. LegsWait(b)'
      BY <1>2, <2>3, <3>1, <3>3 DEF LegsWait
    <3>. QED  BY <1>2, <1>3, <2>3, <3>1, <3>4 DEF SearchPart, OneSearch
  <2>5. ASSUME NEW d \in Searches, d # b PROVE OneSearch(d)'
    <3>1. \A u \in LegsOf(d) : u # t /\ u \in Tasks
      BY <1>3, <2>2, <2>5, LegsApart
    <3>2. \A u \in LegsOf(d) : call'[u] = call[u] /\ legCh'[u] = legCh[u]
      BY <1>2, <3>1
    <3>3. search'[d] = search[d] /\ found'[d] = found[d] /\ OneSearch(d)
      BY <1>2, <1>3 DEF SearchPart
    <3>. QED  BY <1>2, <3>2, <3>3, OneSearchKept
  <2>6. QueryPart'
    <3>1. pc = "returned" /\ work = "search" => b # All
      BY <2>1, <2>3 DEF QueryPart
    <3>2. pc = "returned" /\ work = "search" => \A u \in LegsOf(All) : call'[u] = call[u]
      <4>. SUFFICES ASSUME b # All PROVE \A u \in LegsOf(All) : call'[u] = call[u]
        BY <3>1
      <4>1. \A u \in LegsOf(All) : u # t /\ u \in Tasks
        BY <1>3, <2>2, LegsApart
      <4>. QED  BY <1>2, <4>1
    <3>. QED  BY <1>2, <2>1, <3>2, QueryKept
  <2>. QED  BY <1>2, <2>1, <2>4, <2>5, <2>6 DEF OutageInv, SearchPart
<1>6. CASE t \notin Legs
  <2>1. \A u \in Legs : call'[u] = call[u] /\ legCh'[u] = legCh[u]
    BY <1>2, <1>3, <1>6
  <2>2. SearchPart'
    BY <1>2, <1>3, <2>1, SearchesKept
  <2>3. work # "cdp_roles" => QueryPart'
    BY <1>2, <2>1, LegsApart, QueryKept DEF OutageInv
  <2>. QED  BY <1>2, <1>4, <2>2, <2>3 DEF OutageInv
<1>. QED  BY <1>5, <1>6

LEMMA OutageNext == TypeInv /\ OutageInv /\ [Next]_vars => OutageInv'
<1>. SUFFICES ASSUME TypeInv, OutageInv, [Next]_vars PROVE OutageInv'
  OBVIOUS
<1>1. ASSUME UNCHANGED <<work, pc, search, legCh, found, hasUsername, output>>,
             \A t \in Legs \cup {Source} : call'[t] = call[t]
      PROVE  OutageInv'
  <2>1. CdpPart => CdpPart'
    BY <1>1 DEF CdpPart, Quiet, Outage
  <2>2. SearchPart'
    BY <1>1, SearchesKept DEF OutageInv
  <2>3. QueryPart => QueryPart'
    BY <1>1, QueryKept, LegsApart
  <2>. QED  BY <1>1, <2>1, <2>2, <2>3 DEF OutageInv
<1>2. ASSUME NEW f \in Detached, RefreshEnds(f) PROVE OutageInv'
  <2>1. /\ UNCHANGED <<work, pc, search, legCh, found, hasUsername, output>>
        /\ call' = [call EXCEPT ![f] = Idle] /\ call \in [Tasks -> CallType]
    BY <1>2 DEF RefreshEnds, fixed, sourceFixed, searchVars, TypeInv, CallPart
  <2>2. \A t \in Legs \cup {Source} : call'[t] = call[t]
    BY <2>1, RefreshesAreTasks
  <2>. QED  BY <1>1, <2>1, <2>2
<1>3. CASE \/ UNCHANGED vars \/ EndContext \/ Tick
           \/ \E s \in Slugs : SlugAnswered(s) \/ SlugUnknown(s) \/ SendUID(s)
  BY <1>1, <1>3 DEF vars, legVars, cdpVars, searchVars, EndContext, Tick, SlugAnswered, SlugUnknown,
                    SendUID, fixed, sourceFixed
<1>. QED  BY <1>2, <1>3, OutageInSearch, OutageInQuery, OutageInSource, OutageInLeg, OutageInCall
          DEF Next, SourceStep

(* Which outages a source tells of: the CDP source all those of its first  *)
(* two steps, the other query sources those of both legs at once, the      *)
(* committee source none; and no source returns an error without an outage *)
(* (the error returns of sourceCDPRoles, ResolveMember, GetProject-        *)
(* Affiliations, Search, the legs and sourceBoardMemberAndCommittee).      *)
THEOREM ErrorIsExact == Spec => []ErrorTellsOutage
BY TypeInvAlways, OutageInit, OutageNext, OutageInvShows, PTL DEF Spec

-----------------------------------------------------------------------------
(* Resolved slugs.  Before the fan-out nothing was asked.  In it a slug is *)
(* asked for exactly if it is one of Unique; what is in the channel is the *)
(* answer of a goroutine that is done, and each answer of such a goroutine *)
(* is in the channel.  Afterwards no goroutine is left.                    *)

OutputGood(out) ==
    /\ Len(out.records) = Len(Resolved)
    /\ \A i \in DOMAIN Resolved :
          /\ out.records[i].slug = Resolved[i].slug
          /\ out.records[i].uid = lookup[Resolved[i].slug].answer
          /\ out.records[i].detections[1].id = Resolved[i].id

Early == {"start", "resolving", "have_member", "fetching"}

Untouched == \A s \in Slugs : lookup[s].stage = "off"

Waiting ==
    /\ \A s \in Slugs : lookup[s].stage # "off" <=> s \in Unique
    /\ \A r \in Range(ch) : lookup[r.slug].stage = "done" /\ r.uid = lookup[r.slug].answer
    /\ \A s \in Slugs : lookup[s].stage = "done" /\ lookup[s].answer # Blank =>
                            \E r \in Range(ch) : r.slug = s

SlugInv ==
    /\ pc \notin {"waiting", "returned"} => Range(ch) = {} /\ Untouched
    /\ pc \in Early => Range(affiliations) = {}
    /\ \A s \in Slugs : lookup[s].stage \in {"off", "asking"} => lookup[s].answer = Blank
    /\ pc = "waiting" => Waiting
    /\ pc = "returned" =>
         /\ \A s \in Slugs : lookup[s].stage \in {"off", "done"}
         /\ work = "cdp_roles" /\ ~output.err => OutputGood(output)

LEMMA NoRange == Range(<<>>) = {}
BY DEF Range

LEMMA SlugInit == Init => SlugInv
BY NoRange DEF Init, SlugInv, Untouched, NotAsked, Early

LEMMA ListIsSeq ==
    ASSUME ListPart
    PROVE  /\ affiliations \in Seq(Range(affiliations))
           /\ \A a \in Range(affiliations) : a.slug \in Slugs
<1>1. CASE affiliations \in Lists
  BY <1>1, AnswerAssumption DEF Slugs
<1>2. CASE affiliations = <<>>
  BY <1>2, NoRange
<1>. QED  BY <1>1, <1>2 DEF ListPart

LEMMA NothingResolved ==
    ASSUME ListPart, Range(affiliations) = {}
    PROVE  Len(Resolved) = 0 /\ DOMAIN Resolved = {}
<1>1. Resolved \in Seq(Range(affiliations)) /\ Range(Resolved) = {}
  BY ListIsSeq, OnlyFacts DEF Resolved
<1>2. DOMAIN Resolved = {}
  BY <1>1 DEF Range
<1>. QED  BY <1>1, <1>2

Reported(a) == <<[source |-> "cdp_roles", id |-> a.id]>>

LEMMA ReportedId == \A a : Reported(a)[1].id = a.id
BY DEF Reported

(* The conversion of what uidOf says is right, if uidOf says what the      *)
(* goroutines were answered.                                               *)
LEMMA ConvertsWell ==
    ASSUME ListPart, NEW uidOf,
           \A a \in Range(affiliations) : ~a.nonlf =>
              /\ a.slug \in DOMAIN uidOf <=> lookup[a.slug].answer # Blank
              /\ a.slug \in DOMAIN uidOf => uidOf[a.slug] = lookup[a.slug].answer
    PROVE  OutputGood(CDPRoles(affiliations, uidOf))
<1>. DEFINE S == {a \in Range(affiliations) : ~a.nonlf /\ a.slug \in DOMAIN uidOf}
            w == Only(affiliations, S)
            L == [i \in DOMAIN w |-> [uid |-> UIDOf(w[i], uidOf), slug |-> w[i].slug,
                                      detections |-> Reported(w[i])]]
            out == CDPRoles(affiliations, uidOf)
<1>1. out = Found(L)
  BY ToSetIsRange, Zenon DEF CDPRoles, IsReported, Reported
<1>2. Resolved = w
  <2>1. S = {a \in Range(affiliations) : ~a.nonlf /\ lookup[a.slug].answer # Blank}
    OBVIOUS
  <2>. QED  BY <2>1, Zenon DEF Resolved
<1>3. Range(affiliations) \cap S = S
  OBVIOUS
<1>. HIDE DEF S
<1>4. w \in Seq(Range(affiliations)) /\ Range(w) = S
  BY <1>3, ListIsSeq, OnlyFacts
<1>. HIDE DEF w
<1>5. DOMAIN w = 1..Len(w) /\ Len(w) \in Nat
  BY <1>4
<1>6. Len(L) = Len(w)
  <2>. DEFINE X == {L[i] : i \in DOMAIN w}
  <2>1. L \in [1..Len(w) -> X]
    BY <1>5
  <2>. HIDE DEF L, X
  <2>. QED  BY <1>5, <2>1
<1>7. ASSUME NEW i \in DOMAIN w
      PROVE  /\ L[i].slug = w[i].slug /\ L[i].uid = lookup[w[i].slug].answer
             /\ L[i].detections[1].id = w[i].id
  <2>1. w[i] \in S
    BY <1>4 DEF Range
  <2>2. w[i] \in Range(affiliations) /\ ~w[i].nonlf /\ w[i].slug \in DOMAIN uidOf
    BY <2>1 DEF S
  <2>3. UIDOf(w[i], uidOf) = lookup[w[i].slug].answer
    BY <2>2 DEF UIDOf
  <2>. QED  BY <2>3, ReportedId
<1>. HIDE DEF L
<1>8. out.records = L
  BY <1>1 DEF Found
<1>. HIDE DEF out
<1>9. OutputGood(out)
  BY <1>2, <1>6, <1>7, <1>8 DEF OutputGood
<1>. QED  BY <1>9 DEF out

LEMMA SlugInvSource ==
    ASSUME TypeInv, SlugInv,
           \/ LookupMember \/ MemberResolved \/ LookupAffiliations \/ AffiliationsFetched
    PROVE  SlugInv'
<1>1. /\ UNCHANGED <<work, lookup, ch>> /\ ListPart /\ pc \in Early
      /\ Range(ch) = {} /\ Untouched /\ Range(affiliations) = {}
      /\ \A s \in Slugs : lookup[s].stage \in {"off", "asking"} => lookup[s].answer = Blank
  BY DEF LookupMember, MemberResolved, LookupAffiliations, AffiliationsFetched, fixed, sourceFixed, searchVars, TypeInv,
         SlugInv, Early
<1>2. pc' \in Early \cup {"have_affiliations", "returned"}
  BY StartedCalls DEF LookupMember, MemberResolved, LookupAffiliations, AffiliationsFetched,
                      Return, Early, Kinds
<1>3. pc' \in Early => Range(affiliations') = {}
  BY <1>1 DEF LookupMember, MemberResolved, LookupAffiliations, AffiliationsFetched, Cached,
              Missed, Return, Early
<1>4. pc' = "returned" /\ ~output'.err => OutputGood(output)'
  <2>. SUFFICES ASSUME pc' = "returned", ~output'.err PROVE OutputGood(output)'
    OBVIOUS
  <2>1. output' = Found(<<>>) /\ UNCHANGED affiliations
    BY <1>1, FoundIsNoError DEF LookupMember, MemberResolved, LookupAffiliations,
           AffiliationsFetched, Cached, Missed, Return
  <2>2. Resolved' = Resolved
    BY <1>1, <2>1 DEF Resolved
  <2>3. Len(Resolved) = 0 /\ DOMAIN Resolved = {}
    BY <1>1, NothingResolved
  <2>4. Len(output'.records) = 0
    BY <2>1 DEF Found
  <2>. QED  BY <2>2, <2>3, <2>4 DEF OutputGood
<1>5. \A s \in Slugs : lookup'[s].stage = "off"
  BY <1>1 DEF Untouched
<1>6. pc' # "waiting"
  BY <1>2 DEF Early
<1>. QED  BY <1>1, <1>2, <1>3, <1>4, <1>5, <1>6 DEF SlugInv, Untouched

LEMMA SlugInvNothing == ASSUME TypeInv, SlugInv, NothingToResolve PROVE SlugInv'
<1>1. /\ UNCHANGED <<work, lookup, ch, affiliations>> /\ ListPart /\ pc' = "returned"
      /\ Untouched
      /\ \A s \in Slugs : lookup[s].stage \in {"off", "asking"} => lookup[s].answer = Blank
  BY DEF NothingToResolve, fixed, sourceFixed, searchVars, TypeInv, SlugInv, Return
<1>2. PICK u : u = <<>> /\ output' = CDPRoles(affiliations, u)
  BY DEF NothingToResolve, Return
<1>3. DOMAIN u = {}
  BY <1>2
<1>4. \A a \in Range(affiliations) : lookup[a.slug].answer = Blank
  BY <1>1, ListIsSeq DEF Untouched
<1>5. OutputGood(CDPRoles(affiliations, u))
  BY <1>1, <1>3, <1>4, ConvertsWell
<1>6. Resolved' = Resolved
  BY <1>1 DEF Resolved
<1>7. OutputGood(output)'
  BY <1>1, <1>2, <1>5, <1>6 DEF OutputGood
<1>. QED  BY <1>1, <1>7 DEF SlugInv, Untouched, Early

LEMMA SlugInvFanOut == ASSUME TypeInv, SlugInv, FanOut PROVE SlugInv'
<1>1. /\ UNCHANGED <<work, ch, affiliations, output>> /\ ListPart /\ pc' = "waiting"
      /\ pc = "have_affiliations" /\ Range(ch) = {} /\ Unique' = Unique
  BY DEF FanOut, fixed, sourceFixed, searchVars, TypeInv, SlugInv, Unique
<1>2. ASSUME NEW s \in Slugs
      PROVE  lookup'[s].answer = Blank /\ lookup'[s].stage = IF s \in Unique THEN "asking" ELSE "off"
  BY DEF FanOut, NotAsked
<1>. QED  BY <1>1, <1>2 DEF SlugInv, Waiting, Early

LEMMA SlugInvLookup ==
    ASSUME TypeInv, SlugInv, NEW s \in Slugs, SlugAnswered(s) \/ SlugUnknown(s) \/ SendUID(s)
    PROVE  SlugInv'
<1>1. /\ UNCHANGED <<work, pc, affiliations, output>> /\ ListPart /\ Unique' = Unique
      /\ lookup[s].stage \in {"asking", "sending"}
      /\ lookup \in [Slugs -> [stage : Stages, answer : UIDs \cup {Blank}]]
      /\ ch \in Seq([slug : Slugs, uid : UIDs])
  BY DEF SlugAnswered, SlugUnknown, SendUID, fixed, sourceFixed, searchVars, TypeInv, ListPart, Unique
<1>2. pc = "waiting" /\ Waiting
  BY <1>1 DEF SlugInv, Untouched
<1>3. \A r \in Range(ch) : r.slug # s /\ r.slug \in Slugs
  <2>1. Range(ch) \subseteq [slug : Slugs, uid : UIDs]
    BY <1>1, RangeOfList
  <2>2. \A r \in Range(ch) : lookup[r.slug].stage = "done"
    BY <1>2 DEF Waiting
  <2>. QED  BY <1>1, <2>1, <2>2
<1>4. \A x \in Slugs : x # s => lookup'[x] = lookup[x]
  BY <1>1 DEF SlugAnswered, SlugUnknown, SendUID
<1>5. CASE SlugAnswered(s)
  <2>1. lookup'[s].stage = "sending" /\ UNCHANGED ch
    BY <1>1, <1>5 DEF SlugAnswered
  <2>2. Waiting'
    BY <1>1, <1>2, <1>3, <1>4, <2>1 DEF Waiting
  <2>. QED  BY <1>1, <1>2, <1>4, <2>1, <2>2 DEF SlugInv, Early
<1>6. CASE SlugUnknown(s)
  <2>1. lookup'[s].stage = "done" /\ UNCHANGED ch /\ lookup'[s].answer = Blank
    BY <1>1, <1>6 DEF SlugUnknown, SlugInv
  <2>2. Waiting'
    BY <1>1, <1>2, <1>3, <1>4, <2>1 DEF Waiting
  <2>. QED  BY <1>1, <1>2, <1>4, <2>1, <2>2 DEF SlugInv, Early
<1>7. CASE SendUID(s)
  <2>1. lookup'[s].stage = "done" /\ lookup'[s].answer = lookup[s].answer
        /\ ch' = Append(ch, Result(s))
    BY <1>1, <1>7 DEF SendUID
  <2>2. Result(s) \in [slug : Slugs, uid : UIDs]
        /\ Result(s).slug = s /\ Result(s).uid = lookup[s].answer
    BY <1>1, <1>7 DEF Result, ListPart, SendUID
  <2>3. Range(ch') = Range(ch) \cup {Result(s)}
    <3>. DEFINE X == [slug : Slugs, uid : UIDs]
                x == Result(s)
    <3>1. ch \in Seq(X) /\ x \in X /\ ch' = Append(ch, x)
      BY <1>1, <2>1, <2>2
    <3>. HIDE DEF X, x
    <3>2. Range(ch') = Range(ch) \cup {x}
      BY <3>1, AppendFacts
    <3>. QED  BY <3>2 DEF x
  <2>4. Waiting'
    BY <1>1, <1>2, <1>3, <1>4, <2>1, <2>2, <2>3 DEF Waiting
  <2>. QED  BY <1>1, <1>2, <1>4, <2>1, <2>4 DEF SlugInv, Early
<1>. QED  BY <1>5, <1>6, <1>7

LEMMA SlugInvConvert == ASSUME TypeInv, SlugInv, Convert PROVE SlugInv'
<1>1. /\ UNCHANGED <<work, lookup, affiliations>> /\ ListPart /\ pc' = "returned"
      /\ Waiting /\ WaitOver /\ output' = CDPRoles(affiliations, SlugMap)
      /\ \A s \in Slugs : lookup[s].stage \in {"off", "asking"} => lookup[s].answer = Blank
  BY DEF Convert, fixed, sourceFixed, searchVars, TypeInv, SlugInv, Return
<1>2. Range(ch) \subseteq [slug : Slugs, uid : UIDs] /\ Blank \notin UIDs
  BY <1>1, RangeOfList, AnswerAssumption DEF ListPart
<1>3. \A s \in Slugs : lookup[s].stage \in {"off", "done"}
  BY <1>1 DEF Waiting, WaitOver
<1>4. ASSUME NEW s \in Slugs
      PROVE  /\ s \in DOMAIN SlugMap <=> lookup[s].answer # Blank
             /\ s \in DOMAIN SlugMap => SlugMap[s] = lookup[s].answer
  <2>1. s \in DOMAIN SlugMap <=> \E r \in Range(ch) : r.slug = s
    BY DEF SlugMap
  <2>2. (\E r \in Range(ch) : r.slug = s) => lookup[s].answer # Blank
    BY <1>1, <1>2 DEF Waiting
  <2>3. lookup[s].answer # Blank => \E r \in Range(ch) : r.slug = s
    BY <1>1, <1>3 DEF Waiting
  <2>4. s \in DOMAIN SlugMap => SlugMap[s] = lookup[s].answer
    <3>. SUFFICES ASSUME s \in DOMAIN SlugMap PROVE SlugMap[s] = lookup[s].answer
      OBVIOUS
    <3>. DEFINE r == CHOOSE x \in Range(ch) : x.slug = s
    <3>1. r \in Range(ch) /\ r.slug = s
      BY <2>1
    <3>2. SlugMap[s] = r.uid
      BY DEF SlugMap
    <3>. HIDE DEF r
    <3>. QED  BY <1>1, <3>1, <3>2 DEF Waiting
  <2>. QED  BY <2>1, <2>2, <2>3, <2>4
<1>5. OutputGood(CDPRoles(affiliations, SlugMap))
  <2>. DEFINE u == SlugMap
  <2>1. \A a \in Range(affiliations) : ~a.nonlf =>
           /\ a.slug \in DOMAIN u <=> lookup[a.slug].answer # Blank
           /\ a.slug \in DOMAIN u => u[a.slug] = lookup[a.slug].answer
    BY <1>1, <1>4, ListIsSeq
  <2>. HIDE DEF u
  <2>2. OutputGood(CDPRoles(affiliations, u))
    BY <1>1, <2>1, ConvertsWell
  <2>. QED  BY <2>2 DEF u
<1>6. Resolved' = Resolved
  BY <1>1 DEF Resolved
<1>7. OutputGood(output)'
  BY <1>1, <1>5, <1>6 DEF OutputGood
<1>. QED  BY <1>1, <1>3, <1>7 DEF SlugInv, Early

LEMMA SlugInvKept ==
    ASSUME SlugInv, UNCHANGED <<work, affiliations, lookup, ch>>,
           \/ UNCHANGED <<pc, output>>
           \/ work # "cdp_roles" /\ pc \notin {"waiting", "returned"} /\ pc' = "returned"
    PROVE  SlugInv'
<1>1. Resolved' = Resolved /\ Unique' = Unique
  BY DEF Resolved, Unique
<1>2. CASE UNCHANGED <<pc, output>>
  BY <1>1, <1>2 DEF SlugInv, Untouched, Waiting, OutputGood, Early
<1>3. CASE work # "cdp_roles" /\ pc \notin {"waiting", "returned"} /\ pc' = "returned"
  BY <1>3 DEF SlugInv, Untouched, Early
<1>. QED  BY <1>2, <1>3

LEMMA SlugNext == TypeInv /\ SlugInv /\ [Next]_vars => SlugInv'
<1>. SUFFICES ASSUME TypeInv, SlugInv, [Next]_vars PROVE SlugInv'
  OBVIOUS
<1>1. ASSUME QueryStep, UNCHANGED cdpVars PROVE SlugInv'
  <2>1. /\ UNCHANGED <<work, affiliations, lookup, ch>>
        /\ work # "cdp_roles" /\ pc = "start" /\ pc' = "returned"
    BY <1>1 DEF QueryStep, NothingToSearch, ReturnSearch, JoinBranches, Return, sourceFixed, cdpVars
  <2>. QED  BY <2>1, SlugInvKept
<1>2. CASE \/ UNCHANGED vars \/ EndContext \/ Tick
           \/ \E b \in Searches : Searching(b)
           \/ \E t \in Tasks : Calls(t)
           \/ \E t \in Legs : SendLegResult(t)
           \/ \E f \in Detached : RefreshEnds(f)
  <2>1. UNCHANGED <<work, affiliations, lookup, ch, pc, output>>
    BY <1>2 DEF vars, legVars, cdpVars, EndContext, Tick, Calls, Searching, SearchStep, StartLegs,
                SkipUsernameLeg, JoinLegs, SendLegResult, LegReturns, RefreshEnds, fixed, sourceFixed
  <2>. QED  BY <2>1, SlugInvKept
<1>. QED  BY <1>1, <1>2, SlugInvSource, SlugInvNothing, SlugInvFanOut, SlugInvLookup,
             SlugInvConvert DEF Next, SourceStep

(* Whatever the order in which the goroutines of resolveSlugsToUIDs end,   *)
(* what sourceCDPRoles returns has exactly the affiliations whose slug was *)
(* answered, each under the answer to its own slug.                        *)
THEOREM ResolvedAreReported == Spec => []OutputIsResolved
<1>1. SlugInv => OutputIsResolved
  BY DEF SlugInv, OutputGood, OutputIsResolved
<1>. QED  BY <1>1, TypeInvAlways, SlugInit, SlugNext, PTL DEF Spec
=============================================================================
