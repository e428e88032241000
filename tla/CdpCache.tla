------------------------------ MODULE CdpCache ------------------------------
(***************************************************************************)
(* sourceCDPRoles' two lookups through the persona-cache bucket            *)
(* (internal/service/message_handler.go, internal/infrastructure/cdp):     *)
(* person -> CDP member id -> project affiliations, each read from the     *)
(* cache, fetched on a miss, and refreshed in the background when stale.   *)
(*                                                                         *)
(* Concurrent requests, background refreshes that finish in any order,     *)
(* the passing of time, the bucket's expiry of entries and restarts of the *)
(* service interleave; the bucket outlives the service.  What CDP answers  *)
(* is free, so an answer is what it is about, and when CDP gave it (`at'). *)
(***************************************************************************)
EXTENDS Integers, Sequences

CONSTANTS
    Persons,        \* who asks: an email and perhaps a username
    UsernameOf,     \* the username of each person, NoUsername if none
    NoUsername,     \* ""
    Members,        \* CDP member ids
    Requests,       \* concurrent requests
    Refreshes,      \* concurrent background refreshes
    FreshThreshold, \* 10 minutes
    TTL,            \* the bucket's max age, 24 hours
    CallLimit       \* at most this long from an answer to its last use: the
                    \* handler's timeout, the HTTP client's and the KV's

\* A username belongs to one person; an answer is used long before it expires.
ASSUME UsernameAssumption ==
    \A p, q \in Persons : UsernameOf[p] = UsernameOf[q] =>
        p = q \/ UsernameOf[p] = NoUsername
ASSUME KindAssumption == Persons \cap Members = {}
ASSUME TimeAssumption ==
    /\ FreshThreshold \in Nat /\ TTL \in Nat /\ CallLimit \in Nat
    /\ 0 < CallLimit /\ FreshThreshold < TTL

VARIABLES
    now,        \* the time
    enabled,    \* the bucket was there at startup
    kv,         \* the bucket: key -> [answer, created]
    request,    \* the calls of sourceCDPRoles: [pc, who, since, member, roles]
    refresh     \* the background refreshes: [pc, subject, answer]

vars == <<now, enabled, kv, request, refresh>>

-----------------------------------------------------------------------------

Subjects == Persons \cup Members
Answers  == [subject : Subjects, value : Members, at : Nat]
Nobody   == [subject |-> NoUsername, value |-> NoUsername, at |-> 0]
Places   == {"idle", "resolving", "put_member", "have_member", "fetching",
             "put_affiliations", "serving"}
Idle     == [pc |-> "idle", who |-> NoUsername, since |-> 0, member |-> Nobody,
             roles |-> Nobody]
Off      == [pc |-> "off", subject |-> NoUsername, answer |-> Nobody]

MemberKey_Reversed(p) == <<UsernameOf[p], "member_id">>
MemberKey(p) == <<"member_id", UsernameOf[p]>>
AffiliationsKey(m) == <<"affiliations", m>>

KeyOf(subject) ==
    IF subject \in Persons THEN MemberKey(subject) ELSE AffiliationsKey(subject)

(* What the CDP client may answer now about a person or a member.           *)
Replies(subject) ==
    {[subject |-> subject, value |-> m, at |-> now] :
        m \in IF subject \in Persons THEN Members ELSE {subject}}

(* The bucket accepts no key that ends in a dot; Get and Put fail for it.   *)
ValidKey(k) == k[Len(k)] # NoUsername

Cached(k) == enabled /\ ValidKey(k) /\ k \in DOMAIN kv

Stored(k, answer) ==
    LET entry == [answer |-> answer, created |-> now]
    IN  [j \in DOMAIN kv \cup {k} |-> IF j = k THEN entry ELSE kv[j]]

(* A Put that fails is only logged.                                         *)
Put(k, answer) ==
    \/ enabled /\ ValidKey(k) /\ kv' = Stored(k, answer)
    \/ UNCHANGED kv

IsStale_AtTTL(k) == now - kv[k].created >= TTL
IsStale(k) == now - kv[k].created >= FreshThreshold

(* `go h.backgroundRefresh...', when the hit is stale.                      *)
RefreshIfStale(subject) ==
    IF IsStale(KeyOf(subject))
      THEN \E f \in Refreshes :
              /\ refresh[f].pc = "off"
              /\ refresh' = [refresh EXCEPT ![f] = [pc |-> "calling",
                                subject |-> subject, answer |-> Nobody]]
      ELSE UNCHANGED refresh

-----------------------------------------------------------------------------

Init ==
    /\ now = 0
    /\ enabled \in BOOLEAN
    /\ kv = [k \in {} |-> {}]
    /\ request = [r \in Requests |-> Idle]
    /\ refresh = [f \in Refreshes |-> Off]

At(r, place) == request[r].pc = place

NewCall(place, p, m) ==
    [pc |-> place, who |-> p, since |-> now, member |-> m, roles |-> Nobody]

(* Step 1 of sourceCDPRoles.  A Get that fails is a miss.                   *)
LookupMember(r) ==
    /\ At(r, "idle")
    /\ \E p \in Persons :
        \/ /\ Cached(MemberKey(p))
           /\ request' = [request EXCEPT
                    ![r] = NewCall("have_member", p, kv[MemberKey(p)].answer)]
           /\ RefreshIfStale(p)
        \/ /\ request' = [request EXCEPT ![r] = NewCall("resolving", p, Nobody)]
           /\ UNCHANGED refresh
    /\ UNCHANGED <<now, enabled, kv>>

ResolveMember(r) ==
    /\ At(r, "resolving")
    /\ \E a \in Replies(request[r].who) :
          request' = [request EXCEPT ![r].pc = "put_member", ![r].member = a]
    /\ UNCHANGED <<now, enabled, kv, refresh>>

PutMemberID(r) ==
    /\ At(r, "put_member")
    /\ Put(MemberKey(request[r].who), request[r].member)
    /\ request' = [request EXCEPT ![r].pc = "have_member"]
    /\ UNCHANGED <<now, enabled, refresh>>

(* Step 2.                                                                  *)
LookupAffiliations(r) ==
    /\ At(r, "have_member")
    /\ LET m == request[r].member.value IN
        \/ /\ Cached(AffiliationsKey(m))
           /\ request' = [request EXCEPT ![r].pc = "serving",
                            ![r].roles = kv[AffiliationsKey(m)].answer]
           /\ RefreshIfStale(m)
        \/ /\ request' = [request EXCEPT ![r].pc = "fetching"]
           /\ UNCHANGED refresh
    /\ UNCHANGED <<now, enabled, kv>>

GetProjectAffiliations(r) ==
    /\ At(r, "fetching")
    /\ \E a \in Replies(request[r].member.value) :
          request' = [request EXCEPT ![r].pc = "put_affiliations", ![r].roles = a]
    /\ UNCHANGED <<now, enabled, kv, refresh>>

PutAffiliations(r) ==
    /\ At(r, "put_affiliations")
    /\ Put(AffiliationsKey(request[r].member.value), request[r].roles)
    /\ request' = [request EXCEPT ![r].pc = "serving"]
    /\ UNCHANGED <<now, enabled, refresh>>

(* Step 3: the slugs are resolved (PersonaSources) and the source returns.  *)
Serve(r) ==
    /\ At(r, "serving")
    /\ request' = [request EXCEPT ![r] = Idle]
    /\ UNCHANGED <<now, enabled, kv, refresh>>

(* A call fails, CDP knows no such person (404), or the context has ended.  *)
GiveUp(r) ==
    /\ At(r, "resolving") \/ At(r, "fetching")
    /\ request' = [request EXCEPT ![r] = Idle]
    /\ UNCHANGED <<now, enabled, kv, refresh>>

-----------------------------------------------------------------------------
(* backgroundRefreshMemberID and backgroundRefreshAffiliations.             *)

RefreshAnswered(f) ==
    /\ refresh[f].pc = "calling"
    /\ \E a \in Replies(refresh[f].subject) :
          refresh' = [refresh EXCEPT ![f].pc = "putting", ![f].answer = a]
    /\ UNCHANGED <<now, enabled, kv, request>>

RefreshFails_Stores404(f) ==
    /\ refresh[f].pc = "calling"
    /\ Put(KeyOf(refresh[f].subject), Nobody)
    /\ refresh' = [refresh EXCEPT ![f] = Off]
    /\ UNCHANGED <<now, enabled, request>>

RefreshFails_KeepsWarm(f) ==
    /\ refresh[f].pc = "calling"
    /\ LET k == KeyOf(refresh[f].subject)
       IN  k \in DOMAIN kv /\ Put(k, kv[k].answer)
    /\ refresh' = [refresh EXCEPT ![f] = Off]
    /\ UNCHANGED <<now, enabled, request>>

(* An error, or 404: the entry stays as it is.                              *)
RefreshFails(f) ==
    /\ refresh[f].pc = "calling"
    /\ refresh' = [refresh EXCEPT ![f] = Off]
    /\ UNCHANGED <<now, enabled, kv, request>>

RefreshPuts(f) ==
    /\ refresh[f].pc = "putting"
    /\ Put(KeyOf(refresh[f].subject), refresh[f].answer)
    /\ refresh' = [refresh EXCEPT ![f] = Off]
    /\ UNCHANGED <<now, enabled, request>>

-----------------------------------------------------------------------------
(* Time, expiry and restarts.                                               *)

(* The request's deadline and the clients' timeouts end what takes longer.  *)
InTime_NoTimeout(start) == TRUE
InTime(start) == now < start + CallLimit

Tick ==
    /\ \A r \in Requests : ~At(r, "idle") => InTime(request[r].since)
    /\ \A f \in Refreshes : refresh[f].pc = "putting" => InTime(refresh[f].answer.at)
    /\ now' = now + 1
    /\ kv' = [k \in {j \in DOMAIN kv : now' - kv[j].created < TTL} |-> kv[k]]
    /\ UNCHANGED <<enabled, request, refresh>>

Restart ==
    /\ request' = [r \in Requests |-> Idle]
    /\ refresh' = [f \in Refreshes |-> Off]
    /\ enabled' \in BOOLEAN
    /\ UNCHANGED <<now, kv>>

Next ==
    \/ \E r \in Requests :
        \/ LookupMember(r)
        \/ ResolveMember(r)
        \/ PutMemberID(r)
        \/ LookupAffiliations(r)
        \/ GetProjectAffiliations(r)
        \/ PutAffiliations(r)
        \/ Serve(r)
        \/ GiveUp(r)
    \/ \E f \in Refreshes : RefreshAnswered(f) \/ RefreshFails(f) \/ RefreshPuts(f)
    \/ Tick
    \/ Restart

Spec == Init /\ [][Next]_vars

-----------------------------------------------------------------------------
(* Properties.                                                              *)

(* Every variable stays in its domain, and an entry is about its key.       *)
TypeOK ==
    /\ now \in Nat /\ enabled \in BOOLEAN
    /\ \A k \in DOMAIN kv : /\ kv[k].answer \in Answers /\ kv[k].created \in Nat
                            /\ k = KeyOf(kv[k].answer.subject)
    /\ request \in [Requests ->
            [pc : Places, who : Persons \cup {NoUsername}, since : Nat,
             member : Answers \cup {Nobody}, roles : Answers \cup {Nobody}]]
    /\ refresh \in [Refreshes ->
            [pc : {"off", "calling", "putting"},
             subject : Subjects \cup {NoUsername}, answer : Answers \cup {Nobody}]]

(* What a caller is told is what CDP said less than a bucket lifetime and   *)
(* two calls ago, although stale entries are served and refreshes that were *)
(* overtaken, failed or found no profile leave old entries in place.        *)
ServedIsRecent ==
    \A r \in Requests : At(r, "serving") =>
        /\ now - request[r].member.at < TTL + 2 * CallLimit
        /\ now - request[r].roles.at < TTL + 2 * CallLimit

(* A caller is told the affiliations of the member that CDP resolved from   *)
(* this very person, never those of somebody who shares a cache key (every  *)
(* person without a username has the same one).                             *)
ServedIsOwn ==
    \A r \in Requests : At(r, "serving") =>
        /\ request[r].member.subject = request[r].who
        /\ request[r].roles.subject = request[r].member.value

(* A refresh that was overtaken may put an older answer over a newer one,   *)
(* but never one older by more than a call: the cache does not move back.   *)
EntriesMoveForward ==
    [][\A k \in DOMAIN kv \cap DOMAIN kv' :
            kv'[k].answer.at >= kv[k].answer.at - CallLimit]_vars

(* An entry that counts as fresh, and is served without a refresh, really   *)
(* is young: its answer is no older than the threshold and one call.        *)
FreshIsYoung ==
    \A k \in DOMAIN kv : ~IsStale(k) =>
        now - kv[k].answer.at < FreshThreshold + CallLimit
=============================================================================
