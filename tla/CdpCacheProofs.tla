--------------------------- MODULE CdpCacheProofs ---------------------------
(***************************************************************************)
(* The bounds of CdpCache for every set of persons, members, requests and  *)
(* refreshes and all durations.  The properties talk about an answer while *)
(* it is served; the invariant follows it from CDP into the bucket and     *)
(* from there into a request.                                              *)
(***************************************************************************)
EXTENDS CdpCache, TLAPS

HasMember == {"put_member", "have_member", "fetching", "put_affiliations", "serving"}
HasRoles  == {"put_affiliations", "serving"}

(* An entry was put within a call of its answer and has not expired.       *)
EntryInTime(e, t) ==
    /\ e.answer.at <= e.created
    /\ e.created <= t
    /\ e.created - e.answer.at <= CallLimit
    /\ t - e.created < TTL

EntriesInTime == \A k \in DOMAIN kv : EntryInTime(kv[k], now)

(* What a request holds was young when the request got it.                 *)
Young(call, a, t) == a.at <= t /\ call.since - a.at < TTL + CallLimit

CallInTime(call, t) ==
    /\ call.pc # "idle" =>
        /\ call.who \in Persons
        /\ call.since <= t /\ t <= call.since + CallLimit
    /\ call.pc \in HasMember =>
        /\ call.member \in Answers
        /\ call.member.subject = call.who
        /\ Young(call, call.member, t)
    /\ call.pc = "put_member" => call.since <= call.member.at
    /\ call.pc \in HasRoles =>
        /\ call.roles \in Answers
        /\ call.roles.subject = call.member.value
        /\ Young(call, call.roles, t)
    /\ call.pc = "put_affiliations" => call.since <= call.roles.at

RequestsInTime == \A r \in Requests : CallInTime(request[r], now)

(* A refresh puts its answer within a call.                                *)
PutInTime(f, t) ==
    /\ f.pc # "off" => f.subject \in Subjects
    /\ f.pc = "putting" =>
        /\ f.answer \in Answers
        /\ f.answer.subject = f.subject
        /\ f.answer.at <= t /\ t <= f.answer.at + CallLimit

RefreshesInTime == \A f \in Refreshes : PutInTime(refresh[f], now)

IInv == TypeOK /\ EntriesInTime /\ RequestsInTime /\ RefreshesInTime

-----------------------------------------------------------------------------
(* Keys.                                                                   *)

(* A cached entry under a person's key was resolved from that person.      *)
LEMMA MemberEntryIsOwn ==
    ASSUME TypeOK, NEW p \in Persons, Cached(MemberKey(p))
    PROVE  /\ kv[MemberKey(p)].answer \in Answers
           /\ kv[MemberKey(p)].answer.subject = p
<1> DEFINE k == MemberKey(p)
           s == kv[k].answer.subject
<1>1. k \in DOMAIN kv /\ UsernameOf[p] # NoUsername
  BY DEF Cached, ValidKey, MemberKey
<1>2. kv[k].answer \in Answers /\ s \in Subjects /\ k = KeyOf(s)
  BY <1>1 DEF TypeOK, Answers
<1>3. s \in Persons
  BY <1>2 DEF KeyOf, AffiliationsKey, MemberKey
<1>4. UsernameOf[s] = UsernameOf[p]
  BY <1>2, <1>3 DEF KeyOf, MemberKey
<1> QED BY <1>1, <1>2, <1>3, <1>4, UsernameAssumption

(* A cached entry under a member's key is about that member.               *)
LEMMA RolesEntryIsOwn ==
    ASSUME TypeOK, NEW m \in Members, Cached(AffiliationsKey(m))
    PROVE  /\ kv[AffiliationsKey(m)].answer \in Answers
           /\ kv[AffiliationsKey(m)].answer.subject = m
<1> DEFINE k == AffiliationsKey(m)
           s == kv[k].answer.subject
<1>1. k \in DOMAIN kv
  BY DEF Cached
<1>2. kv[k].answer \in Answers /\ s \in Subjects /\ k = KeyOf(s)
  BY <1>1 DEF TypeOK, Answers
<1>3. s \notin Persons
  BY <1>2 DEF KeyOf, AffiliationsKey, MemberKey
<1> QED BY <1>2, <1>3 DEF KeyOf, AffiliationsKey

(* A put keeps the bucket well formed and in time.                         *)
LEMMA PutKeeps ==
    ASSUME IInv, NEW a \in Answers, Put(KeyOf(a.subject), a), now' = now,
           a.at <= now, now <= a.at + CallLimit
    PROVE  /\ \A k \in DOMAIN kv' : /\ kv'[k].answer \in Answers
                                    /\ kv'[k].created \in Nat
                                    /\ k = KeyOf(kv'[k].answer.subject)
           /\ EntriesInTime'
<1> DEFINE key == KeyOf(a.subject)
           entry == [answer |-> a, created |-> now]
<1> USE TimeAssumption
<1>1. CASE UNCHANGED kv
  BY <1>1 DEF IInv, TypeOK, EntriesInTime, EntryInTime
<1>2. CASE kv' = Stored(key, a)
  <2>1. /\ DOMAIN kv' = DOMAIN kv \cup {key}
        /\ \A k \in DOMAIN kv' : kv'[k] = IF k = key THEN entry ELSE kv[k]
    BY <1>2 DEF Stored
  <2>2. now \in Nat /\ a.at \in Nat
    BY DEF IInv, TypeOK, Answers
  <2>3. EntryInTime(entry, now)
    BY <2>2 DEF EntryInTime
  <2>4. entry.answer = a /\ entry.created = now
    OBVIOUS
  <2>5. ASSUME NEW k \in DOMAIN kv'
        PROVE  /\ kv'[k].answer \in Answers
               /\ kv'[k].created \in Nat
               /\ k = KeyOf(kv'[k].answer.subject)
    BY <2>1, <2>2, <2>4 DEF IInv, TypeOK
  <2>6. ASSUME NEW k \in DOMAIN kv'
        PROVE  EntryInTime(kv'[k], now')
    <3>1. CASE k = key
      BY <3>1, <2>1, <2>3
    <3>2. CASE k # key
      BY <3>2, <2>1 DEF IInv, EntriesInTime
    <3> QED BY <3>1, <3>2
  <2> QED BY <2>5, <2>6 DEF EntriesInTime
<1> QED BY <1>1, <1>2 DEF Put

(* A reply of the CDP client is an answer about its subject, given now.    *)
LEMMA ReplyIsAnswer ==
    ASSUME IInv, NEW s \in Subjects, NEW a \in Replies(s)
    PROVE  a \in Answers /\ a.subject = s /\ a.at = now
BY KindAssumption DEF Replies, Answers, Subjects, IInv, TypeOK

(* What is read from the bucket is young for the call that reads it.       *)
LEMMA EntryIsYoung ==
    ASSUME IInv, NEW k \in DOMAIN kv, NEW call, call.since \in Nat, call.since <= now
    PROVE  Young(call, kv[k].answer, now)
<1>1. kv[k].answer.at \in Nat /\ kv[k].created \in Nat /\ now \in Nat
  BY DEF IInv, TypeOK, Answers
<1>2. EntryInTime(kv[k], now)
  BY DEF IInv, EntriesInTime
<1> QED BY <1>1, <1>2, TimeAssumption DEF EntryInTime, Young

-----------------------------------------------------------------------------
(* The parts of the invariant, one per variable that a step changes.       *)

CallRecords ==
    [pc : Places, who : Persons \cup {NoUsername}, since : Nat,
     member : Answers \cup {Nobody}, roles : Answers \cup {Nobody}]

RefreshRecords ==
    [pc : {"off", "calling", "putting"},
     subject : Subjects \cup {NoUsername}, answer : Answers \cup {Nobody}]

BucketOK ==
    /\ \A k \in DOMAIN kv : /\ kv[k].answer \in Answers /\ kv[k].created \in Nat
                            /\ k = KeyOf(kv[k].answer.subject)
    /\ EntriesInTime
RequestsOK  == request \in [Requests -> CallRecords] /\ RequestsInTime
RefreshesOK == refresh \in [Refreshes -> RefreshRecords] /\ RefreshesInTime

LEMMA Parts ==
    IInv <=> now \in Nat /\ enabled \in BOOLEAN /\ BucketOK /\ RequestsOK /\ RefreshesOK
BY DEF IInv, TypeOK, BucketOK, RequestsOK, RefreshesOK, CallRecords, RefreshRecords

LEMMA PartsNext ==
    ASSUME now' \in Nat, enabled' \in BOOLEAN, BucketOK', RequestsOK', RefreshesOK'
    PROVE  IInv'
BY DEF IInv, TypeOK, BucketOK, RequestsOK, RefreshesOK, CallRecords, RefreshRecords

LEMMA BucketKept ==
    ASSUME IInv, UNCHANGED <<now, kv>>
    PROVE  BucketOK'
BY DEF IInv, TypeOK, BucketOK, EntriesInTime

LEMMA RequestsKept ==
    ASSUME IInv, UNCHANGED <<now, request>>
    PROVE  RequestsOK'
BY Parts DEF RequestsOK, RequestsInTime

LEMMA RefreshesKept ==
    ASSUME IInv, UNCHANGED <<now, refresh>>
    PROVE  RefreshesOK'
BY Parts DEF RefreshesOK, RefreshesInTime

LEMMA OneRequest ==
    ASSUME IInv, NEW r \in Requests, NEW c \in CallRecords, now' = now,
           request' = [request EXCEPT ![r] = c], CallInTime(c, now)
    PROVE  RequestsOK'
BY Parts DEF RequestsOK, RequestsInTime

LEMMA OneRefresh ==
    ASSUME IInv, NEW f \in Refreshes, NEW c \in RefreshRecords, now' = now,
           refresh' = [refresh EXCEPT ![f] = c], PutInTime(c, now)
    PROVE  RefreshesOK'
BY Parts DEF RefreshesOK, RefreshesInTime

LEMMA IdleInTime == Idle \in CallRecords /\ \A t : CallInTime(Idle, t)
BY DEF Idle, CallRecords, CallInTime, Places, HasMember, HasRoles

LEMMA OffInTime == Off \in RefreshRecords /\ \A t : PutInTime(Off, t)
BY DEF Off, RefreshRecords, PutInTime

LEMMA RefreshStarted ==
    ASSUME IInv, NEW s \in Subjects, RefreshIfStale(s), now' = now
    PROVE  RefreshesOK'
<1>1. CASE UNCHANGED refresh
  BY <1>1, RefreshesKept
<1>2. CASE \E f \in Refreshes :
             refresh' = [refresh EXCEPT ![f] = [pc |-> "calling",
                                subject |-> s, answer |-> Nobody]]
  <2> DEFINE c == [pc |-> "calling", subject |-> s, answer |-> Nobody]
  <2>1. c \in RefreshRecords /\ PutInTime(c, now)
    BY DEF RefreshRecords, PutInTime
  <2> HIDE DEF c
  <2>2. PICK f \in Refreshes : refresh' = [refresh EXCEPT ![f] = c]
    BY <1>2 DEF c
  <2> QED BY <2>1, <2>2, OneRefresh
<1> QED BY <1>1, <1>2 DEF RefreshIfStale

-----------------------------------------------------------------------------
(* The steps of a request.                                                 *)

LEMMA LookupMemberKeeps ==
    ASSUME IInv, NEW r \in Requests, LookupMember(r)
    PROVE  IInv'
<1> USE TimeAssumption
<1>1. PICK p \in Persons :
        \/ /\ Cached(MemberKey(p))
           /\ request' = [request EXCEPT
                    ![r] = NewCall("have_member", p, kv[MemberKey(p)].answer)]
           /\ RefreshIfStale(p)
        \/ /\ request' = [request EXCEPT ![r] = NewCall("resolving", p, Nobody)]
           /\ UNCHANGED refresh
  BY DEF LookupMember
<1>2. UNCHANGED <<now, enabled, kv>> /\ now \in Nat /\ enabled \in BOOLEAN
  BY DEF LookupMember, IInv, TypeOK
<1>3. CASE /\ Cached(MemberKey(p))
           /\ request' = [request EXCEPT
                    ![r] = NewCall("have_member", p, kv[MemberKey(p)].answer)]
           /\ RefreshIfStale(p)
  <2> DEFINE a == kv[MemberKey(p)].answer
             c == NewCall("have_member", p, a)
  <2>1. a \in Answers /\ a.subject = p
    BY <1>3, MemberEntryIsOwn DEF IInv
  <2>2. MemberKey(p) \in DOMAIN kv
    BY <1>3 DEF Cached
  <2>3. c.since = now
    BY DEF NewCall
  <2>4. Young(c, a, now)
    BY <2>2, <2>3, <1>2, EntryIsYoung
  <2>5. c \in CallRecords
    BY <2>1, <1>2 DEF CallRecords, Places, NewCall
  <2>6. CallInTime(c, now)
    BY <2>1, <2>4, <1>2 DEF CallInTime, HasMember, HasRoles, NewCall
  <2> HIDE DEF c
  <2>7. RequestsOK'
    BY <1>3, <1>2, <2>5, <2>6, OneRequest DEF c
  <2>8. RefreshesOK'
    BY <1>3, <1>2, RefreshStarted DEF Subjects
  <2> QED BY <1>2, <2>7, <2>8, BucketKept, PartsNext
<1>4. CASE /\ request' = [request EXCEPT ![r] = NewCall("resolving", p, Nobody)]
           /\ UNCHANGED refresh
  <2> DEFINE c == NewCall("resolving", p, Nobody)
  <2>1. c \in CallRecords /\ CallInTime(c, now)
    BY <1>2 DEF CallRecords, Places, CallInTime, HasMember, HasRoles, NewCall
  <2> HIDE DEF c
  <2>2. RequestsOK'
    BY <1>4, <1>2, <2>1, OneRequest DEF c
  <2> QED BY <1>2, <1>4, <2>2, BucketKept, RefreshesKept, PartsNext
<1> QED BY <1>1, <1>3, <1>4

(* What the invariant says of the request that takes a step.               *)
LEMMA Stepping ==
    ASSUME IInv, NEW r \in Requests
    PROVE  /\ now \in Nat /\ enabled \in BOOLEAN
           /\ request[r] \in CallRecords
           /\ CallInTime(request[r], now)
BY Parts DEF RequestsOK, RequestsInTime

LEMMA ResolveMemberKeeps ==
    ASSUME IInv, NEW r \in Requests, ResolveMember(r)
    PROVE  IInv'
<1> USE TimeAssumption
<1> DEFINE call == request[r]
<1>0. UNCHANGED <<now, enabled, kv, refresh>> /\ call.pc = "resolving"
  BY DEF ResolveMember, At
<1>1. PICK a \in Replies(call.who) :
        request' = [request EXCEPT ![r].pc = "put_member", ![r].member = a]
  BY DEF ResolveMember
<1> DEFINE c == [call EXCEPT !.pc = "put_member", !.member = a]
<1>2. request' = [request EXCEPT ![r] = c]
  BY <1>1, Parts DEF RequestsOK
<1>3. call \in CallRecords /\ CallInTime(call, now) /\ now \in Nat /\ enabled \in BOOLEAN
  BY Stepping
<1>4. call.who \in Persons
  BY <1>0, <1>3 DEF CallInTime
<1>5. a \in Answers /\ a.subject = call.who /\ a.at = now
  BY <1>4, <1>1, ReplyIsAnswer DEF Subjects
<1>6. c \in CallRecords
  BY <1>3, <1>5 DEF CallRecords, Places
<1>7. CallInTime(c, now)
  BY <1>0, <1>3, <1>5 DEF CallInTime, CallRecords, HasMember, HasRoles, Young
<1> HIDE DEF c
<1>8. RequestsOK'
  BY <1>0, <1>2, <1>6, <1>7, OneRequest
<1> QED BY <1>0, <1>3, <1>8, BucketKept, RefreshesKept, PartsNext

(* A call that moves on without learning anything.                         *)
LEMMA Moved ==
    ASSUME IInv, NEW r \in Requests, NEW place \in Places, now' = now,
           request[r].pc # "idle", place # "idle", place # "put_member",
           place # "put_affiliations",
           place \in HasMember => request[r].pc \in HasMember,
           place \in HasRoles => request[r].pc \in HasRoles,
           request' = [request EXCEPT ![r].pc = place]
    PROVE  RequestsOK'
<1> DEFINE c == [request[r] EXCEPT !.pc = place]
<1>1. request' = [request EXCEPT ![r] = c]
  BY Parts DEF RequestsOK
<1>2. c \in CallRecords /\ CallInTime(c, now)
  BY Stepping DEF CallRecords, CallInTime, Young
<1> HIDE DEF c
<1> QED BY <1>1, <1>2, OneRequest

LEMMA PutMemberIDKeeps ==
    ASSUME IInv, NEW r \in Requests, PutMemberID(r)
    PROVE  IInv'
<1> USE TimeAssumption
<1> DEFINE call == request[r]
<1>0. /\ UNCHANGED <<now, enabled, refresh>> /\ call.pc = "put_member"
      /\ Put(MemberKey(call.who), call.member)
      /\ request' = [request EXCEPT ![r].pc = "have_member"]
  BY DEF PutMemberID, At
<1>1. call \in CallRecords /\ CallInTime(call, now) /\ now \in Nat /\ enabled \in BOOLEAN
  BY Stepping
<1>2. /\ call.who \in Persons /\ call.member \in Answers
      /\ call.member.subject = call.who
      /\ call.member.at <= now /\ now <= call.member.at + CallLimit
  BY <1>0, <1>1 DEF CallInTime, HasMember, Young, CallRecords, Answers
<1>3. Put(KeyOf(call.member.subject), call.member)
  BY <1>0, <1>2 DEF KeyOf
<1>4. BucketOK'
  BY <1>0, <1>2, <1>3, PutKeeps DEF BucketOK
<1>5. RequestsOK'
  BY <1>0, Moved DEF Places, HasMember, HasRoles
<1> QED BY <1>0, <1>1, <1>4, <1>5, RefreshesKept, PartsNext

LEMMA LookupAffiliationsKeeps ==
    ASSUME IInv, NEW r \in Requests, LookupAffiliations(r)
    PROVE  IInv'
<1> USE TimeAssumption
<1> DEFINE call == request[r]
           m == call.member.value
<1>0. UNCHANGED <<now, enabled, kv>> /\ call.pc = "have_member"
  BY DEF LookupAffiliations, At
<1>1. call \in CallRecords /\ CallInTime(call, now) /\ now \in Nat /\ enabled \in BOOLEAN
  BY Stepping
<1>2. call.member \in Answers /\ m \in Members
  BY <1>0, <1>1 DEF CallInTime, HasMember, Answers
<1>3. CASE /\ Cached(AffiliationsKey(m))
           /\ request' = [request EXCEPT ![r].pc = "serving",
                            ![r].roles = kv[AffiliationsKey(m)].answer]
           /\ RefreshIfStale(m)
  <2> DEFINE a == kv[AffiliationsKey(m)].answer
             c == [call EXCEPT !.pc = "serving", !.roles = a]
  <2>1. a \in Answers /\ a.subject = m
    BY <1>2, <1>3, RolesEntryIsOwn DEF IInv
  <2>2. AffiliationsKey(m) \in DOMAIN kv
    BY <1>3 DEF Cached
  <2>3. call.since \in Nat /\ call.since <= now
    BY <1>0, <1>1 DEF CallInTime, CallRecords
  <2>4. Young(call, a, now)
    BY <2>2, <2>3, EntryIsYoung
  <2>5. request' = [request EXCEPT ![r] = c]
    BY <1>3, Parts DEF RequestsOK
  <2>6. c \in CallRecords
    BY <1>1, <2>1 DEF CallRecords, Places
  <2>7. CallInTime(c, now)
    BY <1>0, <1>1, <2>1, <2>4 DEF CallInTime, CallRecords, HasMember, HasRoles, Young
  <2> HIDE DEF c
  <2>8. RequestsOK'
    BY <1>0, <2>5, <2>6, <2>7, OneRequest
  <2>9. RefreshesOK'
    BY <1>0, <1>2, <1>3, RefreshStarted DEF Subjects
  <2> QED BY <1>0, <1>1, <2>8, <2>9, BucketKept, PartsNext
<1>4. CASE /\ request' = [request EXCEPT ![r].pc = "fetching"]
           /\ UNCHANGED refresh
  <2>1. RequestsOK'
    BY <1>0, <1>4, Moved DEF Places, HasMember, HasRoles
  <2> QED BY <1>0, <1>1, <1>4, <2>1, BucketKept, RefreshesKept, PartsNext
<1> QED BY <1>3, <1>4 DEF LookupAffiliations

LEMMA GetProjectAffiliationsKeeps ==
    ASSUME IInv, NEW r \in Requests, GetProjectAffiliations(r)
    PROVE  IInv'
<1> USE TimeAssumption
<1> DEFINE call == request[r]
<1>0. UNCHANGED <<now, enabled, kv, refresh>> /\ call.pc = "fetching"
  BY DEF GetProjectAffiliations, At
<1>1. PICK a \in Replies(call.member.value) :
        request' = [request EXCEPT ![r].pc = "put_affiliations", ![r].roles = a]
  BY DEF GetProjectAffiliations
<1> DEFINE c == [call EXCEPT !.pc = "put_affiliations", !.roles = a]
<1>2. request' = [request EXCEPT ![r] = c]
  BY <1>1, Parts DEF RequestsOK
<1>3. call \in CallRecords /\ CallInTime(call, now) /\ now \in Nat /\ enabled \in BOOLEAN
  BY Stepping
<1>4. call.member.value \in Members
  BY <1>0, <1>3 DEF CallInTime, HasMember, Answers
<1>5. a \in Answers /\ a.subject = call.member.value /\ a.at = now
  BY <1>4, <1>1, ReplyIsAnswer DEF Subjects
<1>6. c \in CallRecords
  BY <1>3, <1>5 DEF CallRecords, Places
<1>7. CallInTime(c, now)
  BY <1>0, <1>3, <1>5 DEF CallInTime, CallRecords, HasMember, HasRoles, Young
<1> HIDE DEF c
<1>8. RequestsOK'
  BY <1>0, <1>2, <1>6, <1>7, OneRequest
<1> QED BY <1>0, <1>3, <1>8, BucketKept, RefreshesKept, PartsNext

LEMMA PutAffiliationsKeeps ==
    ASSUME IInv, NEW r \in Requests, PutAffiliations(r)
    PROVE  IInv'
<1> USE TimeAssumption
<1> DEFINE call == request[r]
           m == call.member.value
<1>0. /\ UNCHANGED <<now, enabled, refresh>> /\ call.pc = "put_affiliations"
      /\ Put(AffiliationsKey(m), call.roles)
      /\ request' = [request EXCEPT ![r].pc = "serving"]
  BY DEF PutAffiliations, At
<1>1. call \in CallRecords /\ CallInTime(call, now) /\ now \in Nat /\ enabled \in BOOLEAN
  BY Stepping
<1>2. /\ m \in Members /\ call.roles \in Answers /\ call.roles.subject = m
      /\ call.roles.at <= now /\ now <= call.roles.at + CallLimit
  BY <1>0, <1>1 DEF CallInTime, HasMember, HasRoles, Young, CallRecords, Answers
<1>3. Put(KeyOf(call.roles.subject), call.roles)
  BY <1>0, <1>2, KindAssumption DEF KeyOf
<1>4. BucketOK'
  BY <1>0, <1>2, <1>3, PutKeeps DEF BucketOK
<1>5. RequestsOK'
  BY <1>0, Moved DEF Places, HasMember, HasRoles
<1> QED BY <1>0, <1>1, <1>4, <1>5, RefreshesKept, PartsNext

LEMMA EndKeeps ==
    ASSUME IInv, NEW r \in Requests, Serve(r) \/ GiveUp(r)
    PROVE  IInv'
<1>1. UNCHANGED <<now, enabled, kv, refresh>> /\ request' = [request EXCEPT ![r] = Idle]
  BY DEF Serve, GiveUp
<1>2. RequestsOK'
  BY <1>1, IdleInTime, OneRequest
<1> QED BY <1>1, <1>2, Stepping, BucketKept, RefreshesKept, PartsNext

-----------------------------------------------------------------------------
(* The steps of a refresh, time and restarts.                              *)

LEMMA Refreshing ==
    ASSUME IInv, NEW f \in Refreshes
    PROVE  /\ now \in Nat /\ enabled \in BOOLEAN
           /\ refresh[f] \in RefreshRecords
           /\ PutInTime(refresh[f], now)
BY Parts DEF RefreshesOK, RefreshesInTime

LEMMA RefreshAnsweredKeeps ==
    ASSUME IInv, NEW f \in Refreshes, RefreshAnswered(f)
    PROVE  IInv'
<1> USE TimeAssumption
<1> DEFINE s == refresh[f].subject
<1>0. UNCHANGED <<now, enabled, kv, request>> /\ refresh[f].pc = "calling"
  BY DEF RefreshAnswered
<1>1. PICK a \in Replies(s) :
        refresh' = [refresh EXCEPT ![f].pc = "putting", ![f].answer = a]
  BY DEF RefreshAnswered
<1> DEFINE c == [refresh[f] EXCEPT !.pc = "putting", !.answer = a]
<1>2. refresh' = [refresh EXCEPT ![f] = c]
  BY <1>1, Parts DEF RefreshesOK
<1>3. /\ refresh[f] \in RefreshRecords /\ s \in Subjects
      /\ now \in Nat /\ enabled \in BOOLEAN
  BY <1>0, Refreshing DEF PutInTime
<1>4. a \in Answers /\ a.subject = s /\ a.at = now
  BY <1>3, <1>1, ReplyIsAnswer
<1>5. c \in RefreshRecords
  BY <1>3, <1>4 DEF RefreshRecords
<1>6. c.pc = "putting" /\ c.subject = s /\ c.answer = a
  BY <1>3 DEF RefreshRecords
<1>7. PutInTime(c, now)
  BY <1>3, <1>4, <1>6 DEF PutInTime
<1> HIDE DEF c
<1>8. RefreshesOK'
  BY <1>0, <1>2, <1>5, <1>7, OneRefresh
<1> QED BY <1>0, <1>3, <1>8, BucketKept, RequestsKept, PartsNext

LEMMA RefreshFailsKeeps ==
    ASSUME IInv, NEW f \in Refreshes, RefreshFails(f)
    PROVE  IInv'
<1>1. UNCHANGED <<now, enabled, kv, request>> /\ refresh' = [refresh EXCEPT ![f] = Off]
  BY DEF RefreshFails
<1>2. RefreshesOK'
  BY <1>1, OffInTime, OneRefresh
<1> QED BY <1>1, <1>2, Refreshing, BucketKept, RequestsKept, PartsNext

LEMMA RefreshPutsKeeps ==
    ASSUME IInv, NEW f \in Refreshes, RefreshPuts(f)
    PROVE  IInv'
<1> DEFINE a == refresh[f].answer
<1>1. /\ UNCHANGED <<now, enabled, request>> /\ refresh' = [refresh EXCEPT ![f] = Off]
      /\ Put(KeyOf(refresh[f].subject), a) /\ refresh[f].pc = "putting"
  BY DEF RefreshPuts
<1>2. /\ a \in Answers /\ a.subject = refresh[f].subject
      /\ a.at <= now /\ now <= a.at + CallLimit
  BY <1>1, Refreshing DEF PutInTime
<1>3. BucketOK'
  BY <1>1, <1>2, PutKeeps DEF BucketOK
<1>4. RefreshesOK'
  BY <1>1, OffInTime, OneRefresh
<1> QED BY <1>1, <1>3, <1>4, Refreshing, RequestsKept, PartsNext

LEMMA TickKeeps ==
    ASSUME IInv, Tick
    PROVE  IInv'
<1> USE TimeAssumption
<1>1. /\ now' = now + 1 /\ now \in Nat /\ enabled \in BOOLEAN
      /\ UNCHANGED <<enabled, request, refresh>>
  BY Parts DEF Tick
<1>2. /\ \A k \in DOMAIN kv' : k \in DOMAIN kv /\ kv'[k] = kv[k]
      /\ \A k \in DOMAIN kv' : now' - kv[k].created < TTL
  BY DEF Tick
<1>3. BucketOK'
  <2>1. ASSUME NEW k \in DOMAIN kv'
        PROVE  /\ kv'[k].answer \in Answers /\ kv'[k].created \in Nat
               /\ k = KeyOf(kv'[k].answer.subject)
               /\ EntryInTime(kv'[k], now')
    <3>1. /\ k \in DOMAIN kv /\ kv'[k] = kv[k] /\ now' - kv[k].created < TTL
          /\ kv[k].answer \in Answers /\ kv[k].created \in Nat
          /\ k = KeyOf(kv[k].answer.subject)
          /\ EntryInTime(kv[k], now)
      BY <1>2, Parts DEF BucketOK, EntriesInTime
    <3> QED BY <1>1, <3>1 DEF EntryInTime
  <2> QED BY <2>1 DEF BucketOK, EntriesInTime
<1>4. RequestsOK'
  <2>1. ASSUME NEW r \in Requests
        PROVE  CallInTime(request[r], now')
    <3>1. request[r].pc # "idle" => now < request[r].since + CallLimit
      BY DEF Tick, At, InTime
    <3> QED BY <1>1, <3>1, Stepping DEF CallInTime, Young, CallRecords, Answers, HasMember,
                HasRoles
  <2> QED BY <1>1, <2>1, Parts DEF RequestsOK, RequestsInTime
<1>5. RefreshesOK'
  <2>1. ASSUME NEW f \in Refreshes
        PROVE  PutInTime(refresh[f], now')
    <3>1. refresh[f].pc = "putting" => now < refresh[f].answer.at + CallLimit
      BY DEF Tick, InTime
    <3> QED BY <1>1, <3>1, Refreshing DEF PutInTime, Answers
  <2> QED BY <1>1, <2>1, Parts DEF RefreshesOK, RefreshesInTime
<1> QED BY <1>1, <1>3, <1>4, <1>5, PartsNext

LEMMA RestartKeeps ==
    ASSUME IInv, Restart
    PROVE  IInv'
<1>1. /\ UNCHANGED <<now, kv>> /\ enabled' \in BOOLEAN /\ now \in Nat
      /\ request' = [r \in Requests |-> Idle]
      /\ refresh' = [f \in Refreshes |-> Off]
  BY Parts DEF Restart
<1>2. RequestsOK'
  BY <1>1, IdleInTime DEF RequestsOK, RequestsInTime
<1>3. RefreshesOK'
  BY <1>1, OffInTime DEF RefreshesOK, RefreshesInTime
<1> QED BY <1>1, <1>2, <1>3, BucketKept, PartsNext

-----------------------------------------------------------------------------

LEMMA Initially == Init => IInv
BY IdleInTime, OffInTime DEF Init, IInv, TypeOK, EntriesInTime, RequestsInTime,
   RefreshesInTime, CallRecords, RefreshRecords

LEMMA Inductive == IInv /\ [Next]_vars => IInv'
<1> SUFFICES ASSUME IInv, [Next]_vars PROVE IInv'
  OBVIOUS
<1>1. CASE UNCHANGED vars
  BY <1>1, Parts, PartsNext, BucketKept, RequestsKept, RefreshesKept DEF vars
<1>2. ASSUME NEW r \in Requests,
             \/ LookupMember(r) \/ ResolveMember(r) \/ PutMemberID(r)
             \/ LookupAffiliations(r) \/ GetProjectAffiliations(r)
             \/ PutAffiliations(r) \/ Serve(r) \/ GiveUp(r)
      PROVE  IInv'
  BY <1>2, LookupMemberKeeps, ResolveMemberKeeps, PutMemberIDKeeps,
     LookupAffiliationsKeeps, GetProjectAffiliationsKeeps, PutAffiliationsKeeps, EndKeeps
<1>3. ASSUME NEW f \in Refreshes,
             RefreshAnswered(f) \/ RefreshFails(f) \/ RefreshPuts(f)
      PROVE  IInv'
  BY <1>3, RefreshAnsweredKeeps, RefreshFailsKeeps, RefreshPutsKeeps
<1>4. CASE Tick
  BY <1>4, TickKeeps
<1>5. CASE Restart
  BY <1>5, RestartKeeps
<1> QED BY <1>1, <1>2, <1>3, <1>4, <1>5 DEF Next

(* Every reachable state satisfies the invariant.                          *)
THEOREM Invariant == Spec => []IInv
BY Initially, Inductive, PTL DEF Spec

(* Every variable of the cache model stays in its domain, and an entry is  *)
(* stored under the key of what it is about.                               *)
THEOREM TypeCorrect == Spec => []TypeOK
<1>1. IInv => TypeOK
  BY DEF IInv
<1> QED BY Invariant, <1>1, PTL

(* The affiliations a caller is told were CDP's answer less than the       *)
(* bucket's lifetime and two calls ago (sourceCDPRoles).                   *)
THEOREM BoundedStaleness == Spec => []ServedIsRecent
<1>1. IInv => ServedIsRecent
  <2> SUFFICES ASSUME IInv, NEW r \in Requests, At(r, "serving")
               PROVE  /\ now - request[r].member.at < TTL + 2 * CallLimit
                      /\ now - request[r].roles.at < TTL + 2 * CallLimit
    BY DEF ServedIsRecent
  <2>1. request[r].pc = "serving" /\ request[r].pc \in HasMember /\ request[r].pc \in HasRoles
    BY DEF At, HasMember, HasRoles
  <2> QED BY <2>1, Stepping, TimeAssumption DEF CallInTime, Young, CallRecords, Answers
<1> QED BY Invariant, <1>1, PTL

(* The affiliations a caller is told are those of the member that CDP      *)
(* resolved from that caller, whoever shares the caller's cache key.       *)
THEOREM NoMixUp == Spec => []ServedIsOwn
<1>1. IInv => ServedIsOwn
  <2> SUFFICES ASSUME IInv, NEW r \in Requests, At(r, "serving")
               PROVE  /\ request[r].member.subject = request[r].who
                      /\ request[r].roles.subject = request[r].member.value
    BY DEF ServedIsOwn
  <2> QED BY Stepping DEF CallInTime, At, HasMember, HasRoles
<1> QED BY Invariant, <1>1, PTL

(* An entry served without a refresh holds a young answer.                 *)
THEOREM HonestFreshness == Spec => []FreshIsYoung
<1>1. IInv => FreshIsYoung
  <2> SUFFICES ASSUME IInv, NEW k \in DOMAIN kv, ~IsStale(k)
               PROVE  now - kv[k].answer.at < FreshThreshold + CallLimit
    BY DEF FreshIsYoung
  <2>1. /\ kv[k].answer.at \in Nat /\ kv[k].created \in Nat /\ now \in Nat
        /\ EntryInTime(kv[k], now)
    BY DEF IInv, TypeOK, Answers, EntriesInTime
  <2> QED BY <2>1, TimeAssumption DEF EntryInTime, IsStale
<1> QED BY Invariant, <1>1, PTL

(* A put never replaces an answer by one that is older by more than a call.*)
Forward == \A k \in DOMAIN kv \cap DOMAIN kv' :
                kv'[k].answer.at >= kv[k].answer.at - CallLimit

LEMMA SameIsForward ==
    ASSUME IInv, \A k \in DOMAIN kv \cap DOMAIN kv' : kv'[k] = kv[k]
    PROVE  Forward
<1> SUFFICES ASSUME NEW k \in DOMAIN kv \cap DOMAIN kv'
             PROVE  kv'[k].answer.at >= kv[k].answer.at - CallLimit
  BY DEF Forward
<1>1. kv[k].answer.at \in Nat
  BY DEF IInv, TypeOK, Answers
<1> QED BY <1>1, TimeAssumption

LEMMA PutIsForward ==
    ASSUME IInv, NEW key, NEW a \in Answers, Put(key, a), now <= a.at + CallLimit
    PROVE  Forward
<1>1. CASE UNCHANGED kv
  BY <1>1, SameIsForward
<1>2. CASE kv' = Stored(key, a)
  <2> SUFFICES ASSUME NEW k \in DOMAIN kv \cap DOMAIN kv'
               PROVE  kv'[k].answer.at >= kv[k].answer.at - CallLimit
    BY DEF Forward
  <2>1. kv'[k].answer = a \/ kv'[k] = kv[k]
    BY <1>2 DEF Stored
  <2>2. /\ kv[k].answer.at \in Nat /\ kv[k].created \in Nat /\ now \in Nat
        /\ a.at \in Nat /\ EntryInTime(kv[k], now)
    BY DEF IInv, TypeOK, Answers, EntriesInTime
  <2> QED BY <2>1, <2>2, TimeAssumption DEF EntryInTime
<1> QED BY <1>1, <1>2 DEF Put

(* No put moves an entry back by more than a call: refreshes that overtake *)
(* each other, and requests that store what they fetched on a miss.        *)
THEOREM MovesForward == Spec => EntriesMoveForward
<1>1. IInv /\ [Next]_vars => [Forward]_vars
  <2> SUFFICES ASSUME IInv, Next PROVE Forward
    BY DEF vars
  <2>1. CASE UNCHANGED kv
    BY <2>1, SameIsForward
  <2>2. CASE Tick
    BY <2>2, SameIsForward DEF Tick
  <2>3. ASSUME NEW r \in Requests, PutMemberID(r)
        PROVE  Forward
    <3> DEFINE a == request[r].member
    <3>1. Put(MemberKey(request[r].who), a) /\ request[r].pc = "put_member"
      BY <2>3 DEF PutMemberID, At
    <3>2. a \in Answers /\ now <= a.at + CallLimit
      BY <3>1, Stepping, TimeAssumption
         DEF CallInTime, CallRecords, Answers, HasMember
    <3> QED BY <3>1, <3>2, PutIsForward
  <2>4. ASSUME NEW r \in Requests, PutAffiliations(r)
        PROVE  Forward
    <3> DEFINE a == request[r].roles
    <3>1. Put(AffiliationsKey(request[r].member.value), a)
          /\ request[r].pc = "put_affiliations"
      BY <2>4 DEF PutAffiliations, At
    <3>2. a \in Answers /\ now <= a.at + CallLimit
      BY <3>1, Stepping, TimeAssumption
         DEF CallInTime, CallRecords, Answers, HasRoles
    <3> QED BY <3>1, <3>2, PutIsForward
  <2>5. ASSUME NEW f \in Refreshes, RefreshPuts(f)
        PROVE  Forward
    <3> DEFINE a == refresh[f].answer
    <3>1. Put(KeyOf(refresh[f].subject), a) /\ refresh[f].pc = "putting"
      BY <2>5 DEF RefreshPuts
    <3>2. a \in Answers /\ now <= a.at + CallLimit
      BY <3>1, Refreshing DEF PutInTime
    <3> QED BY <3>1, <3>2, PutIsForward
  <2> QED BY <2>1, <2>2, <2>3, <2>4, <2>5
          DEF Next, LookupMember, ResolveMember, LookupAffiliations,
              GetProjectAffiliations, Serve, GiveUp, RefreshAnswered, RefreshFails, Restart
<1>2. [Forward]_vars => [\A k \in DOMAIN kv \cap DOMAIN kv' :
            kv'[k].answer.at >= kv[k].answer.at - CallLimit]_vars
  BY DEF Forward
<1> QED BY Invariant, <1>1, <1>2, PTL DEF Spec, EntriesMoveForward
=============================================================================
