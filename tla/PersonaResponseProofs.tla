----------------------- MODULE PersonaResponseProofs -----------------------
(***************************************************************************)
(* Proofs about PersonaResponse, for any projects, records and failures.   *)
(***************************************************************************)
EXTENDS PersonaResponse, ListProofs, FiniteSetTheorems

-----------------------------------------------------------------------------
(* What the lists of projects are made of.                                 *)

QueryTables == {MemberRecords, ListRecords, MeetingRecords, SettingsRecords}
Records == MemberRecords \cup ListRecords \cup MeetingRecords \cup SettingsRecords

Tokens == {"board_member", "committee_member", "mailing_list", "meeting_attendance",
           "executive_director", "writer", "auditor", "cdp_roles"}
Uids == {r.uid : r \in Records} \cup ProjectUIDs
AnySlug == {r.slug : r \in Records \cup Affiliations} \cup {f[u] : f \in SlugAnswers, u \in Uids}
Dets == [source : Tokens, id : {r.id : r \in Records \cup Affiliations}]

Project == Projects(Uids, AnySlug, Dets)

HasUid(r) == r.uid # ""

By(token, S) == {[uid |-> r.uid, by |-> [source |-> token, id |-> r.id]] :
                    r \in {x \in S : x.uid # ""}}

LEMMA OneRecordPerId ==
    ASSUME NEW R \in Tables PROVE IsFiniteSet(R) /\ \A r, t \in R : r.id = t.id => r = t
BY RecordAssumption

(* The detection that a record gives, alone in its list.                   *)
Det(token, r) == [source |-> token, id |-> r.id]
One(token, r) == <<Det(token, r)>>

LEMMA ByIn ==
    ASSUME NEW token, NEW S, NEW d
    PROVE  d \in By(token, S) <=>
             \E r \in S : HasUid(r) /\ d = [uid |-> r.uid, by |-> Det(token, r)]
BY Zenon DEF By, Det, HasUid

LEMMA OneDetection ==
    ASSUME NEW token, NEW r
    PROVE  /\ DOMAIN One(token, r) = {1} /\ One(token, r)[1] = Det(token, r)
           /\ One(token, r) # <<>> /\ IsInjective(One(token, r))
           /\ \A S : Det(token, r) \in S => One(token, r) \in Seq(S)
BY DEF IsInjective, One

(* A list with one detection per entry, each of a record of its own.       *)
LEMMA SingleDetections ==
    ASSUME NEW R \in Tables, NEW w \in Seq(R), IsInjective(w), NEW token,
           NEW L \in Seq(Project), DOMAIN L = DOMAIN w,
           \A i \in DOMAIN w : HasUid(L[i]) /\ L[i].detections = One(token, w[i])
    PROVE  /\ Filled(L) /\ Once(L)
           /\ \A d : d \in Pairs(L) <=>
                \E i \in DOMAIN w : d = [uid |-> L[i].uid, by |-> Det(token, w[i])]
<1>1. Filled(L)
  <2>1. \A i \in DOMAIN L : HasUid(L[i]) /\ L[i].detections # <<>>
    BY OneDetection
  <2>. QED  BY <2>1, Zenon DEF Filled, HasUid
<1>2. ASSUME NEW i \in DOMAIN w, NEW d
      PROVE  d \in PairsOf(L[i]) <=> d = [uid |-> L[i].uid, by |-> Det(token, w[i])]
  <2>1. /\ DOMAIN L[i].detections = {1}
        /\ L[i].detections[1] = Det(token, w[i])
    BY OneDetection
  <2>. QED  BY <2>1, Zenon DEF PairsOf
<1>3. InEntriesOnce(L)
  BY OneDetection DEF InEntriesOnce
<1>4. ASSUME NEW i \in DOMAIN w, NEW j \in DOMAIN w, i # j,
             NEW d \in PairsOf(L[i]) \cap PairsOf(L[j])
      PROVE  FALSE
  <2>1. d.by = Det(token, w[i]) /\ d.by = Det(token, w[j])
    BY <1>2
  <2>2. w[i].id = w[j].id
    BY <2>1 DEF Det
  <2>3. w[i] \in R /\ w[j] \in R
    OBVIOUS
  <2>. QED  BY <1>4, <2>2, <2>3, OneRecordPerId DEF IsInjective
<1>5. Once(L)
  BY <1>3, <1>4 DEF Once
<1>6. \A d : d \in Pairs(L) <=>
             \E i \in DOMAIN w : d = [uid |-> L[i].uid, by |-> Det(token, w[i])]
  BY <1>2, PairsIn
<1>. QED  BY <1>1, <1>5, <1>6

LEMMA RecordTypes ==
    ASSUME NEW R \in QueryTables, NEW r \in R
    PROVE  r.uid \in Uids /\ r.slug \in AnySlug /\ r.id \in {x.id : x \in Records \cup Affiliations}
<1>1. r \in Records
  BY DEF QueryTables, Tables, Records
<1>. QED  BY <1>1 DEF Uids, AnySlug

(* The loops at the end of the query sources.                              *)
LEMMA DetectionsFacts ==
    ASSUME NEW R \in QueryTables, NEW q \in Seq(R), IsInjective(q), NEW token \in Tokens
    PROVE  /\ Detections(q, token) \in Seq(Project)
           /\ Filled(Detections(q, token)) /\ Once(Detections(q, token))
           /\ Pairs(Detections(q, token)) = By(token, Range(q))
<1>. DEFINE S == {r \in Range(q) : HasUid(r)}
            w == Only(q, S)
            L == Detections(q, token)
<1>1. L = [i \in DOMAIN w |-> [uid |-> w[i].uid, slug |-> w[i].slug,
                               detections |-> One(token, w[i])]]
  BY ToSetIsRange, Zenon DEF Detections, One, Det, HasUid
<1>2. R \in Tables
  BY DEF QueryTables, Tables
<1>3. Range(q) \cap S = S
  OBVIOUS
<1>. HIDE DEF S
<1>4. w \in Seq(R) /\ Range(w) = S /\ IsInjective(w)
  BY <1>3, OnlyFacts
<1>. HIDE DEF w, L
<1>5. DOMAIN w = 1..Len(w) /\ Len(w) \in Nat
  BY <1>4
<1>6. ASSUME NEW i \in DOMAIN w PROVE L[i] \in Project /\ HasUid(w[i])
  <2>1. w[i] \in R /\ HasUid(w[i])
    BY <1>4 DEF Range, S
  <2>2. Det(token, w[i]) \in Dets
    BY <2>1, RecordTypes DEF Dets, Det
  <2>3. One(token, w[i]) \in Seq(Dets)
    BY <2>2, OneDetection
  <2>. QED  BY <1>1, <2>1, <2>3, RecordTypes DEF Project, Projects
<1>7. L \in Seq(Project) /\ DOMAIN L = DOMAIN w
  BY <1>1, <1>5, <1>6
<1>8. \A i \in DOMAIN w :
         L[i].uid = w[i].uid /\ HasUid(L[i]) /\ L[i].detections = One(token, w[i])
  <2>1. \A i \in DOMAIN w : L[i].uid = w[i].uid /\ L[i].detections = One(token, w[i])
    BY <1>1
  <2>. QED  BY <1>6, <2>1, Zenon DEF HasUid
<1>9. /\ Filled(L) /\ Once(L)
      /\ \A d : d \in Pairs(L) <=>
            \E i \in DOMAIN w : d = [uid |-> L[i].uid, by |-> Det(token, w[i])]
  BY <1>2, <1>4, <1>7, <1>8, SingleDetections
<1>10. \A d : d \in Pairs(L) <=> d \in By(token, Range(q))
  <2>1. \A r : (r \in Range(q) /\ HasUid(r)) <=> \E i \in DOMAIN w : r = w[i]
    BY <1>4, Zenon DEF Range, S
  <2>. QED  BY <1>8, <1>9, <2>1, ByIn
<1>. QED  BY <1>7, <1>9, <1>10 DEF L

-----------------------------------------------------------------------------
(* The answers of the upstream services, and of a source's two legs.       *)

(* An answer of records of R, among Hi; if it is no error, all of Lo.      *)
LegOf(leg, R, Lo, Hi) ==
    /\ leg \in [err : BOOLEAN, records : Seq(R)] /\ IsInjective(leg.records)
    /\ Range(leg.records) \subseteq Hi
    /\ ~leg.err => Lo \subseteq Range(leg.records)

LEMMA NoRecords ==
    ASSUME NEW R
    PROVE  <<>> \in Seq(R) /\ Range(<<>>) = {} /\ IsInjective(<<>>)
BY DEF Range, IsInjective

LEMMA AllOnce ==
    ASSUME NEW S, IsFiniteSet(S), NEW q \in SetToSeqs(S)
    PROVE  q \in Seq(S) /\ IsInjective(q) /\ Range(q) = S
<1>. DEFINE n == Cardinality(S)
<1>1. n \in Nat
  BY FS_CardinalityType
<1>2. q \in [1..n -> S] /\ \A i, j \in 1..n : i # j => q[i] # q[j]
  BY DEF SetToSeqs
<1>3. q \in Injection(1..n, S)
  BY <1>2 DEF Injection, IsInjective
<1>4. Cardinality(1..n) = n
  BY <1>1, FS_Interval
<1>5. q \in Surjection(1..n, S)
  BY <1>3, <1>4, FS_Injection
<1>6. Range(q) = S
  BY <1>2, <1>5 DEF Surjection, Range
<1>. QED  BY <1>1, <1>2, <1>3, <1>6 DEF Injection

LEMMA AnswersFacts ==
    ASSUME NEW R \in Tables, NEW S \in SUBSET R, NEW leg \in Answers(S)
    PROVE  LegOf(leg, R, S, S)
<1>1. CASE leg = Failed
  BY <1>1, NoRecords DEF Failed, LegOf
<1>2. ASSUME NEW q \in SetToSeqs(S), leg = Found(q) PROVE LegOf(leg, R, S, S)
  <2>1. IsFiniteSet(S)
    BY OneRecordPerId, FS_Subset
  <2>2. q \in Seq(S) /\ IsInjective(q) /\ Range(q) = S
    BY <2>1, AllOnce
  <2>3. q \in Seq(R)
    BY <2>2
  <2>. QED  BY <1>2, <2>2, <2>3 DEF Found, LegOf
<1>. QED  BY <1>1, <1>2 DEF Answers

(* A leg over `filters' or `filters_all' finds what matches, or more.      *)
LEMMA FilterAnswers ==
    ASSUME NEW R \in Tables, NEW S \in SUBSET R, NEW M,
           NEW leg, \E X \in SUBSET S : (\A r \in S : r \in M => r \in X) /\ leg \in Answers(X)
    PROVE  LegOf(leg, R, S \cap M, S)
<1>1. PICK X \in SUBSET S : (\A r \in S : r \in M => r \in X) /\ leg \in Answers(X)
  OBVIOUS
<1>2. LegOf(leg, R, X, X)
  BY <1>1, AnswersFacts
<1>. QED  BY <1>1, <1>2 DEF LegOf

Emailed(S) == {r \in S : r.email}
Named(S) == {r \in S : hasUsername /\ NamesRequester(r)}
Mine(S) == {r \in S : IsMine(r)}

LEMMA EmailLegFacts ==
    ASSUME NEW R \in Tables, NEW S \in SUBSET R, NEW leg \in EmailLeg(S)
    PROVE  LegOf(leg, R, Emailed(S), Emailed(S))
<1>1. leg \in Answers(Emailed(S))
  BY Zenon DEF EmailLeg, ByTag, HasEmail, Emailed
<1>2. Emailed(S) \in SUBSET R
  BY DEF Emailed
<1>. QED  BY <1>1, <1>2, AnswersFacts

LEMMA SkippedFacts ==
    ASSUME NEW R, NEW leg \in Skipped, NEW S, ~hasUsername
    PROVE  LegOf(leg, R, Named(S), Named(S))
<1>1. Named(S) = {}
  BY DEF Named
<1>2. leg = [err |-> FALSE, records |-> <<>>]
  BY DEF Skipped, Found
<1>3. PICK q : q = <<>>
  OBVIOUS
<1>4. q \in Seq(R) /\ Range(q) = {} /\ IsInjective(q)
  BY <1>3, NoRecords
<1>5. leg.err = FALSE /\ leg.records = q /\ leg \in [err : BOOLEAN, records : Seq(R)]
  BY <1>2, <1>3, <1>4
<1>. QED  BY <1>1, <1>4, <1>5 DEF LegOf

LEMMA FilterLegFacts ==
    ASSUME NEW R \in Tables, NEW S \in SUBSET R, NEW leg \in UsernameFilterLeg(S)
    PROVE  LegOf(leg, R, Named(S), IF hasUsername THEN S ELSE {})
<1>1. CASE hasUsername
  <2>. DEFINE M == {r \in S : NamesRequester(r)}
  <2>1. \E X \in SUBSET S : (\A r \in S : r \in M => r \in X) /\ leg \in Answers(X)
    BY <1>1, Zenon DEF UsernameFilterLeg, ByFilter
  <2>2. S \cap M = Named(S)
    BY <1>1 DEF Named
  <2>. HIDE DEF M
  <2>. QED  BY <1>1, <2>1, <2>2, FilterAnswers
<1>2. CASE ~hasUsername
  <2>1. Named(S) = {}
    BY <1>2 DEF Named
  <2>. QED  BY <1>2, <2>1, SkippedFacts DEF UsernameFilterLeg
<1>. QED  BY <1>1, <1>2

LEMMA TagLegFacts ==
    ASSUME NEW R \in Tables, NEW S \in SUBSET R, NEW leg \in UsernameTagLeg(S)
    PROVE  LegOf(leg, R, Named(S), Named(S))
<1>1. CASE hasUsername
  <2>1. {r \in S : NamesRequester(r)} = Named(S) /\ Named(S) \in SUBSET R
    BY <1>1 DEF Named
  <2>2. leg \in Answers({r \in S : NamesRequester(r)})
    BY <1>1, Zenon DEF UsernameTagLeg, ByTag
  <2>. QED  BY <2>1, <2>2, AnswersFacts
<1>2. CASE ~hasUsername
  BY <1>2, SkippedFacts DEF UsernameTagLeg
<1>. QED  BY <1>1, <1>2

(* The post-filter drops the records of other users.                       *)
LEMMA FilteredFacts ==
    ASSUME NEW R \in Tables, NEW S \in SUBSET R, NEW leg \in UsernameFilterLeg(S)
    PROVE  LegOf(Filtered(leg), R, Named(S), Named(S)) /\ Filtered(leg).err = leg.err
<1>1. LegOf(leg, R, Named(S), IF hasUsername THEN S ELSE {})
  BY FilterLegFacts
<1>. DEFINE q == leg.records
            M == {r \in ToSet(q) : NamesRequester(r)}
            f == Only(q, M)
<1>2. Filtered(leg) = [leg EXCEPT !.records = f]
  BY Zenon DEF Filtered, PostFilter
<1>3. Range(q) \cap M = {r \in Range(q) : NamesRequester(r)}
  BY ToSetIsRange
<1>. HIDE DEF M
<1>4. f \in Seq(R) /\ Range(f) = Range(q) \cap M /\ IsInjective(f)
  BY <1>1, OnlyFacts DEF LegOf
<1>. HIDE DEF f
<1>5. Filtered(leg) \in [err : BOOLEAN, records : Seq(R)] /\ Filtered(leg).err = leg.err
      /\ Filtered(leg).records = f
  BY <1>1, <1>2, <1>4 DEF LegOf
<1>. QED  BY <1>1, <1>3, <1>4, <1>5 DEF LegOf, Named

LEMMA TwoLegsFacts ==
    ASSUME NEW R \in Tables, NEW ELo, NEW EHi, NEW ULo, NEW UHi,
           NEW e, LegOf(e, R, ELo, EHi), NEW u, LegOf(u, R, ULo, UHi)
    PROVE  /\ LegOf(TwoLegs(e, u), R, {}, EHi \cup UHi)
           /\ ~e.err /\ ~u.err =>
                ~TwoLegs(e, u).err /\ LegOf(TwoLegs(e, u), R, ELo \cup ULo, EHi \cup UHi)
<1>. DEFINE q == e.records \o u.records
            f == DeduplicateResources(q)
            t == TwoLegs(e, u)
<1>1. q \in Seq(R) /\ Range(q) = Range(e.records) \cup Range(u.records)
  BY ConcatFacts DEF LegOf
<1>. HIDE DEF q
<1>2. f \in Seq(R) /\ Range(f) = Range(q) /\ IsInjective(f)
  BY <1>1, OneRecordPerId, DedupKeepsAll
<1>3. t = IF e.err /\ u.err THEN Failed ELSE Found(f)
  BY DEF TwoLegs, q
<1>. SUFFICES /\ LegOf(t, R, {}, EHi \cup UHi)
              /\ ~e.err /\ ~u.err => ~t.err /\ LegOf(t, R, ELo \cup ULo, EHi \cup UHi)
  OBVIOUS
<1>. HIDE DEF f, t
<1>4. CASE e.err /\ u.err
  <2>1. PICK n : n = <<>>
    OBVIOUS
  <2>2. n \in Seq(R) /\ Range(n) = {} /\ IsInjective(n)
    BY <2>1, NoRecords
  <2>3. t.err = TRUE /\ t.records = n /\ t \in [err : BOOLEAN, records : Seq(R)]
    BY <1>3, <1>4, <2>1, <2>2 DEF Failed
  <2>. QED  BY <1>4, <2>2, <2>3 DEF LegOf
<1>5. CASE ~(e.err /\ u.err)
  <2>1. t.err = FALSE /\ t.records = f /\ t \in [err : BOOLEAN, records : Seq(R)]
    BY <1>2, <1>3, <1>5 DEF Found
  <2>. QED  BY <1>1, <1>2, <2>1 DEF LegOf
<1>. QED  BY <1>4, <1>5

(* Whatever the username leg is, two legs find the requester's records.    *)
LEMMA QueryFacts ==
    ASSUME NEW R \in Tables, NEW S \in SUBSET R, NEW e \in EmailLeg(S),
           NEW u, LegOf(u, R, Named(S), Named(S))
    PROVE  /\ LegOf(TwoLegs(e, u), R, {}, Mine(S))
           /\ ~e.err /\ ~u.err =>
                ~TwoLegs(e, u).err /\ LegOf(TwoLegs(e, u), R, Mine(S), Mine(S))
<1>1. Emailed(S) \cup Named(S) = Mine(S)
  BY DEF Emailed, Named, Mine, IsMine
<1>2. LegOf(e, R, Emailed(S), Emailed(S))
  BY EmailLegFacts
<1>3. /\ LegOf(TwoLegs(e, u), R, {}, Emailed(S) \cup Named(S))
      /\ ~e.err /\ ~u.err =>
           /\ ~TwoLegs(e, u).err
           /\ LegOf(TwoLegs(e, u), R, Emailed(S) \cup Named(S), Emailed(S) \cup Named(S))
  BY <1>2, TwoLegsFacts, Zenon
<1>. QED  BY <1>1, <1>3

-----------------------------------------------------------------------------
(* What a source delivers.                                                 *)

Sources == {"board_member+committee", "mailing_list", "meeting_attendance",
            "executive_director", "writer+auditor", "cdp_roles"}

LEMMA TokensAre ==
    /\ TokensOf("board_member+committee") = {"board_member", "committee_member"}
    /\ TokensOf("mailing_list") = {"mailing_list"}
    /\ TokensOf("meeting_attendance") = {"meeting_attendance"}
    /\ TokensOf("executive_director") = {"executive_director"}
    /\ TokensOf("writer+auditor") = {"writer", "auditor"}
    /\ TokensOf("cdp_roles") = {"cdp_roles"}
BY DEF TokensOf

LEMMA TokensApart ==
    \A s, t \in Sources : s # t => TokensOf(s) \cap TokensOf(t) = {}
BY TokensAre DEF Sources

WorldInv ==
    /\ world.members \in SUBSET MemberRecords /\ world.lists \in SUBSET ListRecords
    /\ world.meetings \in SUBSET MeetingRecords /\ world.settings \in SUBSET SettingsRecords
    /\ world.affiliations \in SUBSET Affiliations

Boards == {r \in world.members : r.board}
Settings == IF hasUsername THEN world.settings ELSE {}

LEMMA JustifiedIs ==
    /\ Justified["board_member"] = By("board_member", Mine(Boards))
    /\ Justified["committee_member"] = By("committee_member", Mine(world.members))
    /\ Justified["mailing_list"] = By("mailing_list", Mine(world.lists))
    /\ Justified["meeting_attendance"] = By("meeting_attendance", Mine(world.meetings))
    /\ Justified["executive_director"] =
            By("executive_director", {r \in Settings : r.ed = "me"})
    /\ Justified["writer"] = By("writer", {r \in Settings : r.writer})
    /\ Justified["auditor"] = By("auditor", {r \in Settings : r.auditor})
<1>1. Mine(Boards) = {r \in world.members : r.board /\ IsMine(r)}
  BY DEF Mine, Boards
<1>. QED  BY <1>1 DEF Justified, By, Mine, Settings

LEMMA ByGrows ==
    ASSUME NEW token, NEW S, NEW T, S \subseteq T PROVE By(token, S) \subseteq By(token, T)
BY ByIn

LEMMA ByToken == ASSUME NEW token, NEW S, NEW d \in By(token, S) PROVE d.by.source = token
BY ByIn DEF Det

IsResolved(d) ==
    \E a \in world.affiliations :
       a.id = d.by.id /\ ~a.nonlf /\ d.uid \in ProjectUIDs /\ a.slug = SlugOf[d.uid]

Fits(d) ==
    /\ d.by.source # "cdp_roles" => d \in Justified[d.by.source]
    /\ d.by.source = "cdp_roles" => IsResolved(d)

Twins(P) ==
    \A d \in P : d.by.source = "board_member" =>
                    [d EXCEPT !.by.source = "committee_member"] \in P

(* A list that source s may deliver.                                       *)
GoodList(L, s) ==
    /\ L \in Seq(Project) /\ Filled(L) /\ Once(L) /\ Twins(Pairs(L))
    /\ \A d \in Pairs(L) : d.by.source \in TokensOf(s) /\ Fits(d)

FullList(L, s) == \A token \in TokensOf(s) : Justified[token] \subseteq Pairs(L)

GoodDelivery(s, result, legs) ==
    /\ ~result.err => GoodList(result.records, s)
    /\ s # "cdp_roles" /\ (\A l \in legs : ~l.err) =>
            ~result.err /\ FullList(result.records, s)

LEMMA NothingIsGood == \A s : GoodList(<<>>, s) /\ Pairs(<<>>) = {}
<1>1. PICK n : n = <<>>
  OBVIOUS
<1>2. n \in Seq(Project) /\ DOMAIN n = {}
  BY <1>1
<1>3. Pairs(n) = {} /\ Filled(n) /\ Once(n)
  BY <1>2 DEF Pairs, Filled, Once, InEntriesOnce
<1>4. \A s : GoodList(n, s)
  BY <1>2, <1>3 DEF GoodList, Twins
<1>. QED  BY <1>1, <1>3, <1>4

LEMMA OneToken ==
    ASSUME NEW token \in Tokens \ {"board_member", "cdp_roles"}, NEW s, TokensOf(s) = {token},
           NEW L \in Seq(Project), Filled(L), Once(L), Pairs(L) \subseteq Justified[token],
           NEW S, Justified[token] = By(token, S)
    PROVE  GoodList(L, s)
<1>1. \A d \in Pairs(L) : d.by.source = token
  BY ByToken
<1>. QED  BY <1>1 DEF GoodList, Fits, Twins

LEMMA TablesAre ==
    /\ QueryTables \subseteq Tables
    /\ {MemberRecords, ListRecords, MeetingRecords, SettingsRecords} \subseteq QueryTables
BY DEF QueryTables, Tables

(* A source of one search, in two legs, and one token.                     *)
LEMMA OneSearch ==
    ASSUME NEW R \in QueryTables, NEW S \in SUBSET R, NEW e \in EmailLeg(S),
           NEW u, LegOf(u, R, Named(S), Named(S)), NEW legs,
           (\A l \in legs : ~l.err) => ~e.err /\ ~u.err,
           NEW token \in Tokens \ {"board_member", "cdp_roles"}, NEW s, TokensOf(s) = {token},
           Justified[token] = By(token, Mine(S))
    PROVE  GoodDelivery(s, [TwoLegs(e, u) EXCEPT !.records = Detections(@, token)], legs)
<1>. DEFINE t == TwoLegs(e, u)
            L == Detections(t.records, token)
            r == [t EXCEPT !.records = L]
<1>1. /\ LegOf(t, R, {}, Mine(S))
      /\ ~e.err /\ ~u.err => ~t.err /\ LegOf(t, R, Mine(S), Mine(S))
  BY TablesAre, QueryFacts
<1>. HIDE DEF t
<1>2. L \in Seq(Project) /\ Filled(L) /\ Once(L) /\ Pairs(L) = By(token, Range(t.records))
  BY <1>1, DetectionsFacts DEF LegOf
<1>3. r.err = t.err /\ r.records = L
  BY <1>1 DEF LegOf
<1>. HIDE DEF L, r
<1>4. Pairs(L) \subseteq Justified[token]
  BY <1>1, <1>2, ByGrows DEF LegOf
<1>5. GoodList(L, s)
  BY <1>2, <1>4, OneToken
<1>6. (\A l \in legs : ~l.err) => ~t.err /\ Justified[token] \subseteq Pairs(L)
  BY <1>1, <1>2, ByGrows DEF LegOf
<1>7. GoodDelivery(s, r, legs)
  BY <1>3, <1>5, <1>6 DEF GoodDelivery, FullList
<1>. QED  BY <1>7 DEF r, L, t

LEMMA MailingListGood ==
    ASSUME WorldInv, NEW e \in EmailLeg(world.lists), NEW u \in UsernameFilterLeg(world.lists)
    PROVE  GoodDelivery("mailing_list", MailingList(e, u), {e, u})
<1>1. ListRecords \in QueryTables /\ ListRecords \in Tables /\ world.lists \in SUBSET ListRecords
  BY TablesAre DEF WorldInv
<1>2. LegOf(Filtered(u), ListRecords, Named(world.lists), Named(world.lists))
      /\ Filtered(u).err = u.err
  BY <1>1, FilteredFacts
<1>3. GoodDelivery("mailing_list",
         [TwoLegs(e, Filtered(u)) EXCEPT !.records = Detections(@, "mailing_list")], {e, u})
  <2>. DEFINE f == Filtered(u)
  <2>1. (\A l \in {e, u} : ~l.err) => ~e.err /\ ~f.err
    BY <1>2
  <2>2. "mailing_list" \in Tokens \ {"board_member", "cdp_roles"}
    BY DEF Tokens
  <2>. HIDE DEF f
  <2>3. GoodDelivery("mailing_list",
           [TwoLegs(e, f) EXCEPT !.records = Detections(@, "mailing_list")], {e, u})
    BY <1>1, <1>2, <2>1, <2>2, TokensAre, JustifiedIs, OneSearch DEF f
  <2>. QED  BY <2>3 DEF f
<1>. QED  BY <1>3 DEF MailingList

LEMMA MeetingsGood ==
    ASSUME WorldInv, NEW e \in EmailLeg(world.meetings), NEW u \in UsernameTagLeg(world.meetings)
    PROVE  GoodDelivery("meeting_attendance", MeetingAttendance(e, u), {e, u})
<1>1. MeetingRecords \in QueryTables /\ MeetingRecords \in Tables
      /\ world.meetings \in SUBSET MeetingRecords
  BY TablesAre DEF WorldInv
<1>2. LegOf(u, MeetingRecords, Named(world.meetings), Named(world.meetings))
  BY <1>1, TagLegFacts
<1>3. "meeting_attendance" \in Tokens \ {"board_member", "cdp_roles"}
  BY DEF Tokens
<1>4. GoodDelivery("meeting_attendance",
         [TwoLegs(e, u) EXCEPT !.records = Detections(@, "meeting_attendance")], {e, u})
  BY <1>1, <1>2, <1>3, TokensAre, JustifiedIs, OneSearch
<1>. QED  BY <1>4 DEF MeetingAttendance

(* The committee source: a member of a board is a member of a committee,   *)
(* whichever of the four legs answered.                                    *)
LEMMA CommitteesGood ==
    ASSUME WorldInv, NEW be \in EmailLeg(Boards), NEW bu \in UsernameFilterLeg(Boards),
           NEW ae \in EmailLeg(world.members), NEW au \in UsernameFilterLeg(world.members)
    PROVE  GoodDelivery("board_member+committee", BoardMemberAndCommittee(be, bu, ae, au),
                        {be, bu, ae, au})
<1>. DEFINE s == "board_member+committee"
            board == TwoLegs(be, Filtered(bu))
            all == TwoLegs(ae, Filtered(au))
            members == DeduplicateResources(board.records \o all.records)
            B == Detections(board.records, "board_member")
            C == Detections(members, "committee_member")
            L == IF members = <<>> THEN <<>> ELSE MergeProjects(B, C)
            AllAnswered == \A l \in {be, bu, ae, au} : ~l.err
<1>1. BoardMemberAndCommittee(be, bu, ae, au) = Found(L)
  BY Zenon DEF BoardMemberAndCommittee, CommitteeRecords
<1>2. /\ MemberRecords \in QueryTables /\ MemberRecords \in Tables
      /\ world.members \in SUBSET MemberRecords /\ Boards \in SUBSET MemberRecords
      /\ Mine(Boards) \subseteq Mine(world.members)
  BY TablesAre DEF WorldInv, Boards, Mine
<1>3. /\ LegOf(board, MemberRecords, {}, Mine(Boards))
      /\ AllAnswered => LegOf(board, MemberRecords, Mine(Boards), Mine(Boards)) /\ ~board.err
  <2>. DEFINE f == Filtered(bu)
  <2>1. LegOf(f, MemberRecords, Named(Boards), Named(Boards)) /\ f.err = bu.err
    BY <1>2, FilteredFacts
  <2>. HIDE DEF f
  <2>2. /\ LegOf(TwoLegs(be, f), MemberRecords, {}, Mine(Boards))
        /\ ~be.err /\ ~f.err =>
             /\ ~TwoLegs(be, f).err
             /\ LegOf(TwoLegs(be, f), MemberRecords, Mine(Boards), Mine(Boards))
    BY <1>2, <2>1, QueryFacts
  <2>. QED  BY <2>1, <2>2 DEF f
<1>4. /\ LegOf(all, MemberRecords, {}, Mine(world.members))
      /\ AllAnswered =>
            LegOf(all, MemberRecords, Mine(world.members), Mine(world.members)) /\ ~all.err
  <2>. DEFINE f == Filtered(au)
              W == world.members
  <2>1. LegOf(f, MemberRecords, Named(W), Named(W)) /\ f.err = au.err
    BY <1>2, FilteredFacts
  <2>. HIDE DEF f, W
  <2>2. W \in SUBSET MemberRecords /\ ae \in EmailLeg(W)
    BY <1>2 DEF W
  <2>3. /\ LegOf(TwoLegs(ae, f), MemberRecords, {}, Mine(W))
        /\ ~ae.err /\ ~f.err =>
             ~TwoLegs(ae, f).err /\ LegOf(TwoLegs(ae, f), MemberRecords, Mine(W), Mine(W))
    BY <1>2, <2>1, <2>2, QueryFacts
  <2>. QED  BY <2>1, <2>3 DEF f, W
<1>. HIDE DEF board, all
<1>5. /\ members \in Seq(MemberRecords) /\ IsInjective(members)
      /\ Range(members) = Range(board.records) \cup Range(all.records)
  <2>. DEFINE q == board.records \o all.records
  <2>1. q \in Seq(MemberRecords) /\ Range(q) = Range(board.records) \cup Range(all.records)
    BY <1>3, <1>4, ConcatFacts DEF LegOf
  <2>. HIDE DEF q
  <2>2. /\ DeduplicateResources(q) \in Seq(MemberRecords)
        /\ Range(DeduplicateResources(q)) = Range(q) /\ IsInjective(DeduplicateResources(q))
    BY <1>2, <2>1, OneRecordPerId, DedupKeepsAll
  <2>. QED  BY <2>1, <2>2 DEF q
<1>. HIDE DEF members
<1>6. /\ B \in Seq(Project) /\ Filled(B) /\ Once(B)
      /\ Pairs(B) = By("board_member", Range(board.records))
  BY <1>2, <1>3, DetectionsFacts DEF LegOf, Tokens
<1>7. /\ C \in Seq(Project) /\ Filled(C) /\ Once(C)
      /\ Pairs(C) = By("committee_member", Range(members))
  BY <1>2, <1>5, DetectionsFacts DEF Tokens
<1>. HIDE DEF B, C
<1>8. /\ MergeProjects(B, C) \in Seq(Project)
      /\ Merged(MergeProjects(B, C), B, C)
  BY <1>6, <1>7, MergeProjectsFacts DEF Project
<1>9. Pairs(B) \cap Pairs(C) = {}
  <2>1. \A d \in Pairs(B) : d.by.source = "board_member"
    BY <1>6, ByToken
  <2>2. \A d \in Pairs(C) : d.by.source = "committee_member"
    BY <1>7, ByToken
  <2>. QED  BY <2>1, <2>2
<1>10. /\ L \in Seq(Project) /\ Filled(L) /\ Once(L)
       /\ Pairs(L) = Pairs(B) \cup Pairs(C)
  <2>1. CASE members = <<>>
    <3>1. Range(members) = {}
      BY <2>1, NoRecords
    <3>2. Pairs(B) = {} /\ Pairs(C) = {}
      BY <1>5, <1>6, <1>7, <3>1, ByIn
    <3>3. L = <<>>
      BY <2>1
    <3>4. GoodList(L, s) /\ Pairs(L) = {}
      BY <3>3, NothingIsGood
    <3>. QED  BY <3>2, <3>4 DEF GoodList
  <2>2. CASE members # <<>>
    <3>1. L = MergeProjects(B, C)
      BY <2>2
    <3>. QED  BY <1>6, <1>7, <1>8, <1>9, <3>1 DEF Merged
  <2>. QED  BY <2>1, <2>2
<1>. HIDE DEF L
<1>11. Twins(Pairs(L))
  <2>. SUFFICES ASSUME NEW d \in Pairs(L), d.by.source = "board_member"
                PROVE  [d EXCEPT !.by.source = "committee_member"] \in Pairs(L)
    BY Zenon DEF Twins
  <2>1. d \in Pairs(B)
    BY <1>7, <1>10, ByToken
  <2>2. PICK r \in Range(board.records) :
          HasUid(r) /\ d = [uid |-> r.uid, by |-> Det("board_member", r)]
    BY <1>6, <2>1, ByIn
  <2>3. [d EXCEPT !.by.source = "committee_member"]
          = [uid |-> r.uid, by |-> Det("committee_member", r)]
    BY <2>2 DEF Det
  <2>. QED  BY <1>5, <1>7, <1>10, <2>2, <2>3, ByIn
<1>12. ASSUME NEW d \in Pairs(L) PROVE d.by.source \in TokensOf(s) /\ Fits(d)
  <2>1. CASE d \in Pairs(B)
    <3>1. d.by.source = "board_member"
      BY <1>6, <2>1, ByToken
    <3>2. d \in Justified["board_member"]
      BY <1>3, <1>6, <2>1, ByGrows, JustifiedIs DEF LegOf
    <3>. QED  BY <3>1, <3>2, TokensAre DEF Fits
  <2>2. CASE d \in Pairs(C)
    <3>1. d.by.source = "committee_member"
      BY <1>7, <2>2, ByToken
    <3>2. Range(members) \subseteq Mine(world.members)
      BY <1>2, <1>3, <1>4, <1>5 DEF LegOf
    <3>3. d \in Justified["committee_member"]
      BY <1>7, <2>2, <3>2, ByGrows, JustifiedIs
    <3>. QED  BY <3>1, <3>3, TokensAre DEF Fits
  <2>. QED  BY <1>10, <2>1, <2>2
<1>13. ASSUME AllAnswered PROVE FullList(L, s)
  <2>1. Justified["board_member"] \subseteq Pairs(L)
    BY <1>3, <1>6, <1>10, <1>13, ByGrows, JustifiedIs DEF LegOf
  <2>2. Justified["committee_member"] \subseteq Pairs(L)
    BY <1>4, <1>5, <1>7, <1>10, <1>13, ByGrows, JustifiedIs DEF LegOf
  <2>. QED  BY <2>1, <2>2, TokensAre DEF FullList
<1>14. GoodList(L, s)
  BY <1>10, <1>11, <1>12 DEF GoodList
<1>15. Found(L).err = FALSE /\ Found(L).records = L
  BY DEF Found
<1>16. GoodDelivery(s, Found(L), {be, bu, ae, au})
  BY <1>13, <1>14, <1>15 DEF GoodDelivery
<1>. QED  BY <1>1, <1>16

(* Without a username two of the sources have nothing to deliver, and      *)
(* nothing is missing.                                                     *)
LEMMA NoUsernameGood ==
    ASSUME ~hasUsername, NEW s \in {"executive_director", "writer+auditor"}
    PROVE  GoodDelivery(s, Found(<<>>), {})
<1>1. PICK n : n = <<>>
  OBVIOUS
<1>2. GoodList(n, s) /\ Pairs(n) = {}
  BY <1>1, NothingIsGood
<1>3. Settings = {}
  BY DEF Settings
<1>4. \A token, S : S = {} => By(token, S) = {}
  BY ByIn
<1>5. FullList(n, s)
  <2>1. {r \in Settings : r.ed = "me"} = {} /\ {r \in Settings : r.writer} = {}
        /\ {r \in Settings : r.auditor} = {}
    BY <1>3
  <2>. QED  BY <1>4, <2>1, TokensAre, JustifiedIs DEF FullList
<1>6. GoodDelivery(s, Found(n), {})
  BY <1>2, <1>5 DEF GoodDelivery, Found
<1>. QED  BY <1>1, <1>6

(* The slugs that are filled in leave the projects what they are.          *)
LEMMA WithSlugsFacts ==
    ASSUME NEW L \in Seq(Project), NEW resolve \in SlugAnswers
    PROVE  LET W == WithSlugs(L, resolve)
           IN  /\ W \in Seq(Project) /\ Pairs(W) = Pairs(L)
               /\ Filled(L) => Filled(W)
               /\ Once(L) => Once(W)
<1>. DEFINE W == WithSlugs(L, resolve)
<1>1. DOMAIN L = 1..Len(L) /\ Len(L) \in Nat /\ \A i \in DOMAIN L : L[i] \in Project
  OBVIOUS
<1>2. W = [i \in DOMAIN L |-> [L[i] EXCEPT !.slug = resolve[L[i].uid]]]
  BY DEF WithSlugs
<1>. SUFFICES /\ W \in Seq(Project) /\ Pairs(W) = Pairs(L)
              /\ Filled(L) => Filled(W)
              /\ Once(L) => Once(W)
  OBVIOUS
<1>. HIDE DEF W
<1>3. ASSUME NEW i \in DOMAIN L
      PROVE  W[i] \in Project /\ W[i].uid = L[i].uid /\ W[i].detections = L[i].detections
  <2>1. resolve[L[i].uid] \in AnySlug
    BY <1>1 DEF Project, Projects, AnySlug
  <2>2. W[i] = [L[i] EXCEPT !.slug = resolve[L[i].uid]]
    BY <1>2
  <2>. QED  BY <1>1, <2>1, <2>2 DEF Project, Projects
<1>4. W \in Seq(Project) /\ DOMAIN W = DOMAIN L
  <2>1. DOMAIN W = 1..Len(L) /\ W = [i \in DOMAIN W |-> W[i]]
    BY <1>1, <1>2
  <2>2. \A i \in 1..Len(L) : W[i] \in Project
    BY <1>1, <1>3
  <2>3. W \in [1..Len(L) -> Project]
    BY <2>1, <2>2
  <2>. QED  BY <1>1, <2>1, <2>3
<1>5. \A i \in DOMAIN L : PairsOf(W[i]) = PairsOf(L[i])
  BY <1>3 DEF PairsOf
<1>6. \A d : d \in Pairs(W) <=> d \in Pairs(L)
  BY <1>4, <1>5, PairsIn
<1>7. Filled(L) => Filled(W)
  BY <1>3, <1>4, Zenon DEF Filled
<1>8. Once(L) => Once(W)
  BY <1>3, <1>4, <1>5 DEF Once, InEntriesOnce
<1>. QED  BY <1>4, <1>6, <1>7, <1>8

LEMMA ExecutiveDirectorGood ==
    ASSUME WorldInv, hasUsername, NEW leg \in ByFilter(world.settings, LAMBDA r : r.ed = "me"),
           NEW resolve \in SlugAnswers
    PROVE  GoodDelivery("executive_director", ExecutiveDirector(leg, resolve), {leg})
<1>. DEFINE M == {r \in world.settings : r.ed = "me"}
            q == leg.records
            E == {r \in ToSet(q) : r.ed = "me"}
            o == Only(q, E)
            L == Detections(o, "executive_director")
            W == WithSlugs(L, resolve)
            s == "executive_director"
            result == ExecutiveDirector(leg, resolve)
<1>1. /\ SettingsRecords \in QueryTables /\ SettingsRecords \in Tables
      /\ world.settings \in SUBSET SettingsRecords
  BY TablesAre DEF WorldInv
<1>2. LegOf(leg, SettingsRecords, M, world.settings)
  <2>1. \E X \in SUBSET world.settings :
           (\A r \in world.settings : r \in M => r \in X) /\ leg \in Answers(X)
    BY Zenon DEF ByFilter
  <2>2. world.settings \cap M = M
    OBVIOUS
  <2>. HIDE DEF M
  <2>. QED  BY <1>1, <2>1, <2>2, FilterAnswers
<1>3. result = IF leg.err THEN Failed ELSE Found(W)
  BY Zenon DEF ExecutiveDirector
<1>4. Range(q) \cap E = Range(q) \cap M
  BY <1>2, ToSetIsRange DEF LegOf
<1>. HIDE DEF E
<1>5. o \in Seq(SettingsRecords) /\ Range(o) = Range(q) \cap M /\ IsInjective(o)
  BY <1>2, <1>4, OnlyFacts DEF LegOf
<1>. HIDE DEF o
<1>6. L \in Seq(Project) /\ Filled(L) /\ Once(L) /\ Pairs(L) = By(s, Range(o))
  BY <1>1, <1>5, DetectionsFacts DEF Tokens
<1>. HIDE DEF L
<1>7. W \in Seq(Project) /\ Filled(W) /\ Once(W) /\ Pairs(W) = By(s, Range(q) \cap M)
  BY <1>5, <1>6, WithSlugsFacts
<1>. HIDE DEF W
<1>8. Justified[s] = By(s, M)
  BY JustifiedIs DEF Settings
<1>9. GoodList(W, s)
  <2>1. Pairs(W) \subseteq Justified[s]
    BY <1>7, <1>8, ByGrows
  <2>2. s \in Tokens \ {"board_member", "cdp_roles"} /\ TokensOf(s) = {s}
    BY TokensAre DEF Tokens
  <2>. QED  BY <1>7, <1>8, <2>1, <2>2, OneToken
<1>10. ~leg.err => FullList(W, s)
  <2>1. ~leg.err => Range(q) \cap M = M
    BY <1>2 DEF LegOf
  <2>. QED  BY <1>7, <1>8, <2>1, TokensAre DEF FullList
<1>11. /\ leg.err => result.err = TRUE
       /\ ~leg.err => result.err = FALSE /\ result.records = W
  BY <1>3 DEF Failed, Found
<1>. HIDE DEF result
<1>12. GoodDelivery(s, result, {leg})
  BY <1>9, <1>10, <1>11 DEF GoodDelivery
<1>. QED  BY <1>12 DEF result

(* sourceCDPRoles: only what is no nonlf_ slug and was resolved.           *)
LEMMA CDPRolesGood ==
    ASSUME WorldInv, NEW leg \in Answers(world.affiliations), NEW uidOf \in UIDAnswers,
           NEW legs
    PROVE  GoodDelivery("cdp_roles",
                        IF leg.err THEN Failed ELSE CDPRoles(leg.records, uidOf), legs)
<1>. DEFINE R == Affiliations
            q == leg.records
            S == {a \in Range(q) : ~a.nonlf /\ a.slug \in DOMAIN uidOf}
            w == Only(q, S)
            L == CDPRoles(q, uidOf).records
            s == "cdp_roles"
<1>1. R \in Tables /\ world.affiliations \in SUBSET R
  BY DEF Tables, WorldInv
<1>2. LegOf(leg, R, world.affiliations, world.affiliations)
  BY <1>1, AnswersFacts
<1>3. CDPRoles(q, uidOf)
        = Found([i \in DOMAIN w |->
                   [uid |-> UIDOf(w[i], uidOf), slug |-> w[i].slug, detections |-> One(s, w[i])]])
  BY ToSetIsRange, Zenon DEF CDPRoles, IsReported, One, Det
<1>4. Range(q) \cap S = S
  OBVIOUS
<1>. HIDE DEF S
<1>5. w \in Seq(R) /\ Range(w) = S /\ IsInjective(w)
  BY <1>2, <1>4, OnlyFacts DEF LegOf
<1>. HIDE DEF w
<1>6. CDPRoles(q, uidOf).err = FALSE
      /\ L = [i \in DOMAIN w |->
                [uid |-> UIDOf(w[i], uidOf), slug |-> w[i].slug, detections |-> One(s, w[i])]]
  BY <1>3 DEF Found
<1>. HIDE DEF L
<1>7. DOMAIN w = 1..Len(w) /\ Len(w) \in Nat
  BY <1>5
<1>8. ASSUME NEW i \in DOMAIN w
      PROVE  /\ w[i] \in R /\ w[i] \in world.affiliations /\ ~w[i].nonlf
             /\ UIDOf(w[i], uidOf) \in ProjectUIDs
             /\ SlugOf[UIDOf(w[i], uidOf)] = w[i].slug
  <2>1. w[i] \in S
    BY <1>5 DEF Range
  <2>2. w[i] \in Range(q) /\ ~w[i].nonlf /\ w[i].slug \in DOMAIN uidOf
    BY <2>1 DEF S
  <2>3. w[i] \in world.affiliations
    BY <1>2, <2>2 DEF LegOf
  <2>4. PICK D \in SUBSET Range(SlugOf) :
          uidOf = [x \in D |-> CHOOSE u \in ProjectUIDs : SlugOf[u] = x]
    BY DEF UIDAnswers
  <2>5. w[i].slug \in D /\ UIDOf(w[i], uidOf) = CHOOSE u \in ProjectUIDs : SlugOf[u] = w[i].slug
    BY <2>2, <2>4 DEF UIDOf
  <2>6. \E u \in ProjectUIDs : SlugOf[u] = w[i].slug
    BY <2>5, SlugAssumption DEF Range
  <2>. QED  BY <1>1, <2>2, <2>3, <2>5, <2>6
<1>9. ASSUME NEW i \in DOMAIN w
      PROVE  /\ L[i] \in Project /\ L[i].uid = UIDOf(w[i], uidOf) /\ HasUid(L[i])
             /\ L[i].detections = One(s, w[i])
  <2>. DEFINE u == UIDOf(w[i], uidOf)
  <2>1. L[i] = [uid |-> u, slug |-> w[i].slug, detections |-> One(s, w[i])]
    BY <1>6
  <2>2. u \in ProjectUIDs /\ u \in Uids
    BY <1>8 DEF Uids
  <2>3. w[i].slug \in AnySlug /\ Det(s, w[i]) \in Dets
    BY <1>8 DEF AnySlug, Det, Dets, Tokens
  <2>4. One(s, w[i]) \in Seq(Dets)
    BY <2>3, OneDetection
  <2>. HIDE DEF u
  <2>5. L[i] \in Project /\ L[i].uid = u /\ L[i].detections = One(s, w[i])
    BY <2>1, <2>2, <2>3, <2>4 DEF Project, Projects
  <2>6. u # ""
    BY <2>2, SlugAssumption
  <2>. QED  BY <2>5, <2>6, Zenon DEF HasUid, u
<1>10. L \in Seq(Project) /\ DOMAIN L = DOMAIN w
  BY <1>6, <1>7, <1>9
<1>11. /\ Filled(L) /\ Once(L)
       /\ \A d : d \in Pairs(L) <=>
             \E i \in DOMAIN w : d = [uid |-> L[i].uid, by |-> Det(s, w[i])]
  <2>1. \A i \in DOMAIN w : HasUid(L[i]) /\ L[i].detections = One(s, w[i])
    BY <1>9
  <2>. HIDE DEF R, q, s
  <2>. QED  BY <1>1, <1>5, <1>10, <2>1, SingleDetections
<1>12. ASSUME NEW d \in Pairs(L) PROVE d.by.source = s /\ IsResolved(d)
  <2>1. PICK i \in DOMAIN w : d = [uid |-> L[i].uid, by |-> Det(s, w[i])]
    BY <1>11, <1>12
  <2>2. d.by.source = s /\ d.by.id = w[i].id /\ d.uid = UIDOf(w[i], uidOf)
    BY <1>9, <2>1 DEF Det
  <2>. QED  BY <1>8, <2>2 DEF IsResolved
<1>13. GoodList(L, s)
  BY <1>10, <1>11, <1>12, TokensAre DEF GoodList, Twins, Fits
<1>14. CASE leg.err
  BY <1>14 DEF GoodDelivery, Failed
<1>15. CASE ~leg.err
  BY <1>13, <1>15 DEF GoodDelivery, L
<1>. QED  BY <1>14, <1>15

-----------------------------------------------------------------------------
(* sourceWriterAuditor.                                                    *)

Roles == {"writer", "auditor"}
RolesIf(W, A) == (IF W THEN <<"writer">> ELSE <<>>) \o (IF A THEN <<"auditor">> ELSE <<>>)

LEMMA RolesFacts ==
    ASSUME NEW W, NEW A
    PROVE  /\ RolesIf(W, A) \in Seq(Roles) /\ IsInjective(RolesIf(W, A))
           /\ \A t : t \in Range(RolesIf(W, A)) <=> (t = "writer" /\ W) \/ (t = "auditor" /\ A)
           /\ W \/ A => RolesIf(W, A) # <<>>
<1>. DEFINE q == RolesIf(W, A)
            P(n) == /\ Len(q) = n /\ q \in Seq(Roles)
                    /\ W => \E k \in 1..n : q[k] = "writer"
                    /\ A => \E k \in 1..n : q[k] = "auditor"
                    /\ \A k \in 1..n : (q[k] = "writer" /\ W) \/ (q[k] = "auditor" /\ A)
                    /\ \A k, l \in 1..n : q[k] = q[l] => k = l
<1>1. ASSUME W /\ A PROVE \E n \in Nat : P(n)
  <2>1. Len(q) = 2 /\ q \in Seq(Roles) /\ q[1] = "writer" /\ q[2] = "auditor"
    BY <1>1 DEF RolesIf, Roles
  <2>. HIDE DEF q
  <2>2. P(2)
    BY <1>1, <2>1
  <2>. QED  BY <2>2
<1>2. ASSUME W /\ ~A PROVE \E n \in Nat : P(n)
  <2>1. Len(q) = 1 /\ q \in Seq(Roles) /\ q[1] = "writer"
    BY <1>2 DEF RolesIf, Roles
  <2>. HIDE DEF q
  <2>2. P(1)
    BY <1>2, <2>1
  <2>. QED  BY <2>2
<1>3. ASSUME ~W /\ A PROVE \E n \in Nat : P(n)
  <2>1. Len(q) = 1 /\ q \in Seq(Roles) /\ q[1] = "auditor"
    BY <1>3 DEF RolesIf, Roles
  <2>. HIDE DEF q
  <2>2. P(1)
    BY <1>3, <2>1
  <2>. QED  BY <2>2
<1>4. ASSUME ~W /\ ~A PROVE \E n \in Nat : P(n)
  <2>1. Len(q) = 0 /\ q \in Seq(Roles)
    BY <1>4 DEF RolesIf, Roles
  <2>. HIDE DEF q
  <2>2. P(0)
    BY <1>4, <2>1
  <2>. QED  BY <2>2
<1>. HIDE DEF q
<1>5. PICK n \in Nat : P(n)
  BY <1>1, <1>2, <1>3, <1>4
<1>6. DOMAIN q = 1..n
  BY <1>5
<1>7. IsInjective(q)
  BY <1>5, <1>6 DEF IsInjective
<1>8. \A t : t \in Range(q) <=> (t = "writer" /\ W) \/ (t = "auditor" /\ A)
  BY <1>5, <1>6 DEF Range
<1>9. W \/ A => q # <<>>
  BY <1>5
<1>. QED  BY <1>5, <1>7, <1>8, <1>9 DEF q

(* The detections of a record, one for each of its roles.                  *)
Each(roles, r) == [k \in DOMAIN roles |-> Det(roles[k], r)]

LEMMA EachFacts ==
    ASSUME NEW roles \in Seq(Roles), IsInjective(roles), NEW r, NEW D,
           \A t \in Roles : Det(t, r) \in D
    PROVE  /\ Each(roles, r) \in Seq(D) /\ IsInjective(Each(roles, r))
           /\ DOMAIN Each(roles, r) = DOMAIN roles
           /\ \A k \in DOMAIN roles : Each(roles, r)[k] = Det(roles[k], r)
           /\ roles # <<>> => Each(roles, r) # <<>>
<1>. DEFINE q == Each(roles, r)
<1>1. DOMAIN roles = 1..Len(roles) /\ Len(roles) \in Nat
      /\ \A k \in DOMAIN roles : roles[k] \in Roles
  OBVIOUS
<1>2. DOMAIN q = DOMAIN roles /\ \A k \in DOMAIN roles : q[k] = Det(roles[k], r) /\ q[k] \in D
  BY <1>1 DEF Each
<1>3. q = [k \in 1..Len(roles) |-> q[k]]
  BY <1>1 DEF Each
<1>. HIDE DEF q
<1>4. q \in Seq(D)
  BY <1>1, <1>2, <1>3
<1>5. IsInjective(q)
  <2>1. \A t, u : Det(t, r) = Det(u, r) => t = u
    BY DEF Det
  <2>. QED  BY <1>2, <2>1 DEF IsInjective
<1>6. roles # <<>> => q # <<>>
  BY <1>1, <1>2, <1>4
<1>. QED  BY <1>2, <1>4, <1>5, <1>6 DEF q

Usable(S) == {r \in S : r.uid # ""}

LEMMA WriterAuditorGood ==
    ASSUME WorldInv, hasUsername, NEW w \in ByFilter(world.settings, LAMBDA r : r.writer),
           NEW a \in ByFilter(world.settings, LAMBDA r : r.auditor), NEW resolve \in SlugAnswers,
           NEW order \in SetToSeqs(Usable(WriterAuditorMatches(w, a)))
    PROVE  GoodDelivery("writer+auditor", WriterAuditor(w, a, order, resolve), {w, a})
<1>. DEFINE R == SettingsRecords
            MW == {r \in world.settings : r.writer}
            MA == {r \in world.settings : r.auditor}
            W == {r \in Range(w.records) : r.writer}
            A == {r \in Range(a.records) : r.auditor}
            K == {r \in W \cup A : HasUid(r)}
            roles(r) == MatchedRoles(r, w, a)
            L == [i \in DOMAIN order |-> [uid |-> order[i].uid, slug |-> resolve[order[i].uid],
                                          detections |-> Each(roles(order[i]), order[i])]]
            s == "writer+auditor"
            result == WriterAuditor(w, a, order, resolve)
<1>1. /\ R \in QueryTables /\ R \in Tables /\ world.settings \in SUBSET R
  BY TablesAre DEF WorldInv
<1>2. LegOf(w, R, MW, world.settings) /\ LegOf(a, R, MA, world.settings)
  <2>1. \E X \in SUBSET world.settings :
           (\A r \in world.settings : r \in MW => r \in X) /\ w \in Answers(X)
    BY Zenon DEF ByFilter
  <2>2. \E X \in SUBSET world.settings :
           (\A r \in world.settings : r \in MA => r \in X) /\ a \in Answers(X)
    BY Zenon DEF ByFilter
  <2>3. world.settings \cap MW = MW /\ world.settings \cap MA = MA
    OBVIOUS
  <2>. HIDE DEF MW, MA
  <2>4. LegOf(w, R, MW, world.settings)
    BY <1>1, <2>1, <2>3, FilterAnswers
  <2>5. LegOf(a, R, MA, world.settings)
    BY <1>1, <2>2, <2>3, FilterAnswers
  <2>. QED  BY <2>4, <2>5
<1>3. result = IF w.err /\ a.err THEN Failed ELSE Found(L)
  BY Zenon DEF WriterAuditor, Each, Det
<1>4. W \subseteq MW /\ A \subseteq MA /\ MW \subseteq R /\ MA \subseteq R
  BY <1>1, <1>2 DEF LegOf
<1>5. order \in Seq(K) /\ IsInjective(order) /\ Range(order) = K
  <2>1. K = Usable(WriterAuditorMatches(w, a))
    BY ToSetIsRange, Zenon DEF WriterAuditorMatches, HasUid, Usable
  <2>2. K \in SUBSET R
    BY <1>4
  <2>3. IsFiniteSet(K)
    BY <1>1, <2>2, OneRecordPerId, FS_Subset
  <2>. HIDE DEF K
  <2>. QED  BY <2>1, <2>3, AllOnce
<1>6. ASSUME NEW r \in K
      PROVE  /\ r \in R /\ HasUid(r)
             /\ roles(r) \in Seq(Roles) /\ IsInjective(roles(r)) /\ roles(r) # <<>>
             /\ \A t : t \in Range(roles(r)) <=> (t = "writer" /\ r \in W) \/ (t = "auditor" /\ r \in A)
  <2>1. roles(r) = RolesIf(r \in W, r \in A)
    BY ToSetIsRange DEF MatchedRoles, RolesIf
  <2>2. r \in W \/ r \in A
    OBVIOUS
  <2>3. r \in R /\ HasUid(r)
    BY <1>4
  <2>. HIDE DEF W, A
  <2>. QED  BY <2>1, <2>2, <2>3, RolesFacts
<1>. HIDE DEF roles, W, A, MW, MA
<1>7. ASSUME NEW r \in K, NEW t \in Roles PROVE Det(t, r) \in Dets
  BY <1>1, <1>6, RecordTypes DEF Det, Dets, Roles, Tokens
<1>8. \A r \in K : \A t \in Range(roles(r)) : t \in {"writer", "auditor"}
  BY <1>6
<1>. DEFINE each(r) == Each(roles(r), r)
<1>9. ASSUME NEW r \in K
      PROVE  /\ each(r) \in Seq(Dets) /\ IsInjective(each(r)) /\ each(r) # <<>>
             /\ DOMAIN each(r) = DOMAIN roles(r)
             /\ \A k \in DOMAIN roles(r) : each(r)[k] = Det(roles(r)[k], r)
  BY <1>6, <1>7, EachFacts
<1>. HIDE DEF each, K
<1>10. DOMAIN order = 1..Len(order) /\ Len(order) \in Nat
       /\ \A i \in DOMAIN order : order[i] \in K
  BY <1>5
<1>11. ASSUME NEW i \in DOMAIN order
       PROVE  /\ L[i] \in Project /\ HasUid(L[i]) /\ L[i].uid = order[i].uid
              /\ L[i].detections = each(order[i])
  <2>1. order[i] \in K /\ order[i] \in R /\ HasUid(order[i])
    BY <1>6, <1>10
  <2>2. order[i].uid \in Uids /\ resolve[order[i].uid] \in AnySlug
    BY <1>1, <2>1, RecordTypes DEF AnySlug
  <2>3. L[i] = [uid |-> order[i].uid, slug |-> resolve[order[i].uid],
                detections |-> each(order[i])]
    BY DEF each
  <2>4. L[i] \in Project /\ L[i].uid = order[i].uid /\ L[i].detections = each(order[i])
    BY <1>9, <2>1, <2>2, <2>3 DEF Project, Projects
  <2>. QED  BY <2>1, <2>4, Zenon DEF HasUid
<1>12. L \in Seq(Project) /\ DOMAIN L = DOMAIN order
  BY <1>10, <1>11
<1>. HIDE DEF L
<1>13. Filled(L)
  <2>1. \A i \in DOMAIN L : HasUid(L[i]) /\ L[i].detections # <<>>
    BY <1>9, <1>10, <1>11, <1>12
  <2>. QED  BY <2>1, Zenon DEF Filled, HasUid
<1>14. ASSUME NEW i \in DOMAIN order, NEW d
       PROVE  d \in PairsOf(L[i]) <=>
                \E t \in Range(roles(order[i])) : d = [uid |-> order[i].uid, by |-> Det(t, order[i])]
  <2>. DEFINE r == order[i]
  <2>1. r \in K
    BY <1>10
  <2>. HIDE DEF r
  <2>2. d \in PairsOf(L[i]) <=> \E k \in DOMAIN roles(r) : d = [uid |-> r.uid, by |-> Det(roles(r)[k], r)]
    <3>1. d \in PairsOf(L[i]) <=>
            \E k \in DOMAIN L[i].detections : d = [uid |-> L[i].uid, by |-> L[i].detections[k]]
      BY Zenon DEF PairsOf
    <3>2. L[i].uid = r.uid /\ L[i].detections = each(r)
      BY <1>11 DEF r
    <3>. QED  BY <1>9, <2>1, <3>1, <3>2
  <2>3. d \in PairsOf(L[i]) <=> \E t \in Range(roles(r)) : d = [uid |-> r.uid, by |-> Det(t, r)]
    BY <2>2, Zenon DEF Range
  <2>. QED  BY <2>3 DEF r
<1>15. Once(L)
  <2>1. InEntriesOnce(L)
    BY <1>9, <1>10, <1>11, <1>12 DEF InEntriesOnce
  <2>2. ASSUME NEW i \in DOMAIN L, NEW j \in DOMAIN L, i # j,
               NEW d \in PairsOf(L[i]) \cap PairsOf(L[j])
        PROVE  FALSE
    <3>1. d.by.id = order[i].id /\ d.by.id = order[j].id
      BY <1>12, <1>14 DEF Det
    <3>2. order[i] \in R /\ order[j] \in R
      BY <1>6, <1>10, <1>12
    <3>3. order[i] = order[j]
      BY <1>1, <3>1, <3>2, OneRecordPerId
    <3>. QED  BY <1>5, <1>12, <2>2, <3>3 DEF IsInjective
  <2>. QED  BY <2>1, <2>2 DEF Once
<1>16. \A d : d \in Pairs(L) <=> d \in By("writer", W) \cup By("auditor", A)
  <2>1. ASSUME NEW d
        PROVE  d \in Pairs(L) <=>
                 \E r \in K : \E t \in Range(roles(r)) : d = [uid |-> r.uid, by |-> Det(t, r)]
    <3>1. d \in Pairs(L) <=> \E i \in DOMAIN order : d \in PairsOf(L[i])
      BY <1>12, PairsIn
    <3>2. \A r : r \in K <=> \E i \in DOMAIN order : r = order[i]
      BY <1>5, Zenon DEF Range
    <3>. QED  BY <1>14, <3>1, <3>2
  <2>2. \A r : r \in K <=> (r \in W \/ r \in A) /\ HasUid(r)
    BY DEF K
  <2>3. ASSUME NEW d
        PROVE  d \in Pairs(L) <=>
                 \/ \E r \in W : HasUid(r) /\ d = [uid |-> r.uid, by |-> Det("writer", r)]
                 \/ \E r \in A : HasUid(r) /\ d = [uid |-> r.uid, by |-> Det("auditor", r)]
    BY <1>6, <2>1, <2>2
  <2>. QED  BY <2>3, ByIn
<1>17. /\ Justified["writer"] = By("writer", MW)
       /\ Justified["auditor"] = By("auditor", MA)
  BY JustifiedIs DEF Settings, MW, MA
<1>18. GoodList(L, s)
  <2>1. ASSUME NEW d \in Pairs(L)
        PROVE  d.by.source \in {"writer", "auditor"} /\ d \in Justified[d.by.source]
    <3>1. CASE d \in By("writer", W)
      BY <1>4, <1>17, <3>1, ByToken, ByGrows
    <3>2. CASE d \in By("auditor", A)
      BY <1>4, <1>17, <3>2, ByToken, ByGrows
    <3>. QED  BY <1>16, <3>1, <3>2
  <2>. QED  BY <1>12, <1>13, <1>15, <2>1, TokensAre DEF GoodList, Twins, Fits
<1>19. ~w.err /\ ~a.err => FullList(L, s)
  <2>1. ~w.err /\ ~a.err => MW \subseteq W /\ MA \subseteq A
    BY <1>2 DEF LegOf, W, A, MW, MA
  <2>. QED  BY <1>16, <1>17, <2>1, ByGrows, TokensAre DEF FullList
<1>20. /\ w.err /\ a.err => result.err = TRUE
       /\ ~(w.err /\ a.err) => result.err = FALSE /\ result.records = L
  BY <1>3 DEF Failed, Found
<1>. HIDE DEF result
<1>21. GoodDelivery(s, result, {w, a})
  BY <1>18, <1>19, <1>20 DEF GoodDelivery
<1>. QED  BY <1>21 DEF result

-----------------------------------------------------------------------------
(* The inductive invariant.                                                *)

(* The response groups what has been delivered.                            *)
InOrder == delivered \in Seq(Project) /\ Groups(projects, delivered)

(* What the response holds is one entry per project, each detection once;  *)
(* every detection is right and was delivered by a source that is done;    *)
(* and a source that is done and lost no answer has put in all its own.    *)
PInv ==
    /\ WorldInv
    /\ projects \in Seq(Project) /\ PerProject(projects) /\ Filled(projects) /\ Once(projects)
    /\ \A d \in Pairs(projects) :
          Fits(d) /\ \E s \in Sources \ waiting : d.by.source \in TokensOf(s)
    /\ Twins(Pairs(projects)) /\ InOrder
    /\ \A s \in (launched \ {"cdp_roles"}) \ (waiting \cup lossy) : FullList(projects, s)

LEMMA PInvInit == Init => PInv
<1>. SUFFICES ASSUME Init PROVE PInv
  OBVIOUS
<1>1. PICK n : n = <<>>
  OBVIOUS
<1>2. n \in Seq(Project) /\ DOMAIN n = {}
  BY <1>1
<1>3. Pairs(n) = {} /\ PerProject(n) /\ Filled(n) /\ Once(n)
  BY <1>2 DEF Pairs, PerProject, Filled, Once, InEntriesOnce
<1>4. projects = n /\ waiting = launched /\ delivered = n
  BY <1>1 DEF Init
<1>5. WorldInv
  BY DEF Init, WorldInv
<1>6. InOrder
  BY <1>1, <1>2, <1>4, NothingGrouped DEF InOrder
<1>. QED  BY <1>2, <1>3, <1>4, <1>5, <1>6 DEF PInv, Twins

LEMMA SameWorld ==
    ASSUME UNCHANGED <<launched, hasUsername, world>>
    PROVE  /\ Justified' = Justified /\ WorldInv' <=> WorldInv
           /\ \A d : Fits(d)' <=> Fits(d)
<1>1. Justified' = Justified
  BY DEF Justified, IsMine
<1>2. \A d : IsResolved(d)' <=> IsResolved(d)
  BY DEF IsResolved
<1>. QED  BY <1>1, <1>2 DEF Fits, WorldInv

LEMMA DeliverKeeps ==
    ASSUME PInv, NEW s \in Sources, NEW result, NEW legs, Deliver(s, result, legs),
           GoodDelivery(s, result, legs)
    PROVE  PInv'
<1>1. /\ s \in waiting /\ waiting' = waiting \ {s}
      /\ UNCHANGED <<launched, hasUsername, world>>
      /\ lossy \subseteq lossy' /\ (s \in lossy' \/ \A l \in legs : ~l.err)
  BY DEF Deliver
<1>2. /\ Justified' = Justified /\ WorldInv'
      /\ \A d : Fits(d)' <=> Fits(d)
  BY <1>1, SameWorld DEF PInv
<1>3. CASE result.err
  <2>1. projects' = projects
    BY <1>3 DEF Deliver
  <2>2. s = "cdp_roles" \/ s \in lossy'
    BY <1>1, <1>3 DEF GoodDelivery
  <2>3. \A t \in (launched' \ {"cdp_roles"}) \ (waiting' \cup lossy') :
            t \in (launched \ {"cdp_roles"}) \ (waiting \cup lossy)
    BY <1>1, <2>2
  <2>5. \A t \in (launched' \ {"cdp_roles"}) \ (waiting' \cup lossy') :
            \A token \in TokensOf(t) : Justified'[token] \subseteq Pairs(projects')
    BY <1>2, <2>1, <2>3 DEF PInv, FullList
  <2>6. \A d \in Pairs(projects') :
            Fits(d)' /\ \E t \in Sources \ waiting' : d.by.source \in TokensOf(t)
    BY <1>1, <1>2, <2>1 DEF PInv
  <2>7. InOrder'
    <3>1. delivered' = delivered
      BY <1>3 DEF Deliver
    <3>. QED  BY <2>1, <3>1 DEF PInv, InOrder
  <2>. QED  BY <1>2, <2>1, <2>5, <2>6, <2>7 DEF PInv, FullList
<1>4. CASE ~result.err
  <2>. DEFINE L == result.records
              M == MergeProjects(projects, L)
  <2>1. projects' = M
    BY <1>4 DEF Deliver
  <2>2. GoodList(L, s)
    BY <1>4 DEF GoodDelivery
  <2>9. InOrder'
    <3>1. delivered' = delivered \o L
      BY <1>4 DEF Deliver
    <3>. HIDE DEF L, M
    <3>2. L \in Seq(Project) /\ projects \in Seq(Project) /\ delivered \in Seq(Project)
      BY <2>2 DEF GoodList, PInv, InOrder
    <3>3. Groups(projects, delivered)
      BY DEF PInv, InOrder
    <3>4. Groups(MergeProjects(projects, L), delivered \o L)
      BY <3>2, <3>3, MergeGroups DEF Project
    <3>5. delivered \o L \in Seq(Project)
      BY <3>2
    <3>. QED  BY <2>1, <3>1, <3>4, <3>5 DEF InOrder, M
  <2>3. M \in Seq(Project) /\ Merged(M, projects, L)
    BY <2>2, MergeProjectsFacts DEF PInv, GoodList, Project
  <2>. HIDE DEF L, M
  <2>4. Pairs(projects) \cap Pairs(L) = {}
    <3>. SUFFICES ASSUME NEW d \in Pairs(projects), d \in Pairs(L) PROVE FALSE
      OBVIOUS
    <3>1. PICK t \in Sources \ waiting : d.by.source \in TokensOf(t)
      BY DEF PInv
    <3>2. t # s /\ d.by.source \in TokensOf(s)
      BY <1>1, <2>2 DEF GoodList
    <3>. QED  BY <3>1, <3>2, TokensApart
  <2>5. /\ PerProject(M) /\ Filled(M) /\ Once(M)
        /\ Pairs(M) = Pairs(projects) \cup Pairs(L)
    BY <2>2, <2>3, <2>4 DEF PInv, GoodList, Merged
  <2>6. \A d \in Pairs(M) :
            Fits(d)' /\ \E t \in Sources \ waiting' : d.by.source \in TokensOf(t)
    <3>1. ASSUME NEW d \in Pairs(projects)
          PROVE  Fits(d)' /\ \E t \in Sources \ waiting' : d.by.source \in TokensOf(t)
      BY <1>1, <1>2 DEF PInv
    <3>2. ASSUME NEW d \in Pairs(L)
          PROVE  Fits(d)' /\ \E t \in Sources \ waiting' : d.by.source \in TokensOf(t)
      BY <1>1, <1>2, <2>2 DEF GoodList
    <3>. QED  BY <2>5, <3>1, <3>2
  <2>7. Twins(Pairs(M))
    BY <2>2, <2>5 DEF PInv, GoodList, Twins
  <2>8. ASSUME NEW t \in (launched' \ {"cdp_roles"}) \ (waiting' \cup lossy')
        PROVE  \A token \in TokensOf(t) : Justified'[token] \subseteq Pairs(M)
    <3>1. CASE t = s
      <4>1. FullList(L, s)
        BY <1>1, <3>1 DEF GoodDelivery, L
      <4>. QED  BY <1>2, <2>5, <3>1, <4>1 DEF FullList
    <3>2. CASE t # s
      <4>1. FullList(projects, t)
        BY <1>1, <3>2 DEF PInv
      <4>. QED  BY <1>2, <2>5, <4>1 DEF FullList
    <3>. QED  BY <3>1, <3>2
  <2>. QED  BY <1>2, <2>1, <2>3, <2>5, <2>6, <2>7, <2>8, <2>9 DEF PInv, FullList
<1>. QED  BY <1>3, <1>4

LEMMA PInvNext == PInv /\ [Next]_vars => PInv'
<1>. SUFFICES ASSUME PInv, [Next]_vars PROVE PInv'
  OBVIOUS
<1>0. WorldInv
  BY DEF PInv
<1>1. CASE CommitteesDeliver
  <2>1. PICK be \in EmailLeg(Boards), bu \in UsernameFilterLeg(Boards),
             ae \in EmailLeg(world.members), au \in UsernameFilterLeg(world.members) :
          Deliver("board_member+committee", BoardMemberAndCommittee(be, bu, ae, au),
                  {be, bu, ae, au})
    BY <1>1, Zenon DEF CommitteesDeliver, Boards
  <2>. QED  BY <1>0, <2>1, CommitteesGood, DeliverKeeps DEF Sources
<1>2. CASE MailingListDelivers
  BY <1>0, <1>2, MailingListGood, DeliverKeeps DEF MailingListDelivers, Sources
<1>3. CASE MeetingsDeliver
  BY <1>0, <1>3, MeetingsGood, DeliverKeeps DEF MeetingsDeliver, Sources
<1>4. CASE ExecutiveDirectorDelivers
  <2>1. CASE ~hasUsername
    <3>1. Deliver("executive_director", Found(<<>>), {})
      BY <1>4, <2>1, Zenon DEF ExecutiveDirectorDelivers
    <3>. QED  BY <2>1, <3>1, NoUsernameGood, DeliverKeeps DEF Sources
  <2>2. CASE hasUsername
    <3>1. PICK leg \in ByFilter(world.settings, LAMBDA r : r.ed = "me"), resolve \in SlugAnswers :
            Deliver("executive_director", ExecutiveDirector(leg, resolve), {leg})
      BY <1>4, <2>2, Zenon DEF ExecutiveDirectorDelivers
    <3>2. GoodDelivery("executive_director", ExecutiveDirector(leg, resolve), {leg})
      BY <1>0, <2>2, ExecutiveDirectorGood
    <3>. QED  BY <3>1, <3>2, DeliverKeeps DEF Sources
  <2>. QED  BY <2>1, <2>2
<1>5. CASE WriterAuditorDelivers
  <2>1. CASE ~hasUsername
    <3>1. Deliver("writer+auditor", Found(<<>>), {})
      BY <1>5, <2>1, Zenon DEF WriterAuditorDelivers
    <3>. QED  BY <2>1, <3>1, NoUsernameGood, DeliverKeeps DEF Sources
  <2>2. CASE hasUsername
    <3>1. PICK w \in ByFilter(world.settings, LAMBDA r : r.writer),
               a \in ByFilter(world.settings, LAMBDA r : r.auditor), resolve \in SlugAnswers :
            \E order \in SetToSeqs(Usable(WriterAuditorMatches(w, a))) :
               Deliver("writer+auditor", WriterAuditor(w, a, order, resolve), {w, a})
      BY <1>5, <2>2, Zenon DEF WriterAuditorDelivers, Usable
    <3>0. PICK order \in SetToSeqs(Usable(WriterAuditorMatches(w, a))) :
            Deliver("writer+auditor", WriterAuditor(w, a, order, resolve), {w, a})
      BY <3>1
    <3>2. GoodDelivery("writer+auditor", WriterAuditor(w, a, order, resolve), {w, a})
      BY <1>0, <2>2, WriterAuditorGood
    <3>. QED  BY <3>0, <3>2, DeliverKeeps DEF Sources
  <2>. QED  BY <2>1, <2>2
<1>6. CASE CDPRolesDeliver
  BY <1>0, <1>6, CDPRolesGood, DeliverKeeps DEF CDPRolesDeliver, Sources
<1>7. CASE UNCHANGED vars
  <2>1. /\ UNCHANGED <<launched, hasUsername, world>>
        /\ UNCHANGED waiting /\ UNCHANGED lossy /\ UNCHANGED projects
        /\ UNCHANGED delivered
    BY <1>7 DEF vars
  <2>2. Justified' = Justified /\ WorldInv' /\ \A d : Fits(d)' <=> Fits(d)
    BY <1>0, <2>1, SameWorld
  <2>4. \A t \in (launched' \ {"cdp_roles"}) \ (waiting' \cup lossy') :
            \A token \in TokensOf(t) : Justified'[token] \subseteq Pairs(projects')
    BY <2>1, <2>2 DEF PInv, FullList
  <2>5. \A d \in Pairs(projects') :
            Fits(d)' /\ \E t \in Sources \ waiting' : d.by.source \in TokensOf(t)
    BY <2>1, <2>2 DEF PInv
  <2>6. InOrder'
    BY <2>1 DEF PInv, InOrder
  <2>. QED  BY <2>1, <2>2, <2>4, <2>5, <2>6 DEF PInv, FullList
<1>. QED  BY <1>1, <1>2, <1>3, <1>4, <1>5, <1>6, <1>7 DEF Next

LEMMA PInvAlways == Spec => []PInv
BY PInvInit, PInvNext, PTL DEF Spec

LEMMA DetectedIs == Detected = Pairs(projects)
BY Zenon DEF Detected, Pairs, PairsOf

-----------------------------------------------------------------------------
(* The theorems.                                                           *)

(* However the deliveries are split and ordered, the response is their     *)
(* grouping by UID: projects in order of first appearance, with the slug   *)
(* they had there, and all their detections in order (MergeProjects).      *)
THEOREM Grouped == Spec => []MergedIsGrouped
<1>1. PInv => MergedIsGrouped
  <2>. SUFFICES ASSUME PInv PROVE MergedIsGrouped
    OBVIOUS
  <2>1. projects \in Seq(Project) /\ delivered \in Seq(Project) /\ Groups(projects, delivered)
    BY DEF PInv, InOrder
  <2>2. IsGrouping(projects, delivered)
    BY <2>1, GroupsAre DEF Project
  <2>. QED  BY <2>2 DEF MergedIsGrouped
<1>. QED  BY <1>1, PInvAlways, PTL

(* Whatever the sources deliver and in whatever order, the response has    *)
(* one entry per project UID, none without a UID or without detections     *)
(* (mergeProjects and the skips of blank UIDs in the sources).             *)
THEOREM OneEntry == Spec => []OneEntryPerProject
<1>1. PInv => OneEntryPerProject
  BY Zenon DEF PInv, PerProject, Filled, OneEntryPerProject
<1>. QED  BY <1>1, PInvAlways, PTL

(* A filter leg that answers with other users' records puts none of them   *)
(* into the response: each detection is of a record that names the         *)
(* requester, in the role the token stands for (the post-filters).         *)
THEOREM OnlyRequester == Spec => []OnlyTheRequester
<1>1. PInv => OnlyTheRequester
  BY DetectedIs DEF PInv, Fits, OnlyTheRequester
<1>. QED  BY <1>1, PInvAlways, PTL

(* A source none of whose upstream calls failed has put every record of    *)
(* the requester into the response, and no later merge loses one           *)
(* (the two legs, deduplicateResources and mergeProjects).                 *)
THEOREM NothingLost == Spec => []NothingMissing
<1>1. PInv => NothingMissing
  BY DetectedIs DEF PInv, FullList, NothingMissing
<1>. QED  BY <1>1, PInvAlways, PTL

(* A record that both legs or both committee branches find is counted once *)
(* per token (deduplicateResources, matches[] of sourceWriterAuditor).     *)
THEOREM EachOnce == Spec => []CountedOnce
<1>1. PInv => CountedOnce
  BY DEF PInv, Once, InEntriesOnce, CountedOnce
<1>. QED  BY <1>1, PInvAlways, PTL

(* Whichever of the four committee legs failed, a board member is reported *)
(* as a committee member too (sourceBoardMemberAndCommittee).              *)
THEOREM BoardImpliesCommittee == Spec => []BoardAlsoCommittee
<1>1. PInv => BoardAlsoCommittee
  BY DetectedIs, Zenon DEF PInv, Twins, BoardAlsoCommittee
<1>. QED  BY <1>1, PInvAlways, PTL

(* An affiliation is reported only under the UID its slug resolved to, and *)
(* never for a nonlf_ slug (sourceCDPRoles, resolveSlugsToUIDs).           *)
THEOREM ResolvedOnly == Spec => []OnlyResolvedAffiliations
<1>1. PInv => OnlyResolvedAffiliations
  BY DetectedIs DEF PInv, Fits, IsResolved, OnlyResolvedAffiliations
<1>. QED  BY <1>1, PInvAlways, PTL
=============================================================================
