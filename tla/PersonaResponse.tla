-------------------------- MODULE PersonaResponse --------------------------
(***************************************************************************)
(* What ends up in the response: the launched sources query a fixed world  *)
(* of records, every leg may fail, the sources deliver in any order, and   *)
(* the collector merges each delivery (PersonaHandler's CollectResult and  *)
(* DrainResult).  A reply may be built after any number of deliveries, so  *)
(* the invariants are about every partial response too.                    *)
(***************************************************************************)
EXTENDS PersonaSources

CONSTANTS
    Launches,           \* sets of sources to explore together
    ProjectUIDs,        \* v2 project UIDs
    SlugOf,             \* the slug of each project
    MemberRecords,      \* committee_member records that may exist
    ListRecords,        \* groupsio_member records
    MeetingRecords,     \* v1_past_meeting_participant records
    SettingsRecords,    \* project_settings records
    Affiliations        \* CDP project affiliations of the requester

\* Every project has a slug, and slugs tell projects apart.
ASSUME SlugAssumption ==
    /\ DOMAIN SlugOf = ProjectUIDs
    /\ \A u, v \in ProjectUIDs : SlugOf[u] = SlugOf[v] => u = v
    /\ "" \notin ProjectUIDs \cup Range(SlugOf)

Tables == {MemberRecords, ListRecords, MeetingRecords, SettingsRecords, Affiliations}

\* The upstream stores are finite, and an id stands for one record of its kind.
ASSUME RecordAssumption == \A S \in Tables :
    IsFiniteSet(S) /\ \A r, t \in S : r.id = t.id => r = t

VARIABLES
    launched,       \* the sources that may deliver before the reply is built
    hasUsername,    \* the request has a username as well as an email
    world,          \* the records that exist upstream
    waiting,        \* sources that have not delivered yet
    lossy,          \* sources some of whose upstream calls failed
    delivered,      \* history: the projects of all deliveries, one after another
    projects        \* the handler's `projects'

vars == <<launched, hasUsername, world, waiting, lossy, delivered, projects>>

-----------------------------------------------------------------------------
(* The upstream services, as far as the sources can tell.                   *)

(* Searches answer in any order, or fail.                                   *)
Answers(S) == {Failed} \cup {Found(q) : q \in SetToSeqs(S)}

ByTag(S, Match(_)) == Answers({r \in S : Match(r)})

(* A term clause in `filters' may match more than it should.                *)
ByFilter(S, Match(_)) ==
    UNION {Answers(X) : X \in {Y \in SUBSET S : \A r \in S : Match(r) => r \in Y}}

HasEmail(r) == r.email

EmailLeg(S) == ByTag(S, HasEmail)

Skipped == {Found(<<>>)}
UsernameFilterLeg(S) == IF hasUsername THEN ByFilter(S, NamesRequester) ELSE Skipped
UsernameTagLeg(S)    == IF hasUsername THEN ByTag(S, NamesRequester) ELSE Skipped

(* lfx.projects-api.get_slug and slug_to_uid answer, or do not.             *)
SlugAnswers == {f \in [ProjectUIDs -> Range(SlugOf) \cup {""}] :
                    \A u \in ProjectUIDs : f[u] \in {SlugOf[u], ""}}
UIDAnswers == {[s \in S |-> CHOOSE u \in ProjectUIDs : SlugOf[u] = s] :
                    S \in SUBSET Range(SlugOf)}

-----------------------------------------------------------------------------

(* Records that no launched source reads make no difference.                *)
OnlyRead(S, w) ==
    /\ "board_member+committee" \notin S => w.members = {}
    /\ "mailing_list" \notin S => w.lists = {}
    /\ "meeting_attendance" \notin S => w.meetings = {}
    /\ S \cap {"executive_director", "writer+auditor"} = {} => w.settings = {}
    /\ "cdp_roles" \notin S => w.affiliations = {}

Init ==
    /\ launched \in Launches
    /\ hasUsername \in BOOLEAN
    /\ world \in [members  : SUBSET MemberRecords,
                  lists    : SUBSET ListRecords,
                  meetings : SUBSET MeetingRecords,
                  settings : SUBSET SettingsRecords,
                  affiliations : SUBSET Affiliations]
    /\ OnlyRead(launched, world)
    /\ waiting = launched
    /\ lossy = {}
    /\ delivered = <<>>
    /\ projects = <<>>

(* A source returns `result' and the collector takes it: failures are       *)
(* skipped, everything else is merged.                                      *)
Deliver(s, result, legs) ==
    /\ s \in waiting
    /\ waiting' = waiting \ {s}
    /\ lossy' = IF \E l \in legs : l.err THEN lossy \cup {s} ELSE lossy
    /\ IF result.err
         THEN UNCHANGED <<delivered, projects>>
         ELSE /\ delivered' = delivered \o result.records
              /\ projects' = MergeProjects(projects, result.records)
    /\ UNCHANGED <<launched, hasUsername, world>>

CommitteesDeliver ==
    LET boards == {r \in world.members : r.board} IN
    \E be \in EmailLeg(boards), bu \in UsernameFilterLeg(boards),
       ae \in EmailLeg(world.members), au \in UsernameFilterLeg(world.members) :
        Deliver("board_member+committee", BoardMemberAndCommittee(be, bu, ae, au),
                {be, bu, ae, au})

MailingListDelivers ==
    \E e \in EmailLeg(world.lists), u \in UsernameFilterLeg(world.lists) :
        Deliver("mailing_list", MailingList(e, u), {e, u})

MeetingsDeliver ==
    \E e \in EmailLeg(world.meetings), u \in UsernameTagLeg(world.meetings) :
        Deliver("meeting_attendance", MeetingAttendance(e, u), {e, u})

ExecutiveDirectorDelivers ==
    \/ /\ ~hasUsername
       /\ Deliver("executive_director", Found(<<>>), {})
    \/ /\ hasUsername
       /\ \E leg \in ByFilter(world.settings, LAMBDA r : r.ed = "me"),
             resolve \in SlugAnswers :
              Deliver("executive_director", ExecutiveDirector(leg, resolve), {leg})

WriterAuditorDelivers ==
    \/ /\ ~hasUsername
       /\ Deliver("writer+auditor", Found(<<>>), {})
    \/ /\ hasUsername
       /\ \E w \in ByFilter(world.settings, LAMBDA r : r.writer),
             a \in ByFilter(world.settings, LAMBDA r : r.auditor),
             resolve \in SlugAnswers :
          \E order \in SetToSeqs({r \in WriterAuditorMatches(w, a) : r.uid # ""}) :
              Deliver("writer+auditor", WriterAuditor(w, a, order, resolve), {w, a})

CDPRolesDeliver ==
    \E leg \in Answers(world.affiliations), uidOf \in UIDAnswers :
        Deliver("cdp_roles",
                IF leg.err THEN Failed ELSE CDPRoles(leg.records, uidOf),
                IF DOMAIN uidOf = Range(SlugOf) THEN {leg} ELSE {leg, Failed})

Next ==
    \/ CommitteesDeliver
    \/ MailingListDelivers
    \/ MeetingsDeliver
    \/ ExecutiveDirectorDelivers
    \/ WriterAuditorDelivers
    \/ CDPRolesDeliver

Spec == Init /\ [][Next]_vars

-----------------------------------------------------------------------------
(* Properties.                                                              *)

Detected == UNION {{[uid |-> projects[i].uid, by |-> projects[i].detections[k]] :
                        k \in DOMAIN projects[i].detections} :
                   i \in DOMAIN projects}

(* MergeProjects computes the grouping by UID of everything delivered, in   *)
(* delivery order, however the deliveries were split into lists: one entry  *)
(* per project, no detection lost, repeated or moved.                       *)
MergedIsGrouped == IsGrouping(projects, delivered)

(* One entry per unique project_uid, none without detections, and no        *)
(* project without a UID (ARCHITECTURE.md, `projects[]').                   *)
OneEntryPerProject ==
    /\ \A i, j \in DOMAIN projects : projects[i].uid = projects[j].uid => i = j
    /\ \A i \in DOMAIN projects : /\ projects[i].uid # ""
                                  /\ projects[i].detections # <<>>

(* Which records justify which detections.                                  *)
IsMine(r) == r.email \/ (hasUsername /\ NamesRequester(r))

Justified ==
    LET By(token, S) == {[uid |-> r.uid, by |-> [source |-> token, id |-> r.id]] :
                            r \in {x \in S : x.uid # ""}}
        settings == IF hasUsername THEN world.settings ELSE {}
    IN  [board_member |->
            By("board_member", {r \in world.members : r.board /\ IsMine(r)}),
         committee_member |-> By("committee_member", {r \in world.members : IsMine(r)}),
         mailing_list |-> By("mailing_list", {r \in world.lists : IsMine(r)}),
         meeting_attendance |->
            By("meeting_attendance", {r \in world.meetings : IsMine(r)}),
         executive_director |->
            By("executive_director", {r \in settings : r.ed = "me"}),
         writer  |-> By("writer", {r \in settings : r.writer}),
         auditor |-> By("auditor", {r \in settings : r.auditor})]

(* Nobody else's records: each detection of a query source comes from a     *)
(* record that names the requester in the role the token stands for, even   *)
(* though a filter leg may answer with records of other users.              *)
OnlyTheRequester ==
    \A d \in Detected : d.by.source # "cdp_roles" => d \in Justified[d.by.source]

TokensOf(s) ==
    CASE s = "board_member+committee" -> {"board_member", "committee_member"}
      [] s = "writer+auditor"         -> {"writer", "auditor"}
      [] OTHER                        -> {s}

(* Nothing missing: a source none of whose calls failed has put every       *)
(* record of the requester into the response.                               *)
NothingMissing ==
    \A s \in (launched \ {"cdp_roles"}) \ (waiting \cup lossy) :
        \A token \in TokensOf(s) : Justified[token] \subseteq Detected

(* A record found by both legs, or by both committee branches, still counts *)
(* once per token ("duplicate resource ID from both legs must appear        *)
(* exactly once", source_improvements_test.go).                             *)
CountedOnce ==
    \A i \in DOMAIN projects : IsInjective(projects[i].detections)

(* Board members also receive committee_member detections alongside         *)
(* board_member (README.md), whichever of the four legs failed.  That is    *)
(* what the code does (source_board_member.go:68-73); ARCHITECTURE.md:148,  *)
(* which calls committee_member `non-Board committee membership', is wrong  *)
(* about it.                                                                *)
BoardAlsoCommittee ==
    \A d \in Detected : d.by.source = "board_member" =>
        [d EXCEPT !.by.source = "committee_member"] \in Detected

(* CDP-only projects never enter: an affiliation is reported only under the *)
(* UID its own slug resolved to, and never for a nonlf_ slug.               *)
OnlyResolvedAffiliations ==
    \A d \in Detected : d.by.source = "cdp_roles" =>
        \E a \in world.affiliations :
            /\ a.id = d.by.id /\ ~a.nonlf
            /\ d.uid \in ProjectUIDs /\ a.slug = SlugOf[d.uid]
=============================================================================
