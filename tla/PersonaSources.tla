--------------------------- MODULE PersonaSources ---------------------------
(***************************************************************************)
(* What each source makes of the upstream answers it gets                  *)
(* (internal/service/source_*.go and sourceCDPRoles), as operators from    *)
(* leg results to lists of projects [uid, slug, detections].               *)
(*                                                                         *)
(* A leg result is [err, records].  A record carries what the code reads   *)
(* of it: its id, the project it belongs to (uid "" when the field is      *)
(* blank or the data does not parse), its slug, and whom it names.         *)
(***************************************************************************)
EXTENDS MergeProjects

Failed   == [err |-> TRUE,  records |-> <<>>]
Found(q) == [err |-> FALSE, records |-> q]

(* deduplicateResources: the first record with an id is kept.              *)
DeduplicateResources_Off(q) == q
AddUnseen(unique, r) ==
    IF \E i \in DOMAIN unique : unique[i].id = r.id THEN unique ELSE Append(unique, r)
DeduplicateResources(q) == FoldLeft(AddUnseen, <<>>, q)

(* The loops that keep of a list what is in S, in order.                   *)
Only(q, S) == FoldLeft(LAMBDA kept, r : IF r \in S THEN Append(kept, r) ELSE kept, <<>>, q)

(* strings.EqualFold(data.Username, req.Username)                          *)
NamesRequester(r) == r.username = "me"

PostFilter_Off(q) == q
PostFilter(q) == Only(q, {r \in ToSet(q) : NamesRequester(r)})

(* The email and the username leg of one query; an error only if both fail. *)
TwoLegs(email, username) ==
    IF email.err /\ username.err
    THEN Failed
    ELSE Found(DeduplicateResources(email.records \o username.records))

Filtered(leg) == [leg EXCEPT !.records = PostFilter(@)]

(* boardMemberDetections, committeeMemberDetections and the loops at the    *)
(* end of the other sources: one project per record that has a project UID. *)
Detections(q, token) ==
    LET usable == Only(q, {r \in ToSet(q) : r.uid # ""})
    IN  [i \in DOMAIN usable |->
            [uid |-> usable[i].uid, slug |-> usable[i].slug,
             detections |-> <<[source |-> token, id |-> usable[i].id]>>]]

-----------------------------------------------------------------------------
(* sourceBoardMemberAndCommittee: a failed branch counts as an empty one.   *)
CommitteeRecords_AllBranchOnly(board, all) == all.records
CommitteeRecords(board, all) == DeduplicateResources(board.records \o all.records)

BoardMemberAndCommittee(boardEmail, boardUser, allEmail, allUser) ==
    LET board == TwoLegs(boardEmail, Filtered(boardUser))
        all   == TwoLegs(allEmail, Filtered(allUser))
        members == CommitteeRecords(board, all)
    IN  Found(IF members = <<>> THEN <<>>
              ELSE MergeProjects(Detections(board.records, "board_member"),
                                 Detections(members, "committee_member")))

(* sourceMailingList and sourceMeetingAttendance; the latter's username leg *)
(* is an exact tag lookup and is not filtered.                              *)
MailingList(email, username) ==
    LET legs == TwoLegs(email, Filtered(username))
    IN  [legs EXCEPT !.records = Detections(@, "mailing_list")]

MeetingAttendance(email, username) ==
    LET legs == TwoLegs(email, username)
    IN  [legs EXCEPT !.records = Detections(@, "meeting_attendance")]

(* resolveProjectSlug answers "" whenever the project service does not.     *)
WithSlugs(q, resolve) == [i \in DOMAIN q |-> [q[i] EXCEPT !.slug = resolve[q[i].uid]]]

(* sourceExecutiveDirector, for a non-empty username.                       *)
ExecutiveDirector(leg, resolve) ==
    IF leg.err THEN Failed
    ELSE Found(WithSlugs(
            Detections(Only(leg.records, {r \in ToSet(leg.records) : r.ed = "me"}),
                       "executive_director"), resolve))

(* sourceWriterAuditor, for a non-empty username: matches[] is keyed by     *)
(* record id and ranged over in an arbitrary order, `order'.                *)
(* An id stands for one record, so the record is its own key here.          *)
MatchedRoles_FirstOnly(r, writers, auditors) ==
    IF r.writer /\ r \in ToSet(writers.records) THEN <<"writer">> ELSE <<"auditor">>

MatchedRoles(r, writers, auditors) ==
    (IF r.writer /\ r \in ToSet(writers.records) THEN <<"writer">> ELSE <<>>)
    \o (IF r.auditor /\ r \in ToSet(auditors.records) THEN <<"auditor">> ELSE <<>>)

WriterAuditor(writers, auditors, order, resolve) ==
    LET Entry(r) ==
            LET roles == MatchedRoles(r, writers, auditors)
            IN  [uid |-> r.uid, slug |-> resolve[r.uid],
                 detections |-> [i \in DOMAIN roles |-> [source |-> roles[i], id |-> r.id]]]
    IN  IF writers.err /\ auditors.err THEN Failed
        ELSE Found([i \in DOMAIN order |-> Entry(order[i])])

WriterAuditorMatches(writers, auditors) ==
    {r \in ToSet(writers.records) : r.writer}
    \cup {r \in ToSet(auditors.records) : r.auditor}

(* sourceCDPRoles, once it has the affiliations: `uidOf' maps the slugs     *)
(* that resolveSlugsToUIDs resolved; nonlf_ slugs are never looked up.      *)
IsReported_NoResolveCheck(a, uidOf) == ~a.nonlf
IsReported(a, uidOf) == ~a.nonlf /\ a.slug \in DOMAIN uidOf

UIDOf(a, uidOf) == IF a.slug \in DOMAIN uidOf THEN uidOf[a.slug] ELSE ""

CDPRoles(affiliations, uidOf) ==
    LET usable == Only(affiliations, {a \in ToSet(affiliations) : IsReported(a, uidOf)})
    IN  Found([i \in DOMAIN usable |->
            [uid |-> UIDOf(usable[i], uidOf), slug |-> usable[i].slug,
             detections |-> <<[source |-> "cdp_roles", id |-> usable[i].id]>>]])
=============================================================================
