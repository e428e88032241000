-------------------------- MODULE MCPersonaResponse --------------------------
(* PersonaResponse on two projects and a few records: found by email, by     *)
(* username, by both, by neither, and one without a project UID.             *)
EXTENDS PersonaResponse

MCProjectUIDs == {"p1", "p2"}
MCSlugOf == [u \in MCProjectUIDs |-> IF u = "p1" THEN "s1" ELSE "s2"]

Record(id, uid, email, username) ==
    [id |-> id, uid |-> uid, email |-> email, username |-> username,
     slug |-> IF uid = "" THEN "" ELSE MCSlugOf[uid]]

Member(id, uid, email, username, board) ==
    [board |-> board] @@ Record(id, uid, email, username)

MCMemberRecords ==
    {Member("m1", "p1", TRUE,  "",      TRUE),
     Member("m2", "p1", FALSE, "me",    TRUE),
     Member("m3", "p2", FALSE, "other", TRUE),
     Member("m4", "p2", TRUE,  "me",    FALSE)}

MCListRecords ==
    {Record("l1", "p1", TRUE,  "me"), Record("l2", "p2", FALSE, "other"),
     Record("l3", "p1", FALSE, "me")}

MCMeetingRecords ==
    {Record("a1", "p1", TRUE, "me"), Record("a2", "",   TRUE,  "me")}

Settings(id, uid, ed, writer, auditor) ==
    [id |-> id, uid |-> uid, slug |-> "", ed |-> ed, writer |-> writer,
     auditor |-> auditor]

MCSettingsRecords ==
    {Settings("t1", "p1", "me", TRUE, TRUE), Settings("t2", "p2", "other", FALSE, TRUE)}

MCAffiliations ==
    {[id |-> "c1", slug |-> "s1", nonlf |-> FALSE],
     [id |-> "c2", slug |-> "nonlf_x", nonlf |-> TRUE]}

NoRecords == {}

(* Two groups of sources: the merge does not depend on which sources its     *)
(* lists come from.                                                          *)
MCLaunches ==
    {{"board_member+committee", "meeting_attendance"},
     {"mailing_list", "executive_director", "writer+auditor", "cdp_roles"}}
=============================================================================
