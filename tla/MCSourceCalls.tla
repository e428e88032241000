---------------------------- MODULE MCSourceCalls ----------------------------
(***************************************************************************)
(* Values for TLC: no affiliations, or some with two slugs, one of them    *)
(* twice, a nonlf_ project and one without a slug.                         *)
(***************************************************************************)
EXTENDS SourceCalls

CONSTANTS source, be, bu, ae, au, fm, fa, m1

MCTasks    == {source, be, bu, ae, au, fm, fa}
MCDetached == {fm, fa}
MCMembers  == {m1}

MCEmailLeg(b)    == IF b = Board THEN be ELSE ae
MCUsernameLeg(b) == IF b = Board THEN bu ELSE au

Affiliation(id, slug) == [id |-> id, slug |-> slug, nonlf |-> FALSE]
NonLF(id) == [id |-> id, slug |-> "nonlf_a", nonlf |-> TRUE]

MCLists ==
    {<<>>,
     <<NonLF("a1"), Affiliation("a2", "s1"), Affiliation("a3", ""),
       Affiliation("a4", "s2"), Affiliation("a5", "s1")>>}

MCBodies(kind) ==
    CASE kind = "search" -> {<<[id |-> "r1"]>>}
      [] kind = "resolve" -> Members \cup {NoMember}
      [] kind = "affiliations" -> Lists
=============================================================================
