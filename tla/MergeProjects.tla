--------------------------- MODULE MergeProjects ---------------------------
(***************************************************************************)
(* model.MergeProjects (internal/domain/model/persona.go) on lists of      *)
(* projects [uid, slug, detections], and what it is meant to compute,      *)
(* stated without the accumulator and its index map.                       *)
(***************************************************************************)
EXTENDS SequencesExt

(* One iteration of either loop: a project whose UID is in the index gives  *)
(* its detections to the entry there; a new one is added to the end.        *)
Absorb_Overwrites(e, p) ==
    IF e.uid = p.uid THEN [e EXCEPT !.detections = p.detections] ELSE e
Absorb(e, p) ==
    IF e.uid = p.uid THEN [e EXCEPT !.detections = @ \o p.detections] ELSE e

AddProject_AtFront(list, p) == <<p>> \o list
AddProject(list, p) == Append(list, p)

MergeOne(list, p) ==
    IF \E i \in DOMAIN list : list[i].uid = p.uid
    THEN [i \in DOMAIN list |-> Absorb(list[i], p)]
    ELSE AddProject(list, p)

(* The loop over dst collapses its duplicates; the loop over src follows.   *)
MergeProjects_SrcNotIndexed(dst, src) ==
    LET normalised == FoldLeft(MergeOne, <<>>, dst)
        IsNew(p) == \A i \in DOMAIN normalised : normalised[i].uid # p.uid
    IN  FoldLeft(MergeOne, normalised, SelectSeq(src, LAMBDA p : ~IsNew(p)))
            \o SelectSeq(src, IsNew)

MergeProjects(dst, src) == FoldLeft(MergeOne, FoldLeft(MergeOne, <<>>, dst), src)

-----------------------------------------------------------------------------
(* Reference: group a list by UID, one group where each UID is first seen,  *)
(* in that order, with the first entry's slug and all detections in order.  *)

Firsts(list) == {i \in DOMAIN list : \A j \in 1..(i - 1) : list[j].uid # list[i].uid}

AllDetections(list, uid) ==
    FoldLeft(LAMBDA all, p : IF p.uid = uid THEN all \o p.detections ELSE all, <<>>, list)

GroupAt(list, i) == [list[i] EXCEPT !.detections = AllDetections(list, list[i].uid)]

IsGrouping(groups, list) ==
    /\ Len(groups) = Cardinality(Firsts(list))
    /\ \A i \in Firsts(list) :
          groups[Cardinality({j \in Firsts(list) : j <= i})] = GroupAt(list, i)
=============================================================================
