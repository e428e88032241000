----------------------------- MODULE MCCdpCache -----------------------------
(* CdpCache up to a horizon: ann has a username, the others have none.       *)
EXTENDS CdpCache, TLC

CONSTANTS MaxTime, ann

MCUsernameOf == [p \in Persons |-> IF p = ann THEN ann ELSE NoUsername]

WithinHorizon == now <= MaxTime
Symmetric == Permutations(Requests) \cup Permutations(Refreshes)
             \cup Permutations(Members) \cup Permutations(Persons \ {ann})
=============================================================================
