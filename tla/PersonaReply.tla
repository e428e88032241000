---------------------------- MODULE PersonaReply ----------------------------
(***************************************************************************)
(* What GetPersona promises its caller, with no goroutine, channel or      *)
(* select in sight (ARCHITECTURE.md "Timeout contract" and "Errors"):      *)
(*   - a request is rejected, or accepted for a set of sources;            *)
(*   - each source delivers once, something useful or a failure;           *)
(*   - a complete answer is given only in time, and from everything;       *)
(*   - when time runs out, what had been delivered by then is owed to the  *)
(*     caller, and the timeout answer contains it.                         *)
(***************************************************************************)
CONSTANT Sources

VARIABLES
    phase,      \* "new", "rejected", "waiting", "complete" or "timed_out"
    asked,      \* the sources the answer depends on
    delivered,  \* those that have delivered
    useful,     \* those that delivered something other than a failure
    expired,    \* time has run out
    owed,       \* what was useful when time ran out
    answer      \* the set of sources answered from; {} until then

vars == <<phase, asked, delivered, useful, expired, owed, answer>>

Init ==
    /\ phase = "new"
    /\ asked = {} /\ delivered = {} /\ useful = {} /\ owed = {}
    /\ expired = FALSE
    /\ answer = {}

\* Answering may end the time that was left.
MayExpire ==
    \/ UNCHANGED <<expired, owed>>
    \/ ~expired /\ expired' = TRUE /\ owed' = useful

Reject ==
    /\ phase = "new"
    /\ phase' = "rejected"
    /\ MayExpire
    /\ UNCHANGED <<asked, delivered, useful, answer>>

Accept ==
    /\ phase = "new"
    /\ phase' = "waiting"
    /\ asked' \in SUBSET Sources
    /\ UNCHANGED <<delivered, useful, expired, owed, answer>>

Deliver(s) ==
    /\ s \in asked \ delivered
    /\ delivered' = delivered \cup {s}
    /\ useful' \in {useful, useful \cup {s}}
    /\ UNCHANGED <<phase, asked, expired, owed, answer>>

Expire ==
    /\ ~expired
    /\ expired' = TRUE
    /\ owed' = useful
    /\ UNCHANGED <<phase, asked, delivered, useful, answer>>

AnswerInFull ==
    /\ phase = "waiting"
    /\ ~expired
    /\ delivered = asked
    /\ phase' = "complete"
    /\ answer' = useful
    /\ MayExpire
    /\ UNCHANGED <<asked, delivered, useful>>

AnswerInPart ==
    /\ phase = "waiting"
    /\ expired
    /\ phase' = "timed_out"
    /\ answer' \in {a \in SUBSET useful : owed \subseteq a}
    /\ UNCHANGED <<asked, delivered, useful, expired, owed>>

Next ==
    \/ Reject
    \/ Accept
    \/ \E s \in Sources : Deliver(s)
    \/ Expire
    \/ AnswerInFull
    \/ AnswerInPart

Spec == Init /\ [][Next]_vars
=============================================================================
