---------------------- MODULE PersonaHandlerRefinement ----------------------
(***************************************************************************)
(* PersonaHandler implements PersonaReply.  A source has delivered when    *)
(* its result is in the results channel; time has run out when the context *)
(* has ended.                                                              *)
(***************************************************************************)
EXTENDS PersonaHandler

PhaseOf ==
    CASE pc = "start"    -> "new"
      [] pc = "rejected" -> "rejected"
      [] pc = "replied" /\ reply.code = "none" -> "complete"
      [] pc = "replied" /\ reply.code # "none" -> "timed_out"
      [] OTHER -> "waiting"

AskedOf     == IF pc \in {"start", "rejected"} THEN {} ELSE Launched
DeliveredOf == {s \in Sources : stage[s] = "done"}
OwedOf      == {s \in Sources : atEnd[s] = "done" /\ outcome[s] = "ok"}
ExpiredOf   == ctx # "live"
AnswerOf    == Range(reply.from)

Abstract == INSTANCE PersonaReply WITH
    phase     <- PhaseOf,
    asked     <- AskedOf,
    delivered <- DeliveredOf,
    useful    <- Useful,
    expired   <- ExpiredOf,
    owed      <- OwedOf,
    answer    <- AnswerOf

(* GetPersona, with its goroutines, buffered channel, select loop and drain *)
(* loop, gives only answers that PersonaReply allows.                       *)
ImplementsPersonaReply == Abstract!Spec
=============================================================================
