----------------------- MODULE NatsDispatchRefinement -----------------------
(***************************************************************************)
(* NatsDispatch implements RequestService: a request is held while it      *)
(* waits in some replica's subscription or is being handled, whatever its  *)
(* caller does meanwhile.                                                  *)
(***************************************************************************)
EXTENDS NatsDispatch

RequestOf(c) ==
    CASE caller[c].state = "new" -> [state |-> "unsent", due |-> 0]
      [] Queued(c) \/ Handled(c) ->
            [state |-> "held",
             due |-> caller[c].sent + (caller[c].ahead + 1) * HandlerTimeout]
      [] OTHER -> [state |-> "settled", due |-> 0]

Abstract == INSTANCE RequestService WITH
    request <- [c \in Callers |-> RequestOf(c)]

(* A queue group of replicas that stop, crash, panic and fail to respond,  *)
(* each handling one request at a time in the order of arrival, takes in   *)
(* and settles every request once and holds none longer than the requests  *)
(* it found at its replica explain.                                        *)
ImplementsRequestService == Abstract!Spec
=============================================================================
