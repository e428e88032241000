--------------------------- MODULE RequestService ---------------------------
(***************************************************************************)
(* What the service as a whole promises about requests, without replicas,  *)
(* subscriptions and callbacks: a request is taken in once, is settled     *)
(* once (answered, or lost with the process that held it) and is never     *)
(* held longer than a handler timeout for each request that was held when  *)
(* it came and one for itself.                                             *)
(***************************************************************************)
EXTENDS Integers, FiniteSets

CONSTANTS Callers, HandlerTimeout

VARIABLES
    now,        \* the time
    request     \* request[c]: [state, due], due when it must be settled

vars == <<now, request>>

Unsent  == [state |-> "unsent", due |-> 0]
Settled == [state |-> "settled", due |-> 0]

Held == {c \in Callers : request[c].state = "held"}

Init == now = 0 /\ request = [c \in Callers |-> Unsent]

Take(c) ==
    /\ request[c] = Unsent
    /\ \E n \in 0..Cardinality(Held) :
          request' = [request EXCEPT ![c] =
                        [state |-> "held", due |-> now + (n + 1) * HandlerTimeout]]
    /\ UNCHANGED now

(* A process that ends settles all the requests it held.                   *)
Settle ==
    /\ \E C \in SUBSET Held : C # {} /\
          request' = [c \in Callers |-> IF c \in C THEN Settled ELSE request[c]]
    /\ UNCHANGED now

Tick ==
    /\ \A c \in Held : now < request[c].due
    /\ now' = now + 1
    /\ UNCHANGED request

Next == (\E c \in Callers : Take(c)) \/ Settle \/ Tick

Spec == Init /\ [][Next]_vars
=============================================================================
