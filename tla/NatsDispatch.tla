---------------------------- MODULE NatsDispatch ----------------------------
(***************************************************************************)
(* The request path around GetPersona: callers send NATS requests, the     *)
(* queue group gives each to one replica, and the replica's subscription   *)
(* callback (internal/infrastructure/nats/client.go,                       *)
(* cmd/server/service/message_handler.go) handles them.                    *)
(*                                                                         *)
(* One async subscription runs its callback for one message at a time, so  *)
(* requests that arrive meanwhile wait in the subscription, whether or not *)
(* their callers still do.  GetPersona is abstracted to the bound that     *)
(* PersonaHandler gives it: it returns within HandlerTimeout, and at once  *)
(* when main has cancelled the root context.  main does not unsubscribe or *)
(* close the connection: a replica that is stopping stays in the group.    *)
(***************************************************************************)
EXTENDS Integers, Sequences, FiniteSets, Functions

CONSTANTS
    Callers,            \* requests, one per caller
    Replicas,           \* members of the queue group
    Nobody,             \* no request
    HandlerTimeout,     \* PERSONA_HANDLER_TIMEOUT, 4 s
    CallerTimeout,      \* the caller's reply timeout, 5 s
    Horizon             \* bound: time stops there

\* config.go: the handler's timeout must stay under the caller's.
ASSUME TimeoutAssumption ==
    /\ HandlerTimeout \in Nat /\ CallerTimeout \in Nat /\ Horizon \in Nat
    /\ 0 < HandlerTimeout /\ HandlerTimeout < CallerTimeout
    /\ Nobody \notin Callers

\* Finitely many requests are sent.
ASSUME CallersAssumption == IsFiniteSet(Callers)

VARIABLES
    now,        \* the time
    caller,     \* caller[c]: [state, sent, ahead]
    pending,    \* messages waiting in each replica's subscription
    current,    \* what each replica's callback is handling
    begun,      \* when it began
    stopping    \* the replicas whose root context is cancelled

vars == <<now, caller, pending, current, begun, stopping>>

\* "timed_out": answered with the code handler_timeout.
States == {"new", "waiting", "answered", "timed_out", "gave_up"}

-----------------------------------------------------------------------------

Init ==
    /\ now = 0
    /\ caller = [c \in Callers |-> [state |-> "new", sent |-> 0, ahead |-> 0]]
    /\ pending = [r \in Replicas |-> <<>>]
    /\ current = [r \in Replicas |-> Nobody]
    /\ begun = [r \in Replicas |-> 0]
    /\ stopping = {}

Busy(r) == current[r] # Nobody

(* The server picks a member of the queue group.  `ahead' remembers how     *)
(* much work the request found there.                                       *)
Send(c) ==
    /\ caller[c].state = "new"
    /\ \E r \in Replicas :
        /\ pending' = [pending EXCEPT ![r] = Append(@, c)]
        /\ caller' = [caller EXCEPT ![c] = [state |-> "waiting", sent |-> now,
                ahead |-> Len(pending[r]) + (IF Busy(r) THEN 1 ELSE 0)]]
    /\ UNCHANGED <<now, current, begun, stopping>>

(* The subscription's goroutine calls the callback with the next message.   *)
Deliver_Newest(r) ==
    /\ ~Busy(r)
    /\ pending[r] # <<>>
    /\ current' = [current EXCEPT ![r] = pending[r][Len(pending[r])]]
    /\ begun' = [begun EXCEPT ![r] = now]
    /\ pending' = [pending EXCEPT ![r] = SubSeq(@, 1, Len(@) - 1)]
    /\ UNCHANGED <<now, caller, stopping>>

Deliver_Keeps(r) ==
    /\ ~Busy(r)
    /\ pending[r] # <<>>
    /\ current' = [current EXCEPT ![r] = Head(pending[r])]
    /\ begun' = [begun EXCEPT ![r] = now]
    /\ UNCHANGED <<now, caller, pending, stopping>>

Deliver_WaitingOnly(r) ==
    /\ ~Busy(r)
    /\ pending[r] # <<>>
    /\ caller[Head(pending[r])].state = "waiting"
    /\ current' = [current EXCEPT ![r] = Head(pending[r])]
    /\ begun' = [begun EXCEPT ![r] = now]
    /\ pending' = [pending EXCEPT ![r] = Tail(@)]
    /\ UNCHANGED <<now, caller, stopping>>

Deliver(r) ==
    /\ ~Busy(r)
    /\ pending[r] # <<>>
    /\ current' = [current EXCEPT ![r] = Head(pending[r])]
    /\ begun' = [begun EXCEPT ![r] = now]
    /\ pending' = [pending EXCEPT ![r] = Tail(@)]
    /\ UNCHANGED <<now, caller, stopping>>

Done(r) ==
    /\ current' = [current EXCEPT ![r] = Nobody]
    /\ begun' = [begun EXCEPT ![r] = 0]
    /\ UNCHANGED <<now, pending, stopping>>

(* GetPersona's reply: complete, or handler_timeout if the context has      *)
(* ended, by the deadline or with its parent, the root context.             *)
ContextEnded(r) == r \in stopping \/ now >= begun[r] + HandlerTimeout
Replies(r) == {"answered"} \cup (IF ContextEnded(r) THEN {"timed_out"} ELSE {})

(* HandleMessage returns and has responded; nobody may be listening.        *)
Respond(r) ==
    /\ Busy(r)
    /\ \E reply \in Replies(r) :
          caller' = [caller EXCEPT ![current[r]].state =
                        IF @ = "waiting" THEN reply ELSE @]
    /\ Done(r)

(* msg.Respond fails, or the callback panics and its deferred recover ends  *)
(* it: either is only logged.                                               *)
NoResponse(r) ==
    /\ Busy(r)
    /\ UNCHANGED caller
    /\ Done(r)

(* cancel() in main, on a signal; the messages already delivered and the    *)
(* ones that still come are handled under the cancelled context until main  *)
(* returns.                                                                 *)
Stop(r) ==
    /\ r \notin stopping
    /\ stopping' = stopping \cup {r}
    /\ UNCHANGED <<now, caller, pending, current, begun>>

(* main returns, or a panic in a source's goroutine ends the process; what  *)
(* was delivered to it is lost, and its successor starts with an empty      *)
(* subscription.                                                            *)
Crash(r) ==
    /\ pending' = [pending EXCEPT ![r] = <<>>]
    /\ current' = [current EXCEPT ![r] = Nobody]
    /\ begun' = [begun EXCEPT ![r] = 0]
    /\ stopping' = stopping \ {r}
    /\ UNCHANGED <<now, caller>>

GiveUp(c) ==
    /\ caller[c].state = "waiting"
    /\ now >= caller[c].sent + CallerTimeout
    /\ caller' = [caller EXCEPT ![c].state = "gave_up"]
    /\ UNCHANGED <<now, pending, current, begun, stopping>>

(* Time does not pass over the end of the handler's context, over a         *)
(* caller's deadline, or over an idle callback that has a message.          *)
InTime_NoDeadline(r) == TRUE
InTime(r) == Busy(r) => ~ContextEnded(r)

Tick ==
    /\ now < Horizon
    /\ \A r \in Replicas : InTime(r) /\ (Busy(r) \/ pending[r] = <<>>)
    /\ \A c \in Callers : caller[c].state = "waiting" =>
            now < caller[c].sent + CallerTimeout
    /\ now' = now + 1
    /\ UNCHANGED <<caller, pending, current, begun, stopping>>

Next ==
    \/ \E c \in Callers : Send(c) \/ GiveUp(c)
    \/ \E r \in Replicas : Deliver(r) \/ Respond(r) \/ NoResponse(r) \/ Stop(r) \/ Crash(r)
    \/ Tick

Spec == Init /\ [][Next]_vars

(* The subscription's goroutine runs, and the handler returns               *)
(* (PersonaHandler's AlwaysReplies).                                        *)
FairSpec ==
    /\ Spec
    /\ \A r \in Replicas : WF_vars(Deliver(r)) /\ WF_vars(Respond(r) \/ NoResponse(r))

-----------------------------------------------------------------------------
(* Properties.                                                              *)

Queued(c) == \E r \in Replicas : c \in Range(pending[r])
Handled(c) == \E r \in Replicas : current[r] = c

(* Every variable stays in its domain.                                      *)
TypeOK ==
    /\ now \in Nat
    /\ caller \in [Callers -> [state : States, sent : Nat, ahead : Nat]]
    /\ pending \in [Replicas -> Seq(Callers)]
    /\ current \in [Replicas -> Callers \cup {Nobody}]
    /\ begun \in [Replicas -> Nat]
    /\ stopping \subseteq Replicas

(* A request is with one replica only, waiting or being handled there, and  *)
(* is never handled again: the group neither duplicates nor returns it.     *)
OnePlace ==
    /\ \A r \in Replicas : IsInjective(pending[r]) /\ current[r] \notin Range(pending[r])
    /\ \A r, s \in Replicas : r # s =>
        /\ Range(pending[r]) \cap Range(pending[s]) = {}
        /\ current[r] \notin Range(pending[s])
        /\ current[r] = current[s] => ~Busy(r)
    /\ \A c \in Callers : caller[c].state \in {"new", "answered", "timed_out"} =>
                            ~Queued(c) /\ ~Handled(c)

(* How long a request can be in the service: one handler timeout for each   *)
(* request it found ahead of it, and one for itself, also when requests     *)
(* ahead have been given up by their callers or end without a response.     *)
DelayIsBounded ==
    \A c \in Callers : Queued(c) \/ Handled(c) =>
        now - caller[c].sent <= (caller[c].ahead + 1) * HandlerTimeout

(* A request that found its replica idle is never given up while it is      *)
(* being handled: the handler's timeout leaves the caller time for the      *)
(* (partial) reply.                                                         *)
IdleMeansInTime ==
    \A c \in Callers : caller[c].ahead = 0 /\ caller[c].state = "gave_up" =>
        ~Queued(c) /\ ~Handled(c)

(* A message does not stay in a subscription: a callback that panics or     *)
(* cannot respond does not stop the ones behind it.                         *)
QueueDrains == \A c \in Callers : Queued(c) ~> ~Queued(c)

(* The reply is not held up beyond the caller's budget by slow upstream     *)
(* systems (ARCHITECTURE.md, "Timeout / deadline budget"): a request that   *)
(* is still in the service has not been given up.                           *)
ReplyWithinBudget ==
    \A c \in Callers : Queued(c) \/ Handled(c) => caller[c].state # "gave_up"

(* `persona detection timed out; upstream sources did not respond in time'  *)
(* (the message of handler_timeout): whoever gets that answer has been      *)
(* worked for until the handler's deadline, also while replicas come and go.*)
TimeoutMeansTimedOut ==
    [][\A c \in Callers : caller[c].state = "waiting" /\ caller'[c].state = "timed_out" =>
          \E r \in Replicas : current[r] = c /\ now - begun[r] >= HandlerTimeout]_vars
=============================================================================
