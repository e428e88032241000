---------------------------- MODULE UpstreamCalls ----------------------------
(***************************************************************************)
(* One call of an upstream HTTP API: query.Client.Search                   *)
(* (internal/infrastructure/query/client.go), cdp.Client.ResolveMember and *)
(* GetProjectAffiliations (internal/infrastructure/cdp/client.go).  A call *)
(* gets a bearer token (TokenProvider), unless it is Search without a      *)
(* TokenFunc, makes one exchange and decodes what comes back.  Its context *)
(* is a request's, or context.Background() in a background refresh.        *)
(***************************************************************************)
EXTENDS Integers

CONSTANTS
    Tasks,          \* the goroutines that make calls, one at a time each
    Detached,       \* those on context.Background()
    Bodies(_),      \* what a kind of call may find in a decodable 200 body
    Garbled,        \* a body that cannot be read or decoded
    NoMember,       \* the empty member id
    TokenWait,      \* the longest wait for a token (TokenProvider's DrainIsBounded)
    HTTPTimeout     \* http.Client.Timeout, 10 s

ASSUME CallAssumption ==
    Detached \subseteq Tasks /\ TokenWait \in Nat /\ HTTPTimeout \in Nat

VARIABLES
    now,    \* the time
    ended,  \* the request's context has ended
    call    \* call[t]: [stage, kind, began, since, reply, result]

Kinds    == {"search", "resolve", "affiliations"}
Statuses == {"200", "404", "other"}
NoReply  == [status |-> "none", body |-> Garbled]

Success(v) == [err |-> FALSE, value |-> v]
Failure    == [err |-> TRUE, value |-> Garbled]

Idle == [stage |-> "idle", kind |-> "search", began |-> 0, since |-> 0,
         reply |-> NoReply, result |-> Failure]

-----------------------------------------------------------------------------

(* Only ResolveMember takes 404 for an answer: CDP has no such person.      *)
Decode_NoStatus(kind, reply) ==
    IF kind = "resolve" /\ (reply.status = "404" \/ reply.body = Garbled) THEN Success(NoMember)
    ELSE IF reply.body # Garbled THEN Success(reply.body)
    ELSE Failure

Decode(kind, reply) ==
    IF reply.status = "200" /\ reply.body # Garbled THEN Success(reply.body)
    ELSE IF reply.status = "404" /\ kind = "resolve" THEN Success(NoMember)
    ELSE Failure

Stage(t, s) == call[t].stage = s
InCall(t) == call[t].stage \in {"token", "http"}
ContextEnded(t) == ended /\ t \notin Detached

(* A call by task t; Search without a TokenFunc asks for no token.          *)
NewCall(kind, anonymous) ==
    [stage |-> IF anonymous THEN "http" ELSE "token", kind |-> kind,
     began |-> now, since |-> now, reply |-> NoReply, result |-> Failure]

Returned(t, reply, result) ==
    call' = [call EXCEPT ![t] =
                [@ EXCEPT !.stage = "done", !.began = 0, !.since = 0, !.reply = reply, !.result = result]]

GotToken(t) ==
    /\ Stage(t, "token")
    /\ call' = [call EXCEPT ![t].stage = "http", ![t].since = now]
    /\ UNCHANGED <<now, ended>>

(* A body that comes with another status than 200 is never decoded.         *)
Replies(kind) ==
    [status : {"200"}, body : Bodies(kind) \cup {Garbled}]
    \cup [status : Statuses \ {"200"}, body : {Garbled}]

Answered(t) ==
    /\ Stage(t, "http")
    /\ \E reply \in Replies(call[t].kind) :
          Returned(t, reply, Decode(call[t].kind, reply))
    /\ UNCHANGED <<now, ended>>

(* An exchange or the transport fails.                                      *)
Fails(t) ==
    /\ InCall(t)
    /\ Returned(t, NoReply, Failure)
    /\ UNCHANGED <<now, ended>>

(* Token selects ctx.Done(), and Do returns when the context ends.          *)
Interrupted_HTTPOnly(t) == Stage(t, "http") /\ ContextEnded(t) /\ Fails(t)
Interrupted(t) == ContextEnded(t) /\ Fails(t)

(* What ends a call without an answer, at the latest.                       *)
InTime_NoHTTPTimeout(t) == Stage(t, "token") => now < call[t].since + TokenWait
InTime(t) ==
    /\ InCall(t) => ~ContextEnded(t)
    /\ Stage(t, "token") => now < call[t].since + TokenWait
    /\ Stage(t, "http") => now < call[t].since + HTTPTimeout

CallStep(t) == GotToken(t) \/ Answered(t) \/ Fails(t)

CallType ==
    [stage : {"idle", "token", "http", "done"}, kind : Kinds, began : Nat, since : Nat,
     reply : [status : Statuses \cup {"none"},
              body : (UNION {Bodies(k) : k \in Kinds}) \cup {Garbled}],
     result : [err : BOOLEAN,
               value : (UNION {Bodies(k) : k \in Kinds}) \cup {Garbled, NoMember}]]
=============================================================================
