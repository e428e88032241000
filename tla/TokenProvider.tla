---------------------------- MODULE TokenProvider ----------------------------
(***************************************************************************)
(* TokenProvider.Token (internal/infrastructure/cdp/auth.go).  Every call   *)
(* starts a goroutine that takes the mutex of oauth2.ReuseTokenSource,      *)
(* reuses the cached token or exchanges an assertion for a new one, and     *)
(* sends the result to the call's channel.  The call waits for that or for  *)
(* the end of its context; the goroutine goes on without it.                *)
(***************************************************************************)
EXTENDS Integers, FiniteSets

CONSTANTS
    Calls,          \* calls of Token
    FetchTimeout,   \* tokenFetchTimeout, 30 s
    CallTimeout,    \* the request's deadline, 4 s
    TokenLife,      \* expires_in of a new token
    ExpiryBuffer,   \* tokenExpiryBuffer, 5 min
    Horizon         \* bound: time stops there

\* Requests are short compared with the buffer, and the buffer with a token's life.
ASSUME DurationAssumption ==
    /\ FetchTimeout \in Nat /\ CallTimeout \in Nat /\ TokenLife \in Nat
    /\ ExpiryBuffer \in Nat /\ Horizon \in Nat
    /\ CallTimeout <= ExpiryBuffer /\ ExpiryBuffer <= TokenLife

\* Finitely many calls are made.
ASSUME CallsAssumption == IsFiniteSet(Calls)

VARIABLES
    now,        \* the time
    expiry,     \* when the cached token expires, 0 if there is none
    call,       \* call[c]: what the caller is doing
    at,         \* at[c]: when the call began
    worker,     \* worker[c]: what the call's goroutine is doing
    began,      \* when the exchange in progress began
    result      \* result[c]: expiry of the token for c, 0 for an error

vars == <<now, expiry, call, at, worker, began, result>>

ChannelCapacity_None == 0
ChannelCapacity == 1

-----------------------------------------------------------------------------

Init ==
    /\ now = 0 /\ expiry = 0 /\ began = 0
    /\ call = [c \in Calls |-> "new"]
    /\ at = [c \in Calls |-> 0]
    /\ worker = [c \in Calls |-> "off"]
    /\ result = [c \in Calls |-> 0]

(* Token starts the goroutine and waits.                                    *)
Token(c) ==
    /\ call[c] = "new"
    /\ call' = [call EXCEPT ![c] = "waiting"]
    /\ at' = [at EXCEPT ![c] = now]
    /\ worker' = [worker EXCEPT ![c] = "queued"]
    /\ UNCHANGED <<now, expiry, began, result>>

(* What ReuseTokenSourceWithExpiry accepts.                                 *)
Valid_NoBuffer(e) == e # 0 /\ now < e
Valid(e) == e # 0 /\ now < e - ExpiryBuffer

Exchanging == {c \in Calls : worker[c] = "exchanging"}

(* The mutex is held until the cached token is found valid or the exchange  *)
(* has ended.                                                               *)
MutexFree == Exchanging = {}

Reuse(c) ==
    /\ Valid(expiry)
    /\ worker' = [worker EXCEPT ![c] = "sending"]
    /\ result' = [result EXCEPT ![c] = expiry]
    /\ UNCHANGED began

BeginExchange(c) ==
    /\ worker' = [worker EXCEPT ![c] = "exchanging"]
    /\ began' = now
    /\ UNCHANGED result

Lock_NoMutex(c) ==
    /\ worker[c] = "queued"
    /\ Reuse(c) \/ (~Valid(expiry) /\ BeginExchange(c))
    /\ UNCHANGED <<now, expiry, call, at>>

Lock(c) ==
    /\ worker[c] = "queued" /\ MutexFree
    /\ Reuse(c) \/ (~Valid(expiry) /\ BeginExchange(c))
    /\ UNCHANGED <<now, expiry, call, at>>

(* assertionTokenSource.Token, on a context of its own: a new token is      *)
(* cached whether or not its caller is still there, an error is not.        *)
ExchangeSucceeds(c) ==
    /\ worker[c] = "exchanging"
    /\ expiry' = now + TokenLife
    /\ result' = [result EXCEPT ![c] = expiry']
    /\ worker' = [worker EXCEPT ![c] = "sending"]
    /\ began' = 0
    /\ UNCHANGED <<now, call, at>>

ExchangeFails(c) ==
    /\ worker[c] = "exchanging"
    /\ worker' = [worker EXCEPT ![c] = "sending"]
    /\ began' = 0
    /\ UNCHANGED <<now, expiry, call, at, result>>

(* The result goes into the channel, which is the call's own.               *)
SendResult(c) ==
    /\ worker[c] = "sending"
    /\ ChannelCapacity > 0 \/ call[c] = "waiting"
    /\ worker' = [worker EXCEPT ![c] = "done"]
    /\ UNCHANGED <<now, expiry, call, at, began, result>>

(* select: the result ...                                                   *)
Receive(c) ==
    /\ call[c] = "waiting" /\ worker[c] = "done"
    /\ call' = [call EXCEPT ![c] = IF result[c] = 0 THEN "failed" ELSE "got"]
    /\ UNCHANGED <<now, expiry, at, worker, began, result>>

(* ... or ctx.Done(), by the request's deadline or earlier.                 *)
GiveUp(c) ==
    /\ call[c] = "waiting"
    /\ call' = [call EXCEPT ![c] = "gave_up"]
    /\ UNCHANGED <<now, expiry, at, worker, began, result>>

(* Time does not pass over the end of an exchange or of a request, or over  *)
(* a goroutine that can go on.                                              *)
InTime_NoTimeout == TRUE
InTime == Exchanging # {} => now < began + FetchTimeout

Tick ==
    /\ now < Horizon
    /\ InTime
    /\ \A c \in Calls :
        /\ call[c] = "waiting" => now < at[c] + CallTimeout /\ worker[c] # "done"
        /\ worker[c] # "sending"
        /\ worker[c] = "queued" => ~MutexFree
    /\ now' = now + 1
    /\ UNCHANGED <<expiry, call, at, worker, began, result>>

Worker(c) == Lock(c) \/ ExchangeSucceeds(c) \/ ExchangeFails(c) \/ SendResult(c)

Next ==
    \/ \E c \in Calls : Token(c) \/ Receive(c) \/ GiveUp(c) \/ Worker(c)
    \/ Tick

Spec == Init /\ [][Next]_vars

(* Goroutines that can run do, and an exchange ends (tokenFetchTimeout).    *)
FairSpec == Spec /\ \A c \in Calls : WF_vars(Worker(c))

-----------------------------------------------------------------------------
(* Properties.                                                              *)

(* Every variable stays in its domain.                                      *)
TypeOK ==
    /\ now \in Nat /\ expiry \in Nat /\ began \in Nat
    /\ call \in [Calls -> {"new", "waiting", "got", "failed", "gave_up"}]
    /\ at \in [Calls -> Nat] /\ result \in [Calls -> Nat]
    /\ worker \in [Calls -> {"off", "queued", "exchanging", "sending", "done"}]

(* A token handed to a request does not expire before the request's         *)
(* deadline, also when it was reused from the cache after waiting for the   *)
(* mutex.                                                                   *)
TokenOutlastsRequest ==
    \A c \in Calls : call[c] = "got" => at[c] + CallTimeout <= result[c]

(* Calls that waited for an exchange use its token: nobody exchanges while  *)
(* there is a valid one, however many queued for the mutex when there was   *)
(* none, and even if the call that made the exchange had given up.          *)
NoNeedlessExchange == Exchanging # {} => ~Valid(expiry)

(* How long goroutines stay behind: exchanges that hang do so one after     *)
(* another, so one goroutine can remain for as many fetch timeouts as there *)
(* are calls, and no longer.                                                *)
Behind(c) == worker[c] \in {"queued", "exchanging"}
DrainIsBounded ==
    \A c \in Calls : Behind(c) => now - at[c] <= Cardinality(Calls) * FetchTimeout

(* No goroutine stays behind for ever, also when its call has given up and  *)
(* nobody reads the channel.                                                *)
WorkersEnd == \A c \in Calls : worker[c] = "queued" ~> worker[c] = "done"
=============================================================================
