------------------------- MODULE TokenProviderProofs -------------------------
(***************************************************************************)
(* Proofs about TokenProvider, for any calls and durations: what a call    *)
(* gets outlasts its request, no exchange is made that need not be, and    *)
(* hanging exchanges keep a goroutine no longer than one after another.    *)
(***************************************************************************)
EXTENDS TokenProvider, FiniteSetTheorems, TLAPS

-----------------------------------------------------------------------------
(* The inductive invariant.                                                 *)

(* A call that has not begun has no goroutine, and no call began later than *)
(* now.                                                                     *)
BeginsOnce ==
    \A c \in Calls :
        /\ at[c] <= now
        /\ call[c] = "new" => worker[c] = "off" /\ result[c] = 0

(* Every token handed over, also to a call that has gone, outlasts the      *)
(* request the call was made for.                                           *)
ResultOutlasts == \A c \in Calls : result[c] # 0 => at[c] + CallTimeout <= result[c]

(* A call that got a token got one that exists.                             *)
GotIsToken == \A c \in Calls : call[c] = "got" => result[c] # 0 /\ worker[c] = "done"

(* The mutex.                                                               *)
OneExchange == \A c, d \in Exchanging : c = d

IInv ==
    /\ TypeOK
    /\ BeginsOnce
    /\ ResultOutlasts
    /\ GotIsToken
    /\ OneExchange
    /\ NoNeedlessExchange

-----------------------------------------------------------------------------

(* The initial states satisfy the invariant.                                *)
LEMMA InitInv == Init => IInv
  BY DEF Init, IInv, TypeOK, BeginsOnce, ResultOutlasts, GotIsToken, OneExchange,
         NoNeedlessExchange, Exchanging

(* A token that is no longer valid does not become so with time.            *)
LEMMA ValidityEnds ==
    ASSUME now \in Nat, expiry \in Nat, now' = now + 1, expiry' = expiry, ~Valid(expiry)
    PROVE  ~Valid(expiry)'
  BY DurationAssumption DEF Valid

(* Steps that leave the goroutines' tokens alone.                           *)
LEMMA CallerKeeps ==
    ASSUME IInv, NEW c \in Calls, Token(c) \/ Receive(c) \/ GiveUp(c) \/ SendResult(c)
    PROVE  IInv'
<1>. USE DEF IInv
<1>1. Exchanging' = Exchanging /\ UNCHANGED <<now, expiry, result>>
  BY DEF TypeOK, BeginsOnce, Exchanging, Token, Receive, GiveUp, SendResult
<1>2. TypeOK'
  BY DEF TypeOK, Token, Receive, GiveUp, SendResult
<1>3. BeginsOnce'
  BY DEF TypeOK, BeginsOnce, Token, Receive, GiveUp, SendResult
<1>4. ResultOutlasts'
  BY <1>1 DEF TypeOK, BeginsOnce, ResultOutlasts, Token, Receive, GiveUp, SendResult
<1>5. OneExchange' /\ NoNeedlessExchange'
  BY <1>1 DEF OneExchange, NoNeedlessExchange, Valid
<1>6. GotIsToken'
  BY DEF TypeOK, BeginsOnce, GotIsToken, Token, Receive, GiveUp, SendResult
<1>. QED  BY <1>2, <1>3, <1>4, <1>5, <1>6

(* Whoever gets the mutex reuses a valid token or begins an exchange.       *)
LEMMA LockKeeps ==
    ASSUME IInv, NEW c \in Calls, Lock(c)
    PROVE  IInv'
<1>. USE DEF IInv
<1>1. Exchanging = {} /\ worker[c] = "queued" /\ UNCHANGED <<now, expiry, call, at>>
  BY DEF Lock, MutexFree
<1>2. call[c] # "new"
  BY <1>1 DEF BeginsOnce
<1>3. CASE Reuse(c)
  <2>1. Exchanging' = {}
    BY <1>1, <1>3 DEF Reuse, Exchanging, TypeOK
  <2>2. TypeOK'
    BY <1>1, <1>3 DEF Reuse, TypeOK
  <2>3. BeginsOnce' /\ GotIsToken'
    BY <1>1, <1>2, <1>3 DEF Reuse, TypeOK, BeginsOnce, GotIsToken
  <2>4. at[c] + CallTimeout <= expiry
    BY <1>3, DurationAssumption DEF Reuse, Valid, TypeOK, BeginsOnce
  <2>5. ResultOutlasts'
    BY <1>1, <1>3, <2>4 DEF Reuse, TypeOK, ResultOutlasts
  <2>. QED  BY <2>1, <2>2, <2>3, <2>5 DEF OneExchange, NoNeedlessExchange
<1>4. CASE ~Valid(expiry) /\ BeginExchange(c)
  <2>1. Exchanging' = {c}
    BY <1>1, <1>4 DEF BeginExchange, Exchanging, TypeOK
  <2>2. TypeOK'
    BY <1>1, <1>4 DEF BeginExchange, TypeOK
  <2>3. BeginsOnce' /\ ResultOutlasts' /\ GotIsToken'
    BY <1>1, <1>2, <1>4 DEF BeginExchange, TypeOK, BeginsOnce, ResultOutlasts, GotIsToken
  <2>4. NoNeedlessExchange'
    BY <1>1, <1>4 DEF NoNeedlessExchange, Valid
  <2>. QED  BY <2>1, <2>2, <2>3, <2>4 DEF OneExchange
<1>. QED  BY <1>3, <1>4 DEF Lock

(* An exchange ends, and with it the only one there was.                    *)
LEMMA ExchangeKeeps ==
    ASSUME IInv, NEW c \in Calls, ExchangeSucceeds(c) \/ ExchangeFails(c)
    PROVE  IInv'
<1>. USE DEF IInv
<1>1. worker[c] = "exchanging" /\ worker' = [worker EXCEPT ![c] = "sending"]
      /\ UNCHANGED <<now, call, at>>
  BY DEF ExchangeSucceeds, ExchangeFails
<1>2. Exchanging' = {}
  BY <1>1 DEF Exchanging, TypeOK, OneExchange
<1>3. call[c] # "new"
  BY <1>1 DEF BeginsOnce
<1>4. CASE ExchangeFails(c)
  <2>1. TypeOK'
    BY <1>4 DEF ExchangeFails, TypeOK
  <2>2. BeginsOnce' /\ ResultOutlasts' /\ GotIsToken'
    BY <1>1, <1>3, <1>4 DEF ExchangeFails, TypeOK, BeginsOnce, ResultOutlasts, GotIsToken
  <2>. QED  BY <1>2, <2>1, <2>2 DEF OneExchange, NoNeedlessExchange
<1>5. CASE ExchangeSucceeds(c)
  <2>1. now + TokenLife \in Nat /\ result' = [result EXCEPT ![c] = now + TokenLife]
    BY <1>5, DurationAssumption DEF ExchangeSucceeds, TypeOK
  <2>2. TypeOK'
    BY <1>5, <2>1 DEF ExchangeSucceeds, TypeOK
  <2>3. BeginsOnce' /\ GotIsToken'
    BY <1>1, <1>3, <2>1 DEF TypeOK, BeginsOnce, GotIsToken
  <2>4. at[c] + CallTimeout <= now + TokenLife
    BY DurationAssumption DEF TypeOK, BeginsOnce
  <2>5. ResultOutlasts'
    BY <1>1, <2>1, <2>4 DEF TypeOK, ResultOutlasts
  <2>. QED  BY <1>2, <2>2, <2>3, <2>5 DEF OneExchange, NoNeedlessExchange
<1>. QED  BY <1>4, <1>5

(* Time passes.                                                             *)
LEMMA TickKeeps == ASSUME IInv, Tick PROVE IInv'
<1>. USE DEF IInv
<1>1. now' = now + 1 /\ UNCHANGED <<expiry, call, at, worker, began, result>>
  BY DEF Tick
<1>2. TypeOK' /\ BeginsOnce' /\ ResultOutlasts' /\ GotIsToken'
  BY <1>1 DEF TypeOK, BeginsOnce, ResultOutlasts, GotIsToken
<1>3. Exchanging' = Exchanging
  BY <1>1 DEF Exchanging
<1>4. NoNeedlessExchange'
  BY <1>1, <1>3, ValidityEnds DEF NoNeedlessExchange, TypeOK
<1>. QED  BY <1>2, <1>3, <1>4 DEF OneExchange

(* Every step keeps the invariant.                                          *)
LEMMA NextInv == IInv /\ [Next]_vars => IInv'
<1>. SUFFICES ASSUME IInv, [Next]_vars PROVE IInv'
  OBVIOUS
<1>1. CASE UNCHANGED vars
  BY <1>1 DEF vars, IInv, TypeOK, BeginsOnce, ResultOutlasts, GotIsToken, OneExchange,
              NoNeedlessExchange, Exchanging, Valid
<1>2. CASE Next
  BY <1>2, CallerKeeps, LockKeeps, ExchangeKeeps, TickKeeps DEF Next, Worker
<1>. QED  BY <1>1, <1>2

(* Every reachable state satisfies the invariant.                           *)
THEOREM Invariance == Spec => []IInv
  BY InitInv, NextInv, PTL DEF Spec

-----------------------------------------------------------------------------

(* A token handed to a request does not expire before the request ends.     *)
THEOREM OutlastsRequest == Spec => []TokenOutlastsRequest
<1>1. IInv => TokenOutlastsRequest
  BY DEF IInv, ResultOutlasts, GotIsToken, TokenOutlastsRequest
<1>. QED  BY <1>1, Invariance, PTL

(* Nobody exchanges while there is a valid token.                           *)
THEOREM NothingNeedless == Spec => []NoNeedlessExchange
<1>1. IInv => NoNeedlessExchange
  BY DEF IInv
<1>. QED  BY <1>1, Invariance, PTL

-----------------------------------------------------------------------------
(* How long goroutines stay behind.                                         *)

(* The goroutines that need the mutex no more.                              *)
Through == {c \in Calls : worker[c] \in {"sending", "done"}}

(* Time passes for a waiting goroutine only while some exchange lasts, and  *)
(* every exchange that ended has let one goroutine through: so a goroutine  *)
(* has waited at most a fetch timeout for each of those and the time of     *)
(* the exchange in progress.                                                *)
Elapsed == IF Exchanging # {} THEN now - began ELSE 0

ExchangeInTime == Exchanging # {} => began <= now /\ now <= began + FetchTimeout

WaitedFor(c) == now - at[c] <= Cardinality(Through) * FetchTimeout + Elapsed

DrainInv == IInv /\ ExchangeInTime /\ \A c \in Calls : Behind(c) => WaitedFor(c)

LEMMA ThroughFinite ==
    /\ Through \subseteq Calls /\ IsFiniteSet(Through) /\ Cardinality(Through) \in Nat
    /\ Cardinality(Calls) \in Nat
<1>1. Through \subseteq Calls
  BY DEF Through
<1>. QED  BY <1>1, CallsAssumption, FS_Subset, FS_CardinalityType

(* One goroutine more is through: one fetch timeout more.                   *)
LEMMA OneMoreThrough ==
    ASSUME NEW c \in Calls, c \notin Through, Through' = Through \cup {c}
    PROVE  /\ Cardinality(Through)' = Cardinality(Through) + 1
           /\ Cardinality(Through)' * FetchTimeout =
                Cardinality(Through) * FetchTimeout + FetchTimeout
<1>1. Cardinality(Through)' = Cardinality(Through) + 1
  BY ThroughFinite, FS_AddElement
<1>2. \A n \in Nat : (n + 1) * FetchTimeout = n * FetchTimeout + FetchTimeout
  BY DurationAssumption
<1>. QED  BY <1>1, <1>2, ThroughFinite

LEMMA DrainTypes ==
    ASSUME DrainInv
    PROVE  /\ now \in Nat /\ began \in Nat /\ FetchTimeout \in Nat
           /\ \A c \in Calls : at[c] \in Nat
           /\ Cardinality(Through) * FetchTimeout \in Nat
           /\ Elapsed \in Nat /\ Elapsed <= FetchTimeout
<1>1. now \in Nat /\ began \in Nat /\ FetchTimeout \in Nat /\ \A c \in Calls : at[c] \in Nat
  BY DurationAssumption DEF DrainInv, IInv, TypeOK
<1>2. \A n \in Nat : n * FetchTimeout \in Nat
  BY <1>1
<1>3. Elapsed \in Nat /\ Elapsed <= FetchTimeout
  BY <1>1 DEF DrainInv, ExchangeInTime, Elapsed
<1>. QED  BY <1>1, <1>2, <1>3, ThroughFinite

LEMMA DrainInit == Init => DrainInv
<1>1. Init => ExchangeInTime /\ \A c \in Calls : ~Behind(c)
  BY DEF Init, ExchangeInTime, Exchanging, Behind
<1>. QED  BY <1>1, InitInv DEF DrainInv

(* A call begins, or a step that leaves the mutex and its queue alone.      *)
LEMMA CallerDrains ==
    ASSUME DrainInv, NEW c \in Calls, Token(c) \/ Receive(c) \/ GiveUp(c) \/ SendResult(c)
    PROVE  ExchangeInTime' /\ \A d \in Calls : Behind(d)' => WaitedFor(d)'
<1>1. /\ Exchanging' = Exchanging /\ Through' = Through /\ UNCHANGED <<now, began>>
      /\ \A d \in Calls :
            Behind(d)' => (Behind(d) /\ at'[d] = at[d]) \/ at'[d] = now
  BY DEF DrainInv, IInv, TypeOK, BeginsOnce, Exchanging, Through, Behind,
         Token, Receive, GiveUp, SendResult
<1>2. Elapsed' = Elapsed
  BY <1>1 DEF Elapsed
<1>3. ASSUME NEW d \in Calls, Behind(d)' PROVE WaitedFor(d)'
  <2>1. CASE Behind(d) /\ at'[d] = at[d]
    BY <1>1, <1>2, <2>1 DEF DrainInv, WaitedFor
  <2>2. CASE at'[d] = now
    BY <1>1, <1>2, <2>2, DrainTypes DEF WaitedFor
  <2>. QED  BY <1>1, <1>3, <2>1, <2>2
<1>. QED  BY <1>1, <1>3 DEF DrainInv, ExchangeInTime

LEMMA LockDrains ==
    ASSUME DrainInv, NEW c \in Calls, Lock(c)
    PROVE  ExchangeInTime' /\ \A d \in Calls : Behind(d)' => WaitedFor(d)'
<1>1. /\ Exchanging = {} /\ worker[c] = "queued" /\ UNCHANGED <<now, at>>
      /\ c \notin Through /\ Elapsed = 0
  BY DEF Lock, MutexFree, Through, Elapsed
<1>2. CASE Reuse(c)
  <2>1. /\ Exchanging' = {} /\ Through' = Through \cup {c}
        /\ \A d \in Calls : Behind(d)' => Behind(d)
    BY <1>1, <1>2 DEF Reuse, Exchanging, Through, Behind, DrainInv, IInv, TypeOK
  <2>2. Elapsed' = 0
    BY <2>1 DEF Elapsed
  <2>3. ASSUME NEW d \in Calls, Behind(d)' PROVE WaitedFor(d)'
    <3>1. now - at[d] <= Cardinality(Through) * FetchTimeout + 0
      BY <1>1, <2>1, <2>3 DEF DrainInv, WaitedFor
    <3>2. Cardinality(Through)' * FetchTimeout =
            Cardinality(Through) * FetchTimeout + FetchTimeout
      BY <1>1, <2>1, OneMoreThrough
    <3>. QED  BY <1>1, <2>2, <3>1, <3>2, DrainTypes DEF WaitedFor
  <2>. QED  BY <2>1, <2>3 DEF ExchangeInTime
<1>3. CASE BeginExchange(c)
  <2>1. /\ Exchanging' # {} /\ Through' = Through /\ began' = now
        /\ \A d \in Calls : Behind(d)' => Behind(d)
    BY <1>1, <1>3 DEF BeginExchange, Exchanging, Through, Behind, DrainInv, IInv, TypeOK
  <2>2. Elapsed' = 0
    BY <1>1, <2>1, DrainTypes DEF Elapsed
  <2>3. ASSUME NEW d \in Calls, Behind(d)' PROVE WaitedFor(d)'
    BY <1>1, <2>1, <2>2, <2>3 DEF DrainInv, WaitedFor
  <2>. QED  BY <1>1, <2>1, <2>3, DrainTypes DEF ExchangeInTime
<1>. QED  BY <1>2, <1>3 DEF Lock

(* An exchange has lasted at most the fetch timeout, and lets its           *)
(* goroutine through.                                                       *)
LEMMA ExchangeDrains ==
    ASSUME DrainInv, NEW c \in Calls, ExchangeSucceeds(c) \/ ExchangeFails(c)
    PROVE  ExchangeInTime' /\ \A d \in Calls : Behind(d)' => WaitedFor(d)'
<1>1. /\ worker[c] = "exchanging" /\ worker' = [worker EXCEPT ![c] = "sending"]
      /\ UNCHANGED <<now, at>>
  BY DEF ExchangeSucceeds, ExchangeFails
<1>2. /\ Exchanging' = {} /\ c \notin Through /\ Through' = Through \cup {c}
      /\ \A d \in Calls : Behind(d)' => Behind(d)
  BY <1>1 DEF Exchanging, Through, Behind, DrainInv, IInv, TypeOK, OneExchange
<1>3. Elapsed' = 0
  BY <1>2 DEF Elapsed
<1>4. ASSUME NEW d \in Calls, Behind(d)' PROVE WaitedFor(d)'
  <2>1. now - at[d] <= Cardinality(Through) * FetchTimeout + Elapsed
    BY <1>2, <1>4 DEF DrainInv, WaitedFor
  <2>2. Cardinality(Through)' * FetchTimeout =
          Cardinality(Through) * FetchTimeout + FetchTimeout
    BY <1>2, OneMoreThrough
  <2>. QED  BY <1>1, <1>3, <2>1, <2>2, DrainTypes DEF WaitedFor
<1>. QED  BY <1>2, <1>4 DEF ExchangeInTime

(* Time passes: whoever waits then waits for the exchange in progress.      *)
LEMMA TickDrains ==
    ASSUME DrainInv, Tick
    PROVE  ExchangeInTime' /\ \A d \in Calls : Behind(d)' => WaitedFor(d)'
<1>1. now' = now + 1 /\ UNCHANGED <<at, worker, began>> /\ InTime
  BY DEF Tick
<1>2. /\ Exchanging' = Exchanging /\ Through' = Through
      /\ \A d \in Calls : Behind(d)' => Behind(d)
  BY <1>1 DEF Exchanging, Through, Behind
<1>3. ASSUME NEW d \in Calls, Behind(d)' PROVE WaitedFor(d)'
  <2>1. Exchanging # {}
    <3>1. CASE worker[d] = "queued"
      BY <3>1 DEF Tick, MutexFree
    <3>2. CASE worker[d] = "exchanging"
      BY <3>2 DEF Exchanging
    <3>. QED  BY <1>2, <1>3, <3>1, <3>2 DEF Behind
  <2>2. now - at[d] <= Cardinality(Through) * FetchTimeout + (now - began)
    BY <1>2, <1>3, <2>1 DEF DrainInv, WaitedFor, Elapsed
  <2>3. Elapsed' = now' - began
    BY <1>1, <1>2, <2>1 DEF Elapsed
  <2>. QED  BY <1>1, <1>2, <2>2, <2>3, DrainTypes DEF WaitedFor
<1>. QED  BY <1>1, <1>2, <1>3, DrainTypes DEF DrainInv, ExchangeInTime, InTime

LEMMA DrainNext == DrainInv /\ [Next]_vars => DrainInv'
<1>. SUFFICES ASSUME DrainInv, [Next]_vars
              PROVE  ExchangeInTime' /\ \A c \in Calls : Behind(c)' => WaitedFor(c)'
  BY NextInv DEF DrainInv
<1>1. CASE UNCHANGED vars
  BY <1>1 DEF vars, DrainInv, ExchangeInTime, Exchanging, Behind, WaitedFor, Through, Elapsed
<1>2. CASE Next
  BY <1>2, CallerDrains, LockDrains, ExchangeDrains, TickDrains DEF Next, Worker
<1>. QED  BY <1>1, <1>2

(* No goroutine stays behind longer than a fetch timeout for each call.     *)
THEOREM DrainBound == Spec => []DrainIsBounded
<1>1. DrainInv => DrainIsBounded
  <2>. SUFFICES ASSUME DrainInv, NEW c \in Calls, Behind(c)
                PROVE  now - at[c] <= Cardinality(Calls) * FetchTimeout
    BY DEF DrainIsBounded
  <2>1. c \notin Through
    BY DEF Behind, Through
  <2>2. /\ IsFiniteSet(Through \cup {c})
        /\ Cardinality(Through \cup {c}) = Cardinality(Through) + 1
    BY <2>1, ThroughFinite, FS_AddElement
  <2>3. Cardinality(Through) + 1 <= Cardinality(Calls)
    BY <2>2, ThroughFinite, CallsAssumption, FS_Subset
  <2>4. Cardinality(Through) * FetchTimeout + FetchTimeout
            <= Cardinality(Calls) * FetchTimeout
    <3>. DEFINE n == Cardinality(Through)
                m == Cardinality(Calls)
    <3>1. n \in Nat /\ m \in Nat /\ n + 1 <= m /\ FetchTimeout \in Nat
      BY <2>3, ThroughFinite, DurationAssumption
    <3>. HIDE DEF n, m
    <3>2. (m - n - 1) * FetchTimeout \in Nat
      BY <3>1
    <3>3. m * FetchTimeout = n * FetchTimeout + FetchTimeout + (m - n - 1) * FetchTimeout
      BY <3>1
    <3>4. n * FetchTimeout \in Nat /\ m * FetchTimeout \in Nat
      BY <3>1
    <3>5. n * FetchTimeout + FetchTimeout <= m * FetchTimeout
      BY <3>1, <3>2, <3>3, <3>4
    <3>. QED  BY <3>5 DEF n, m
  <2>5. now - at[c] <= Cardinality(Through) * FetchTimeout + Elapsed
    BY DEF DrainInv, WaitedFor
  <2>6. Cardinality(Calls) * FetchTimeout \in Nat
    <3>1. \A n \in Nat : n * FetchTimeout \in Nat
      BY DurationAssumption
    <3>. QED  BY <3>1, ThroughFinite
  <2>. QED  BY <2>4, <2>5, <2>6, DrainTypes
<1>2. Spec => []DrainInv
  BY DrainInit, DrainNext, PTL DEF Spec
<1>. QED  BY <1>1, <1>2, PTL
=============================================================================
