------------------------- MODULE NatsDispatchProofs -------------------------
(***************************************************************************)
(* Proofs about NatsDispatch, for any number of callers and replicas and   *)
(* all timeouts: how long a request can be in the service, that it is in   *)
(* one place there, and that the replicas implement RequestService.  The   *)
(* bound on a request depends on the ones before it; the invariant         *)
(* therefore says, for every position of a subscription, when the request  *)
(* there will begin at the latest.                                         *)
(***************************************************************************)
EXTENDS NatsDispatchRefinement, FiniteSetTheorems, TLAPS

H == HandlerTimeout

At(r, i) == caller[pending[r][i]]

(* Handling began at most `ahead' timeouts after the request was sent.     *)
BeganInTime(r) ==
    Busy(r) =>
        /\ begun[r] <= now /\ now <= begun[r] + H
        /\ caller[current[r]].state # "new"
        /\ begun[r] - caller[current[r]].sent <= caller[current[r]].ahead * H

(* The request at position i begins at the latest when i - 1 timeouts have *)
(* passed since now, or i since the callback began.                        *)
PositionInTime(r, i) ==
    /\ At(r, i).state # "new"
    /\ Busy(r)  => begun[r] - At(r, i).sent <= (At(r, i).ahead - i) * H
    /\ ~Busy(r) => now - At(r, i).sent <= (At(r, i).ahead - i + 1) * H

IInv ==
    /\ TypeOK
    /\ \A r \in Replicas : BeganInTime(r)
    /\ \A r \in Replicas : \A i \in 1..Len(pending[r]) : PositionInTime(r, i)

-----------------------------------------------------------------------------

(* n + 1 timeouts are n and one more.                                      *)
LEMMA OneMore == \A n \in Int : (n + 1) * H = n * H + H
BY TimeoutAssumption DEF H

(* More timeouts are not less time.                                        *)
LEMMA Monotone == ASSUME NEW m \in Int, NEW n \in Int, m <= n PROVE m * H <= n * H
<1>1. H \in Nat
  BY TimeoutAssumption DEF H
<1>2. (n - m) * H \in Nat
  BY <1>1
<1>3. n * H = m * H + (n - m) * H
  BY <1>1
<1> QED BY <1>1, <1>2, <1>3

LEMMA Initially == Init => IInv
BY TimeoutAssumption DEF Init, IInv, TypeOK, BeganInTime, PositionInTime, At, Busy, States

-----------------------------------------------------------------------------

(* What the type invariant says of one replica, of the positions of its    *)
(* subscription, and of one caller.                                        *)
LEMMA Typing ==
    ASSUME TypeOK, NEW r \in Replicas
    PROVE  /\ now \in Nat /\ begun[r] \in Nat
           /\ Busy(r) => current[r] \in Callers
BY DEF TypeOK, Busy

LEMMA Positions ==
    ASSUME TypeOK, NEW r \in Replicas
    PROVE  /\ pending[r] \in Seq(Callers) /\ Len(pending[r]) \in Nat
           /\ \A i \in 1..Len(pending[r]) : pending[r][i] \in Callers
<1>1. pending[r] \in Seq(Callers)
  BY DEF TypeOK
<1> QED BY <1>1

LEMMA CallerTyping ==
    ASSUME TypeOK, NEW c \in Callers
    PROVE  caller[c].sent \in Nat /\ caller[c].ahead \in Nat
<1>1. caller[c] \in [state : States, sent : Nat, ahead : Nat]
  BY DEF TypeOK
<1> QED BY <1>1

LEMMA SendKeeps ==
    ASSUME IInv, NEW c \in Callers, Send(c)
    PROVE  IInv'
<1>1. PICK q \in Replicas :
        /\ pending' = [pending EXCEPT ![q] = Append(@, c)]
        /\ caller' = [caller EXCEPT ![c] = [state |-> "waiting", sent |-> now,
                ahead |-> Len(pending[q]) + (IF Busy(q) THEN 1 ELSE 0)]]
  BY DEF Send
<1> DEFINE n == Len(pending[q]) + (IF Busy(q) THEN 1 ELSE 0)
           rec == [state |-> "waiting", sent |-> now, ahead |-> n]
<1>2. TypeOK /\ UNCHANGED <<now, current, begun, stopping>> /\ caller[c].state = "new"
  BY DEF IInv, Send
<1>3. n \in Nat /\ now \in Nat
  <2>1. Len(pending[q]) \in Nat /\ now \in Nat
    BY <1>2, Typing, Positions
  <2>2. n = Len(pending[q]) + 1 \/ n = Len(pending[q]) + 0
    BY Zenon
  <2> HIDE DEF n
  <2> QED BY <2>1, <2>2
<1>4. \A d \in Callers : caller'[d] = IF d = c THEN rec ELSE caller[d]
  BY <1>1, <1>2 DEF TypeOK
<1>5. \A r \in Replicas : pending'[r] = IF r = q THEN Append(pending[q], c) ELSE pending[r]
  BY <1>1, <1>2 DEF TypeOK
<1>6. TypeOK'
  <2>1. caller' \in [Callers -> [state : States, sent : Nat, ahead : Nat]]
    <3>1. rec \in [state : States, sent : Nat, ahead : Nat]
      BY <1>3 DEF States
    <3> HIDE DEF rec
    <3> QED BY <1>1, <1>2, <3>1 DEF TypeOK, rec
  <2>2. pending' \in [Replicas -> Seq(Callers)]
    BY <1>1, <1>2, Positions DEF TypeOK
  <2> QED BY <1>2, <2>1, <2>2 DEF TypeOK
<1>7. ASSUME NEW r \in Replicas
      PROVE  BeganInTime(r)'
  <2>1. Busy(r)' = Busy(r)
    BY <1>2 DEF Busy
  <2>2. Busy(r) => current[r] \in Callers /\ current[r] # c
    BY <1>2, Typing DEF IInv, BeganInTime
  <2> QED BY <2>1, <2>2, <1>2, <1>4 DEF IInv, BeganInTime
<1>8. ASSUME NEW r \in Replicas, NEW i \in 1..Len(pending'[r])
      PROVE  PositionInTime(r, i)'
  <2>1. Busy(r)' = Busy(r)
    BY <1>2 DEF Busy
  <2>2. CASE r = q /\ i = Len(pending[q]) + 1
    <3>1. pending'[r][i] = c
      <4>1. pending'[r] = Append(pending[q], c) /\ pending[q] \in Seq(Callers)
        BY <1>5, <2>2, <1>2, Positions
      <4> HIDE DEF rec, n
      <4> QED BY <4>1, <2>2
    <3>2. At(r, i)' = rec
      BY <3>1, <1>4 DEF At
    <3>3. rec.state = "waiting" /\ rec.sent = now /\ rec.ahead = n
      OBVIOUS
    <3>4. /\ Busy(r) => n - i = 0
          /\ ~Busy(r) => n - i + 1 = 0
      BY <2>2, <1>2, Positions
    <3>5. 0 * H = 0 /\ H \in Nat
      BY TimeoutAssumption DEF H
    <3>6. Busy(r) => begun[r] - now <= 0
      BY <1>2, Typing DEF IInv, BeganInTime
    <3> HIDE DEF rec, n
    <3> QED BY <2>1, <3>2, <3>3, <3>4, <3>5, <3>6, <1>2, <1>3 DEF PositionInTime
  <2>3. CASE ~(r = q /\ i = Len(pending[q]) + 1)
    <3>1. i \in 1..Len(pending[r]) /\ pending'[r][i] = pending[r][i]
      <4>1. pending[r] \in Seq(Callers) /\ i \in 1..Len(pending'[r])
        BY <1>2, <1>8, Positions
      <4> HIDE DEF rec, n
      <4>2. CASE r = q
        <5>1. pending'[r] = Append(pending[r], c) /\ i # Len(pending[r]) + 1
          BY <4>2, <1>5, <2>3
        <5> QED BY <4>1, <5>1
      <4>3. CASE r # q
        BY <4>1, <4>3, <1>5
      <4> QED BY <4>2, <4>3
    <3>2. PositionInTime(r, i) /\ pending[r][i] \in Callers
      BY <3>1, <1>2, Positions DEF IInv
    <3>3. At(r, i)' = At(r, i)
      BY <3>1, <3>2, <1>2, <1>4 DEF At, PositionInTime
    <3> QED BY <2>1, <3>2, <3>3, <1>2 DEF PositionInTime
  <2> QED BY <2>2, <2>3
<1> QED BY <1>6, <1>7, <1>8 DEF IInv

LEMMA GiveUpKeeps ==
    ASSUME IInv, NEW c \in Callers, GiveUp(c)
    PROVE  IInv'
<1>1. /\ UNCHANGED <<now, pending, current, begun, stopping>> /\ TypeOK
      /\ caller' = [caller EXCEPT ![c].state = "gave_up"]
  BY DEF GiveUp, IInv
<1>2. \A d \in Callers : /\ caller'[d].sent = caller[d].sent
                         /\ caller'[d].ahead = caller[d].ahead
                         /\ caller'[d].state \in {caller[d].state, "gave_up"}
  BY <1>1 DEF TypeOK
<1>3. TypeOK'
  BY <1>1 DEF TypeOK, States
<1>4. ASSUME NEW r \in Replicas PROVE BeganInTime(r)'
  BY <1>1, <1>2, Typing DEF IInv, BeganInTime, Busy
<1>5. ASSUME NEW r \in Replicas, NEW i \in 1..Len(pending'[r]) PROVE PositionInTime(r, i)'
  <2>1. pending[r][i] \in Callers /\ PositionInTime(r, i)
    BY <1>1, Positions DEF IInv
  <2> QED BY <2>1, <1>1, <1>2 DEF PositionInTime, At, Busy
<1> QED BY <1>3, <1>4, <1>5 DEF IInv

LEMMA DeliverKeeps ==
    ASSUME IInv, NEW q \in Replicas, Deliver(q)
    PROVE  IInv'
<1>1. /\ ~Busy(q) /\ pending[q] # <<>> /\ UNCHANGED <<now, caller, stopping>> /\ TypeOK
      /\ current' = [current EXCEPT ![q] = Head(pending[q])]
      /\ begun' = [begun EXCEPT ![q] = now]
      /\ pending' = [pending EXCEPT ![q] = Tail(@)]
  BY DEF Deliver, IInv
<1>2. /\ pending[q] \in Seq(Callers) /\ now \in Nat /\ Len(pending[q]) \in Nat \ {0}
      /\ Head(pending[q]) = pending[q][1] /\ pending[q][1] \in Callers
  <2>1. pending[q] \in Seq(Callers) /\ now \in Nat
    BY <1>1, Typing, Positions
  <2> QED BY <2>1, <1>1
<1>3. TypeOK'
  BY <1>1, <1>2 DEF TypeOK
<1>4. PositionInTime(q, 1)
  BY <1>2 DEF IInv
<1>5. ASSUME NEW r \in Replicas PROVE BeganInTime(r)'
  <2>1. CASE r = q
    <3>1. current'[q] = pending[q][1] /\ begun'[q] = now
      BY <1>1, <1>2 DEF TypeOK
    <3> DEFINE e == caller[pending[q][1]]
    <3>2. e.state # "new" /\ now - e.sent <= (e.ahead - 1 + 1) * H
      BY <1>1, <1>4 DEF PositionInTime, At
    <3>3. e.ahead \in Nat /\ e.sent \in Nat /\ H \in Nat /\ now \in Nat
      BY <1>1, <1>2, CallerTyping, TimeoutAssumption DEF H
    <3>4. e.ahead - 1 + 1 = e.ahead
      BY <3>3
    <3>5. now - e.sent <= e.ahead * H /\ now <= now /\ now <= now + H
      BY <3>2, <3>3, <3>4
    <3> QED BY <2>1, <3>1, <3>2, <3>5, <1>1 DEF BeganInTime
  <2>2. CASE r # q
    BY <2>2, <1>1 DEF IInv, BeganInTime, Busy, TypeOK
  <2> QED BY <2>1, <2>2
<1>6. ASSUME NEW r \in Replicas, NEW i \in 1..Len(pending'[r]) PROVE PositionInTime(r, i)'
  <2>1. CASE r = q
    <3>1. /\ i + 1 \in 1..Len(pending[q])
          /\ pending'[q][i] = pending[q][i + 1]
          /\ begun'[q] = now
      BY <2>1, <1>1, <1>2 DEF TypeOK
    <3> DEFINE e == caller[pending[q][i + 1]]
    <3>2. e.state # "new" /\ now - e.sent <= (e.ahead - (i + 1) + 1) * H
      BY <3>1, <1>1 DEF IInv, PositionInTime, At
    <3>3. e.ahead \in Nat /\ e.ahead - (i + 1) + 1 = e.ahead - i
      <4>1. pending[q][i + 1] \in Callers
        BY <3>1, <1>1, Positions
      <4>2. e.ahead \in Nat /\ i \in Int
        BY <4>1, <1>1, CallerTyping
      <4> HIDE DEF e
      <4> QED BY <4>2
    <3>4. Busy(q)'
      BY <1>1, <1>2, TimeoutAssumption DEF Busy, TypeOK
    <3> QED BY <2>1, <3>1, <3>2, <3>3, <3>4, <1>1 DEF PositionInTime, At
  <2>2. CASE r # q
    BY <2>2, <1>1 DEF IInv, PositionInTime, At, Busy, TypeOK
  <2> QED BY <2>1, <2>2
<1> QED BY <1>3, <1>5, <1>6 DEF IInv

(* A callback ends; what became of its caller does not matter.             *)
LEMMA DoneKeeps ==
    ASSUME IInv, NEW q \in Replicas, Busy(q), Done(q),
           caller' \in [Callers -> [state : States, sent : Nat, ahead : Nat]],
           \A d \in Callers : /\ caller'[d].sent = caller[d].sent
                              /\ caller'[d].ahead = caller[d].ahead
                              /\ caller'[d].state \in {caller[d].state, "answered", "timed_out"}
    PROVE  IInv'
<1>1. /\ UNCHANGED <<now, pending, stopping>> /\ TypeOK
      /\ current' = [current EXCEPT ![q] = Nobody]
      /\ begun' = [begun EXCEPT ![q] = 0]
  BY DEF Done, IInv
<1>2. TypeOK'
  BY <1>1 DEF TypeOK
<1>3. ASSUME NEW r \in Replicas PROVE BeganInTime(r)'
  <2>1. CASE r = q
    BY <2>1, <1>1 DEF BeganInTime, Busy, TypeOK
  <2>2. CASE r # q
    <3>1. Busy(r)' = Busy(r) /\ current'[r] = current[r] /\ begun'[r] = begun[r]
      BY <2>2, <1>1 DEF Busy, TypeOK
    <3> QED BY <3>1, <1>1, Typing DEF IInv, BeganInTime
  <2> QED BY <2>1, <2>2
<1>4. ASSUME NEW r \in Replicas, NEW i \in 1..Len(pending'[r]) PROVE PositionInTime(r, i)'
  <2>1. pending[r][i] \in Callers /\ PositionInTime(r, i)
    BY <1>1, Positions DEF IInv
  <2> DEFINE e == caller[pending[r][i]]
             f == caller'[pending[r][i]]
  <2>2. /\ f.state # "new" /\ f.sent = e.sent /\ f.ahead = e.ahead
        /\ e.sent \in Nat /\ e.ahead \in Nat
    BY <2>1, <1>1, CallerTyping DEF PositionInTime, At
  <2>3. CASE r = q
    <3>1. ~Busy(q)'
      BY <1>1 DEF Busy, TypeOK
    <3>2. begun[q] - e.sent <= (e.ahead - i) * H /\ now <= begun[q] + H
      BY <2>1, <2>3 DEF PositionInTime, At, IInv, BeganInTime
    <3>3. (e.ahead - i + 1) * H = (e.ahead - i) * H + H
      <4>1. e.ahead - i \in Int
        BY <2>2
      <4> HIDE DEF e, f
      <4> QED BY <4>1, OneMore
    <3>4. (e.ahead - i) * H \in Int /\ H \in Nat /\ now \in Nat /\ begun[q] \in Nat
      BY <2>2, <1>1, Typing, TimeoutAssumption DEF H
    <3>5. now - e.sent <= (e.ahead - i + 1) * H
      <4> DEFINE a == (e.ahead - i) * H
                 b == (e.ahead - i + 1) * H
                 s == e.sent
                 g == begun[q]
      <4>1. g - s <= a /\ now <= g + H /\ b = a + H /\ a \in Int /\ s \in Nat /\ g \in Nat
        BY <2>2, <3>2, <3>3, <3>4
      <4>2. H \in Nat /\ now \in Nat
        BY <3>4
      <4> HIDE DEF a, b, s, g
      <4>3. now - s <= b
        BY <4>1, <4>2
      <4> QED BY <4>3 DEF s, b
    <3> QED BY <2>2, <2>3, <3>1, <3>5, <1>1 DEF PositionInTime, At
  <2>4. CASE r # q
    <3>1. Busy(r)' = Busy(r) /\ begun'[r] = begun[r]
      BY <2>4, <1>1 DEF Busy, TypeOK
    <3> QED BY <2>1, <2>2, <3>1, <1>1 DEF PositionInTime, At
  <2> QED BY <2>3, <2>4
<1> QED BY <1>2, <1>3, <1>4 DEF IInv

LEMMA RespondKeeps ==
    ASSUME IInv, NEW q \in Replicas, Respond(q)
    PROVE  IInv'
<1>1. Busy(q) /\ Done(q) /\ TypeOK /\ current[q] \in Callers
  BY Typing DEF Respond, IInv
<1>4. PICK reply \in {"answered", "timed_out"} :
        caller' = [caller EXCEPT ![current[q]].state =
                        IF @ = "waiting" THEN reply ELSE @]
  BY DEF Respond, Replies
<1>2. \A d \in Callers : /\ caller'[d].sent = caller[d].sent
                         /\ caller'[d].ahead = caller[d].ahead
                         /\ caller'[d].state \in {caller[d].state, "answered", "timed_out"}
  BY <1>1, <1>4 DEF TypeOK
<1>3. caller' \in [Callers -> [state : States, sent : Nat, ahead : Nat]]
  BY <1>1, <1>4 DEF TypeOK, States
<1> QED BY <1>1, <1>2, <1>3, DoneKeeps

LEMMA NoResponseKeeps ==
    ASSUME IInv, NEW q \in Replicas, NoResponse(q)
    PROVE  IInv'
<1>1. Busy(q) /\ Done(q) /\ TypeOK /\ caller' = caller
  BY DEF NoResponse, IInv
<1> QED BY <1>1, DoneKeeps DEF TypeOK

(* Cancelling the root context changes nothing about when a request began. *)
LEMMA StopKeeps ==
    ASSUME IInv, NEW q \in Replicas, Stop(q)
    PROVE  IInv'
BY DEF Stop, IInv, TypeOK, BeganInTime, PositionInTime, At, Busy

LEMMA CrashKeeps ==
    ASSUME IInv, NEW q \in Replicas, Crash(q)
    PROVE  IInv'
<1>1. /\ UNCHANGED <<now, caller>> /\ TypeOK /\ stopping' \subseteq Replicas
      /\ pending' = [pending EXCEPT ![q] = <<>>]
      /\ current' = [current EXCEPT ![q] = Nobody]
      /\ begun' = [begun EXCEPT ![q] = 0]
  BY DEF Crash, IInv, TypeOK
<1>2. TypeOK'
  BY <1>1 DEF TypeOK
<1>3. pending'[q] = <<>> /\ ~Busy(q)'
  BY <1>1 DEF TypeOK, Busy
<1>4. ASSUME NEW r \in Replicas, r # q
      PROVE  pending'[r] = pending[r] /\ current'[r] = current[r] /\ begun'[r] = begun[r]
  BY <1>1, <1>4 DEF TypeOK
<1>5. ASSUME NEW r \in Replicas PROVE BeganInTime(r)'
  BY <1>1, <1>3, <1>4 DEF IInv, BeganInTime, Busy
<1>6. ASSUME NEW r \in Replicas, NEW i \in 1..Len(pending'[r]) PROVE PositionInTime(r, i)'
  BY <1>1, <1>3, <1>4 DEF IInv, PositionInTime, At, Busy
<1> QED BY <1>2, <1>5, <1>6 DEF IInv

LEMMA TickKeeps ==
    ASSUME IInv, Tick
    PROVE  IInv'
<1>1. /\ now' = now + 1 /\ TypeOK /\ UNCHANGED <<caller, pending, current, begun, stopping>>
      /\ \A r \in Replicas : InTime(r) /\ (Busy(r) \/ pending[r] = <<>>)
  BY DEF Tick, IInv
<1>2. TypeOK'
  BY <1>1 DEF TypeOK
<1>3. ASSUME NEW r \in Replicas PROVE BeganInTime(r)'
  BY <1>1, Typing, TimeoutAssumption DEF IInv, BeganInTime, Busy, InTime, ContextEnded, H
<1>4. ASSUME NEW r \in Replicas, NEW i \in 1..Len(pending'[r]) PROVE PositionInTime(r, i)'
  <2>1. Busy(r)
    BY <1>1
  <2> QED BY <2>1, <1>1 DEF IInv, PositionInTime, At, Busy
<1> QED BY <1>2, <1>3, <1>4 DEF IInv

LEMMA Inductive == IInv /\ [Next]_vars => IInv'
<1> SUFFICES ASSUME IInv, [Next]_vars PROVE IInv'
  OBVIOUS
<1>1. CASE UNCHANGED vars
  BY <1>1 DEF vars, IInv, TypeOK, BeganInTime, PositionInTime, At, Busy
<1>2. CASE Next
  BY <1>2, SendKeeps, GiveUpKeeps, DeliverKeeps, RespondKeeps, NoResponseKeeps,
     StopKeeps, CrashKeeps, TickKeeps DEF Next
<1> QED BY <1>1, <1>2

(* Every reachable state satisfies the invariant.                          *)
THEOREM Invariant == Spec => []IInv
BY Initially, Inductive, PTL DEF Spec

-----------------------------------------------------------------------------

(* Every variable of the dispatch model stays in its domain.               *)
THEOREM TypeCorrect == Spec => []TypeOK
<1>1. IInv => TypeOK
  BY DEF IInv
<1> QED BY Invariant, <1>1, PTL

LEMMA Bounded == IInv => DelayIsBounded
<1> SUFFICES ASSUME IInv, NEW c \in Callers, Queued(c) \/ Handled(c)
             PROVE  now - caller[c].sent <= (caller[c].ahead + 1) * H
  BY DEF DelayIsBounded, H
<1> DEFINE e == caller[c]
<1>1. /\ TypeOK /\ e.sent \in Nat /\ e.ahead \in Nat /\ now \in Nat /\ H \in Nat
      /\ (e.ahead + 1) * H = e.ahead * H + H
      /\ e.ahead * H \in Int
  BY OneMore, TimeoutAssumption DEF IInv, TypeOK, H
<1>2. CASE Handled(c)
  <2>1. PICK r \in Replicas : current[r] = c
    BY <1>2 DEF Handled
  <2>2. /\ begun[r] \in Nat /\ now <= begun[r] + H
        /\ begun[r] - e.sent <= e.ahead * H
    BY <2>1, <1>1, Typing, TimeoutAssumption DEF IInv, BeganInTime, Busy
  <2> QED BY <1>1, <2>2
<1>3. CASE Queued(c)
  <2>1. PICK r \in Replicas : c \in Range(pending[r])
    BY <1>3 DEF Queued
  <2>2. PICK i \in 1..Len(pending[r]) : pending[r][i] = c
    <3>1. pending[r] \in Seq(Callers)
      BY <1>1, Positions
    <3> QED BY <2>1, <3>1 DEF Range
  <2>3. /\ begun[r] \in Nat
        /\ Busy(r) => now <= begun[r] + H /\ begun[r] - e.sent <= (e.ahead - i) * H
        /\ ~Busy(r) => now - e.sent <= (e.ahead - i + 1) * H
    BY <2>2, <1>1, Typing DEF IInv, PositionInTime, At, BeganInTime
  <2> DEFINE s == e.sent
             a == e.ahead * H
             b == (e.ahead + 1) * H
             x == (e.ahead - i) * H
             y == (e.ahead - i + 1) * H
             g == begun[r]
  <2>4. x <= a /\ y <= b
    <3>1. /\ e.ahead - i \in Int /\ e.ahead - i + 1 \in Int /\ e.ahead \in Int
          /\ e.ahead + 1 \in Int /\ e.ahead - i <= e.ahead
          /\ e.ahead - i + 1 <= e.ahead + 1
      <4>1. i \in Nat /\ e.ahead \in Nat
        BY <1>1, Positions
      <4> HIDE DEF e
      <4> QED BY <4>1
    <3> HIDE DEF e
    <3> QED BY <3>1, Monotone
  <2>5. x \in Int /\ y \in Int /\ a \in Int /\ b = a + H /\ s \in Nat /\ g \in Nat
        /\ H \in Nat /\ now \in Nat
    <3>1. s \in Nat /\ g \in Nat /\ H \in Nat /\ now \in Nat /\ a \in Int /\ b = a + H
      BY <1>1, <2>3
    <3>2. e.ahead \in Int /\ i \in Int /\ H \in Int
      BY <1>1, Positions
    <3>3. e.ahead - i \in Int /\ e.ahead - i + 1 \in Int
      <4> HIDE DEF e
      <4> QED BY <3>2
    <3>4. \A m \in Int : m * H \in Int
      BY <3>2
    <3>5. x \in Int /\ y \in Int
      <4> HIDE DEF e
      <4> QED BY <3>3, <3>4
    <3> QED BY <3>1, <3>5
  <2>6. /\ Busy(r) => now <= g + H /\ g - s <= x
        /\ ~Busy(r) => now - s <= y
    BY <2>3
  <2> HIDE DEF s, a, b, x, y, g, e
  <2>7. now - s <= b
    BY <2>4, <2>5, <2>6
  <2> QED BY <2>7 DEF s, b, e
<1> QED BY <1>2, <1>3

(* A request is in the service for at most one handler timeout per request *)
(* it found ahead of it, and one for itself.                               *)
THEOREM DelayBound == Spec => []DelayIsBounded
BY Invariant, Bounded, PTL

-----------------------------------------------------------------------------
(* One place.                                                              *)

(* A message at the end, a message from the front.                         *)
LEMMA Appended ==
    ASSUME NEW s \in Seq(Callers), NEW c \in Callers
    PROVE  /\ Range(Append(s, c)) = Range(s) \cup {c}
           /\ IsInjective(s) /\ c \notin Range(s) => IsInjective(Append(s, c))
<1> DEFINE t == Append(s, c)
<1>1. /\ DOMAIN s = 1..Len(s) /\ DOMAIN t = 1..(Len(s) + 1) /\ Len(s) \in Nat
      /\ t[Len(s) + 1] = c
      /\ \A i \in 1..Len(s) : t[i] = s[i]
  OBVIOUS
<1> HIDE DEF t
<1>2. Range(t) = Range(s) \cup {c}
  <2>1. \A x : x \in Range(t) <=> x \in Range(s) \/ x = c
    BY <1>1 DEF Range
  <2> QED BY <2>1
<1>3. IsInjective(s) /\ c \notin Range(s) => IsInjective(t)
  BY <1>1 DEF IsInjective, Range
<1> QED BY <1>2, <1>3 DEF t

LEMMA TakenOff ==
    ASSUME NEW s \in Seq(Callers), s # <<>>, IsInjective(s)
    PROVE  /\ Head(s) \in Range(s)
           /\ Range(Tail(s)) = Range(s) \ {Head(s)}
           /\ IsInjective(Tail(s))
<1> DEFINE t == Tail(s)
<1>1. /\ DOMAIN s = 1..Len(s) /\ Len(s) \in Nat \ {0} /\ DOMAIN t = 1..(Len(s) - 1)
      /\ Head(s) = s[1]
      /\ \A i \in 1..(Len(s) - 1) : t[i] = s[i + 1]
  OBVIOUS
<1> HIDE DEF t
<1>2. \A x : x \in Range(t) <=> x \in Range(s) /\ x # s[1]
  <2>1. ASSUME NEW x \in Range(t) PROVE x \in Range(s) /\ x # s[1]
    BY <1>1, <2>1 DEF Range, IsInjective
  <2>2. ASSUME NEW x \in Range(s), x # s[1] PROVE x \in Range(t)
    <3>1. PICK i \in 1..Len(s) : x = s[i] /\ i # 1
      BY <1>1, <2>2 DEF Range
    <3>2. i - 1 \in 1..(Len(s) - 1) /\ t[i - 1] = x
      BY <1>1, <3>1
    <3> QED BY <3>2, <1>1 DEF Range
  <2> QED BY <2>1, <2>2
<1>3. IsInjective(t)
  BY <1>1 DEF IsInjective
<1>4. Head(s) \in Range(s)
  BY <1>1 DEF Range
<1> QED BY <1>1, <1>2, <1>3, <1>4 DEF t

LEMMA NobodyWaits == ASSUME TypeOK, NEW r \in Replicas PROVE Nobody \notin Range(pending[r])
<1>1. pending[r] \in Seq(Callers)
  BY DEF TypeOK
<1> QED BY <1>1, TimeoutAssumption DEF Range

(* What OnePlace says of two replicas and of one request.                  *)
LEMMA Apart ==
    ASSUME OnePlace, NEW r \in Replicas, NEW s \in Replicas, r # s
    PROVE  /\ Range(pending[r]) \cap Range(pending[s]) = {}
           /\ current[r] \notin Range(pending[s])
           /\ current[s] \notin Range(pending[r])
           /\ current[r] = current[s] => current[r] = Nobody
BY DEF OnePlace, Busy

LEMMA Nowhere ==
    ASSUME OnePlace, NEW c \in Callers, caller[c].state \in {"new", "answered", "timed_out"}
    PROVE  ~Queued(c) /\ ~Handled(c)
BY DEF OnePlace

(* A request that was somewhere and is at no other place afterwards, when  *)
(* only those at nowhere have become answered.                             *)
LEMMA PlacesKept ==
    ASSUME OnePlace,
           \A d \in Callers : (Queued(d) \/ Handled(d))' =>
                \/ caller'[d].state \in {"waiting", "gave_up"}
                \/ (Queued(d) \/ Handled(d)) /\ caller'[d].state = caller[d].state,
           \A r \in Replicas :
                IsInjective(pending[r])' /\ current'[r] \notin Range(pending[r])',
           \A r, s \in Replicas : r # s =>
                /\ Range(pending[r])' \cap Range(pending[s])' = {}
                /\ current'[r] \notin Range(pending[s])'
                /\ current'[r] = current'[s] => current'[r] = Nobody
    PROVE  OnePlace'
<1>1. ASSUME NEW d \in Callers, caller'[d].state \in {"new", "answered", "timed_out"}
      PROVE  ~Queued(d)' /\ ~Handled(d)'
  <2>1. ASSUME (Queued(d) \/ Handled(d))' PROVE FALSE
    <3>1. (Queued(d) \/ Handled(d)) /\ caller'[d].state = caller[d].state
      BY <1>1, <2>1
    <3> QED BY <3>1, <1>1, Nowhere
  <2> QED BY <2>1
<1> QED BY <1>1 DEF OnePlace, Busy

(* A request that is somewhere has been sent, and who has given up has     *)
(* waited for the caller's timeout.                                        *)
GaveUpLate ==
    \A c \in Callers : caller[c].state = "gave_up" => now >= caller[c].sent + CallerTimeout

PlaceInv == TypeOK /\ OnePlace /\ GaveUpLate

LEMMA LateKept ==
    ASSUME PlaceInv, UNCHANGED now,
           \A d \in Callers : caller'[d].state = "gave_up" =>
                /\ caller'[d].sent = caller[d].sent
                /\ caller[d].state = "gave_up" \/ now >= caller[d].sent + CallerTimeout
    PROVE  GaveUpLate'
<1> SUFFICES ASSUME NEW d \in Callers, caller'[d].state = "gave_up"
             PROVE  now' >= caller'[d].sent + CallerTimeout
  BY DEF GaveUpLate
<1>1. now >= caller[d].sent + CallerTimeout
  BY DEF PlaceInv, GaveUpLate
<1> QED BY <1>1

LEMMA PlaceInit == Init => PlaceInv
<1> SUFFICES ASSUME Init PROVE PlaceInv
  OBVIOUS
<1>1. TypeOK
  BY Initially DEF IInv
<1>2. \A r \in Replicas : Range(pending[r]) = {} /\ IsInjective(pending[r]) /\ current[r] = Nobody
  BY DEF Init, Range, IsInjective
<1>3. OnePlace
  BY <1>2, TimeoutAssumption DEF OnePlace, Queued, Handled, Busy
<1>4. GaveUpLate
  BY DEF Init, GaveUpLate
<1> QED BY <1>1, <1>3, <1>4 DEF PlaceInv

LEMMA SendPlace ==
    ASSUME PlaceInv, TypeOK', NEW c \in Callers, Send(c)
    PROVE  PlaceInv'
<1>1. PICK q \in Replicas :
        /\ pending' = [pending EXCEPT ![q] = Append(@, c)]
        /\ caller' = [caller EXCEPT ![c] = [state |-> "waiting", sent |-> now,
                ahead |-> Len(pending[q]) + (IF Busy(q) THEN 1 ELSE 0)]]
  BY DEF Send
<1>2. /\ TypeOK /\ UNCHANGED <<now, current>> /\ caller[c].state = "new"
      /\ pending[q] \in Seq(Callers)
  BY DEF PlaceInv, Send, TypeOK
<1>3. /\ \A r \in Replicas : c \notin Range(pending[r]) /\ current[r] # c
      /\ \A d \in Callers : d # c => caller'[d] = caller[d]
      /\ caller'[c].state = "waiting"
  BY <1>1, <1>2 DEF PlaceInv, OnePlace, Queued, Handled, TypeOK
<1>4. \A r \in Replicas :
        /\ Range(pending'[r]) = Range(pending[r]) \cup (IF r = q THEN {c} ELSE {})
        /\ IsInjective(pending'[r])
  BY <1>1, <1>2, <1>3, Appended DEF PlaceInv, OnePlace, TypeOK
<1>5. OnePlace'
  <2>1. \A r \in Replicas : IsInjective(pending'[r]) /\ current'[r] \notin Range(pending'[r])
    BY <1>2, <1>3, <1>4 DEF PlaceInv, OnePlace
  <2>2. \A r, s \in Replicas : r # s =>
            /\ Range(pending'[r]) \cap Range(pending'[s]) = {}
            /\ current'[r] \notin Range(pending'[s])
            /\ current'[r] = current'[s] => current'[r] = Nobody
    <3> SUFFICES ASSUME NEW r \in Replicas, NEW s \in Replicas, r # s
                 PROVE  /\ Range(pending'[r]) \cap Range(pending'[s]) = {}
                        /\ current'[r] \notin Range(pending'[s])
                        /\ current'[r] = current'[s] => current'[r] = Nobody
      OBVIOUS
    <3>1. /\ Range(pending[r]) \cap Range(pending[s]) = {}
          /\ current[r] \notin Range(pending[s])
          /\ current[r] = current[s] => current[r] = Nobody
      BY Apart DEF PlaceInv
    <3>2. /\ c \notin Range(pending[r]) /\ c \notin Range(pending[s])
          /\ current[r] # c /\ current' = current
          /\ Range(pending'[r]) = Range(pending[r]) \cup (IF r = q THEN {c} ELSE {})
          /\ Range(pending'[s]) = Range(pending[s]) \cup (IF s = q THEN {c} ELSE {})
      BY <1>2, <1>3, <1>4
    <3> QED BY <3>1, <3>2
  <2>3. ASSUME NEW d \in Callers, (Queued(d) \/ Handled(d))'
        PROVE  \/ caller'[d].state \in {"waiting", "gave_up"}
               \/ (Queued(d) \/ Handled(d)) /\ caller'[d].state = caller[d].state
    <3>1. CASE d = c
      BY <3>1, <1>3
    <3>2. CASE d # c
      <4>1. Queued(d) \/ Handled(d)
        BY <2>3, <3>2, <1>2, <1>4 DEF Queued, Handled
      <4> QED BY <4>1, <3>2, <1>3
    <3> QED BY <3>1, <3>2
  <2> QED BY <2>1, <2>2, <2>3, PlacesKept DEF PlaceInv
<1>6. GaveUpLate'
  BY <1>2, <1>3, LateKept
<1> QED BY <1>5, <1>6 DEF PlaceInv

LEMMA GiveUpPlace ==
    ASSUME PlaceInv, TypeOK', NEW c \in Callers, GiveUp(c)
    PROVE  PlaceInv'
<1>1. /\ UNCHANGED <<now, pending, current>> /\ TypeOK
      /\ now >= caller[c].sent + CallerTimeout
      /\ \A d \in Callers : /\ caller'[d].sent = caller[d].sent
                            /\ d # c => caller'[d] = caller[d]
      /\ caller'[c].state = "gave_up"
  BY DEF GiveUp, PlaceInv, TypeOK
<1>2. OnePlace'
  <2>1. ASSUME NEW d \in Callers, (Queued(d) \/ Handled(d))'
        PROVE  \/ caller'[d].state \in {"waiting", "gave_up"}
               \/ (Queued(d) \/ Handled(d)) /\ caller'[d].state = caller[d].state
    <3>1. Queued(d) \/ Handled(d)
      BY <2>1, <1>1 DEF Queued, Handled
    <3>2. CASE d = c
      BY <3>2, <1>1
    <3>3. CASE d # c
      BY <3>1, <3>3, <1>1
    <3> QED BY <3>2, <3>3
  <2>2. \A r \in Replicas : IsInjective(pending'[r]) /\ current'[r] \notin Range(pending'[r])
    BY <1>1 DEF PlaceInv, OnePlace
  <2>3. \A r, s \in Replicas : r # s =>
            /\ Range(pending'[r]) \cap Range(pending'[s]) = {}
            /\ current'[r] \notin Range(pending'[s])
            /\ current'[r] = current'[s] => current'[r] = Nobody
    BY <1>1, Apart DEF PlaceInv
  <2> QED BY <2>1, <2>2, <2>3, PlacesKept DEF PlaceInv
<1>3. GaveUpLate'
  <2>1. ASSUME NEW d \in Callers, caller'[d].state = "gave_up"
        PROVE  /\ caller'[d].sent = caller[d].sent
               /\ caller[d].state = "gave_up" \/ now >= caller[d].sent + CallerTimeout
    <3>1. CASE d = c
      BY <3>1, <1>1
    <3>2. CASE d # c
      BY <2>1, <3>2, <1>1
    <3> QED BY <3>1, <3>2
  <2> QED BY <2>1, <1>1, LateKept
<1> QED BY <1>2, <1>3 DEF PlaceInv

LEMMA DeliverPlace ==
    ASSUME PlaceInv, TypeOK', NEW q \in Replicas, Deliver(q)
    PROVE  PlaceInv'
<1>1. /\ ~Busy(q) /\ pending[q] # <<>> /\ UNCHANGED <<now, caller>> /\ TypeOK
      /\ \A r \in Replicas : r # q => pending'[r] = pending[r] /\ current'[r] = current[r]
      /\ current'[q] = Head(pending[q]) /\ pending'[q] = Tail(pending[q])
      /\ pending[q] \in Seq(Callers)
  BY DEF Deliver, PlaceInv, TypeOK
<1>2. /\ Head(pending[q]) \in Range(pending[q])
      /\ Range(pending'[q]) = Range(pending[q]) \ {Head(pending[q])}
      /\ IsInjective(pending'[q])
  BY <1>1, TakenOff DEF PlaceInv, OnePlace
<1>3. \A r \in Replicas : Nobody \notin Range(pending[r])
  BY <1>1, NobodyWaits
<1>4. OnePlace'
  <2>1. \A r \in Replicas : IsInjective(pending'[r]) /\ current'[r] \notin Range(pending'[r])
    BY <1>1, <1>2 DEF PlaceInv, OnePlace
  <2>2. \A r, s \in Replicas : r # s =>
            /\ Range(pending'[r]) \cap Range(pending'[s]) = {}
            /\ current'[r] \notin Range(pending'[s])
            /\ current'[r] = current'[s] => current'[r] = Nobody
    BY <1>1, <1>2, <1>3 DEF PlaceInv, OnePlace, Busy
  <2>3. \A c \in Callers : Queued(c)' \/ Handled(c)' => Queued(c) \/ Handled(c)
    BY <1>1, <1>2 DEF Queued, Handled
  <2> QED BY <1>1, <2>1, <2>2, <2>3 DEF PlaceInv, OnePlace, Busy
<1>5. GaveUpLate'
  BY <1>1, LateKept
<1> QED BY <1>4, <1>5 DEF PlaceInv

(* A callback ends, with or without a response; its request is nowhere.    *)
LEMMA DonePlace ==
    ASSUME PlaceInv, TypeOK', NEW q \in Replicas, Busy(q), Done(q),
           NEW c, c = current[q],
           \A d \in Callers : /\ caller'[d].sent = caller[d].sent
                              /\ d # c => caller'[d] = caller[d]
                              /\ caller'[d].state = "gave_up" <=> caller[d].state = "gave_up"
    PROVE  PlaceInv' /\ ~Queued(c)' /\ ~Handled(c)'
<1>1. /\ UNCHANGED <<now, pending>> /\ TypeOK
      /\ \A r \in Replicas : r # q => current'[r] = current[r]
      /\ current'[q] = Nobody /\ c \in Callers
  BY DEF Done, PlaceInv, TypeOK, Busy
<1>2. Nobody \notin Callers /\ \A r \in Replicas : Nobody \notin Range(pending[r])
  BY <1>1, NobodyWaits, TimeoutAssumption
<1>3. ~Queued(c)' /\ ~Handled(c)'
  <2>1. \A r \in Replicas : c \notin Range(pending[r])
    BY Apart DEF PlaceInv, OnePlace
  <2>2. \A r \in Replicas : r # q => current[r] # c
    BY <1>1, <1>2, Apart DEF PlaceInv
  <2> QED BY <2>1, <2>2, <1>1, <1>2 DEF Queued, Handled
<1>4. OnePlace'
  <2>1. \A r \in Replicas : IsInjective(pending'[r]) /\ current'[r] \notin Range(pending'[r])
    BY <1>1, <1>2 DEF PlaceInv, OnePlace
  <2>2. \A r, s \in Replicas : r # s =>
            /\ Range(pending'[r]) \cap Range(pending'[s]) = {}
            /\ current'[r] \notin Range(pending'[s])
            /\ current'[r] = current'[s] => current'[r] = Nobody
    BY <1>1, <1>2, Apart DEF PlaceInv
  <2>3. ASSUME NEW d \in Callers, (Queued(d) \/ Handled(d))'
        PROVE  \/ caller'[d].state \in {"waiting", "gave_up"}
               \/ (Queued(d) \/ Handled(d)) /\ caller'[d].state = caller[d].state
    <3>1. Queued(d) \/ Handled(d)
      BY <2>3, <1>1, <1>2 DEF Queued, Handled
    <3>2. d # c
      BY <2>3, <1>3
    <3> QED BY <3>1, <3>2
  <2> QED BY <2>1, <2>2, <2>3, PlacesKept DEF PlaceInv
<1>5. GaveUpLate'
  BY <1>1, LateKept
<1> QED BY <1>3, <1>4, <1>5 DEF PlaceInv

LEMMA ResponsePlace ==
    ASSUME PlaceInv, TypeOK', NEW q \in Replicas, Respond(q) \/ NoResponse(q),
           NEW c, c = current[q]
    PROVE  /\ PlaceInv' /\ c \in Callers /\ ~Queued(c)' /\ ~Handled(c)'
           /\ \A d \in Callers : /\ caller'[d].sent = caller[d].sent
                                 /\ d # c => caller'[d] = caller[d]
                                 /\ caller'[d].state = "gave_up" <=> caller[d].state = "gave_up"
                                 /\ caller'[d].state = "new" <=> caller[d].state = "new"
<1>1. Busy(q) /\ Done(q) /\ TypeOK /\ c \in Callers
  BY Typing DEF Respond, NoResponse, PlaceInv
<1>2. CASE NoResponse(q)
  <2>1. caller' = caller
    BY <1>2 DEF NoResponse
  <2> QED BY <1>1, <2>1, DonePlace
<1>3. CASE Respond(q)
  <2>1. PICK reply \in {"answered", "timed_out"} :
          caller' = [caller EXCEPT ![current[q]].state =
                        IF @ = "waiting" THEN reply ELSE @]
    BY <1>3 DEF Respond, Replies
  <2>2. \A d \in Callers : /\ caller'[d].sent = caller[d].sent
                           /\ d # c => caller'[d] = caller[d]
                           /\ caller'[d].state = "gave_up" <=> caller[d].state = "gave_up"
                           /\ caller'[d].state = "new" <=> caller[d].state = "new"
    BY <1>1, <2>1 DEF TypeOK
  <2> QED BY <1>1, <2>2, DonePlace
<1> QED BY <1>2, <1>3

LEMMA CrashPlace ==
    ASSUME PlaceInv, TypeOK', NEW q \in Replicas, Crash(q)
    PROVE  PlaceInv'
<1>1. /\ UNCHANGED <<now, caller>> /\ TypeOK
      /\ \A r \in Replicas : r # q => pending'[r] = pending[r] /\ current'[r] = current[r]
      /\ current'[q] = Nobody /\ pending'[q] = <<>>
  BY DEF Crash, PlaceInv, TypeOK
<1>2. Range(pending'[q]) = {} /\ IsInjective(pending'[q])
  BY <1>1 DEF Range, IsInjective
<1>3. Nobody \notin Callers /\ \A r \in Replicas : Nobody \notin Range(pending[r])
  BY <1>1, NobodyWaits, TimeoutAssumption
<1>4. OnePlace'
  <2>1. \A r \in Replicas : IsInjective(pending'[r]) /\ current'[r] \notin Range(pending'[r])
    BY <1>1, <1>2 DEF PlaceInv, OnePlace
  <2>2. \A r, s \in Replicas : r # s =>
            /\ Range(pending'[r]) \cap Range(pending'[s]) = {}
            /\ current'[r] \notin Range(pending'[s])
            /\ current'[r] = current'[s] => ~Busy(r)'
    BY <1>1, <1>2, <1>3 DEF PlaceInv, OnePlace, Busy
  <2>3. \A c \in Callers : Queued(c)' \/ Handled(c)' => Queued(c) \/ Handled(c)
    BY <1>1, <1>2, <1>3 DEF Queued, Handled
  <2> QED BY <1>1, <2>1, <2>2, <2>3 DEF PlaceInv, OnePlace
<1>5. GaveUpLate'
  BY <1>1, LateKept
<1> QED BY <1>4, <1>5 DEF PlaceInv

(* Where requests are does not depend on the time or on who is stopping.   *)
LEMMA ElsePlace ==
    ASSUME PlaceInv, TypeOK', UNCHANGED <<caller, pending, current>>, now' \in {now, now + 1}
    PROVE  PlaceInv'
<1>1. OnePlace'
  BY DEF PlaceInv, OnePlace, Queued, Handled, Busy
<1>2. GaveUpLate'
  <2> SUFFICES ASSUME NEW c \in Callers, caller[c].state = "gave_up"
               PROVE  now' >= caller[c].sent + CallerTimeout
    BY DEF GaveUpLate
  <2>1. now >= caller[c].sent + CallerTimeout /\ now \in Nat /\ caller[c].sent \in Nat
    BY CallerTyping DEF PlaceInv, GaveUpLate, TypeOK
  <2> QED BY <2>1, TimeoutAssumption
<1> QED BY <1>1, <1>2 DEF PlaceInv

LEMMA PlaceNext == PlaceInv /\ TypeOK' /\ [Next]_vars => PlaceInv'
<1> SUFFICES ASSUME PlaceInv, TypeOK', [Next]_vars PROVE PlaceInv'
  OBVIOUS
<1>1. CASE UNCHANGED vars
  BY <1>1, ElsePlace DEF vars
<1>2. CASE \E c \in Callers : Send(c) \/ GiveUp(c)
  BY <1>2, SendPlace, GiveUpPlace
<1>3. CASE \E r \in Replicas : Deliver(r) \/ Respond(r) \/ NoResponse(r) \/ Crash(r)
  BY <1>3, DeliverPlace, ResponsePlace, CrashPlace
<1>4. CASE Tick \/ \E r \in Replicas : Stop(r)
  BY <1>4, ElsePlace DEF Tick, Stop
<1> QED BY <1>1, <1>2, <1>3, <1>4 DEF Next

(* The invariant of the places holds because the variables have their      *)
(* types.                                                                  *)
THEOREM PlaceInvariant == Spec => []PlaceInv
BY PlaceInit, PlaceNext, TypeCorrect, PTL DEF Spec

(* A request is with one replica only, waiting or being handled there, and *)
(* is never handled again.                                                 *)
THEOREM NeverTwice == Spec => []OnePlace
<1>1. PlaceInv => OnePlace
  BY DEF PlaceInv
<1> QED BY PlaceInvariant, <1>1, PTL

(* A request that found its replica idle is over before its caller gives   *)
(* up, because the handler's timeout is below the caller's.                *)
THEOREM IdleInTime == Spec => []IdleMeansInTime
<1>1. PlaceInv /\ DelayIsBounded => IdleMeansInTime
  <2> SUFFICES ASSUME PlaceInv, DelayIsBounded, NEW c \in Callers,
                      caller[c].ahead = 0, caller[c].state = "gave_up",
                      Queued(c) \/ Handled(c)
               PROVE  FALSE
    BY DEF IdleMeansInTime
  <2>1. /\ now - caller[c].sent <= (caller[c].ahead + 1) * HandlerTimeout
        /\ now >= caller[c].sent + CallerTimeout
        /\ caller[c].sent \in Nat /\ now \in Nat
    BY CallerTyping DEF PlaceInv, DelayIsBounded, GaveUpLate, TypeOK
  <2>2. (caller[c].ahead + 1) * HandlerTimeout = HandlerTimeout
    BY TimeoutAssumption
  <2> QED BY <2>1, <2>2, TimeoutAssumption
<1> QED BY PlaceInvariant, DelayBound, <1>1, PTL

-----------------------------------------------------------------------------
(* The replicas implement RequestService.                                  *)

Held(c) == Queued(c) \/ Handled(c)

(* A subscription holds as many requests as it is long.                    *)
LEMMA QueueSize ==
    ASSUME NEW s \in Seq(Callers), IsInjective(s)
    PROVE  IsFiniteSet(Range(s)) /\ Cardinality(Range(s)) = Len(s)
<1>1. DOMAIN s = 1..Len(s) /\ Len(s) \in Nat /\ s \in [1..Len(s) -> Range(s)]
  BY DEF Range
<1>2. s \in Bijection(1..Len(s), Range(s))
  <2>1. s \in Injection(1..Len(s), Range(s))
    BY <1>1 DEF Injection
  <2>2. s \in Surjection(1..Len(s), Range(s))
    BY <1>1 DEF Surjection, Range
  <2> QED BY <2>1, <2>2 DEF Bijection
<1>3. ExistsBijection(1..Len(s), Range(s))
  BY <1>2 DEF ExistsBijection
<1>4. IsFiniteSet(1..Len(s)) /\ Cardinality(1..Len(s)) = Len(s)
  <2>1. /\ IsFiniteSet(1..Len(s))
        /\ Cardinality(1..Len(s)) = IF 1 > Len(s) THEN 0 ELSE Len(s) - 1 + 1
    BY <1>1, FS_Interval
  <2> QED BY <2>1, <1>1
<1> QED BY <1>3, <1>4, FS_Bijection

(* What the mapping says of a request that has been sent.                  *)
LEMMA Mapped ==
    ASSUME OnePlace, NEW c \in Callers
    PROVE  /\ caller[c].state = "new" => RequestOf(c) = [state |-> "unsent", due |-> 0]
           /\ caller[c].state # "new" /\ Held(c) =>
                RequestOf(c) = [state |-> "held",
                    due |-> caller[c].sent + (caller[c].ahead + 1) * HandlerTimeout]
           /\ caller[c].state # "new" /\ ~Held(c) =>
                RequestOf(c) = [state |-> "settled", due |-> 0]
<1> DEFINE due == caller[c].sent + (caller[c].ahead + 1) * HandlerTimeout
           new == caller[c].state = "new"
           unsent == [state |-> "unsent", due |-> 0]
           held == [state |-> "held", due |-> due]
           settled == [state |-> "settled", due |-> 0]
<1>1. RequestOf(c) = CASE new -> unsent
                       [] Held(c) -> held
                       [] OTHER -> settled
  BY DEF RequestOf, Held
<1>3. new => ~Held(c)
  BY Nowhere DEF Held
<1> HIDE DEF due, new, unsent, held, settled
<1>2. /\ new => RequestOf(c) = unsent
      /\ ~new /\ Held(c) => RequestOf(c) = held
      /\ ~new /\ ~Held(c) => RequestOf(c) = settled
  BY <1>1, <1>3
<1> QED BY <1>2 DEF due, new, unsent, held, settled

LEMMA HeldIsHeld ==
    ASSUME OnePlace
    PROVE  Abstract!Held = {c \in Callers : Held(c)}
<1>1. ASSUME NEW c \in Callers PROVE RequestOf(c).state = "held" <=> Held(c)
  <2>1. Held(c) => caller[c].state # "new"
    BY Nowhere DEF Held
  <2>2. CASE caller[c].state = "new"
    BY <2>1, <2>2, Mapped
  <2>3. CASE caller[c].state # "new" /\ Held(c)
    BY <2>3, Mapped
  <2>4. CASE caller[c].state # "new" /\ ~Held(c)
    BY <2>4, Mapped
  <2> QED BY <2>2, <2>3, <2>4
<1> QED BY <1>1 DEF Abstract!Held

LEMMA SameRequest ==
    ASSUME NEW c \in Callers,
           /\ caller'[c].sent = caller[c].sent /\ caller'[c].ahead = caller[c].ahead
           /\ (caller'[c].state = "new") = (caller[c].state = "new")
           /\ Held(c)' = Held(c)
    PROVE  RequestOf(c)' = RequestOf(c)
BY DEF RequestOf, Held

LEMMA AllTheSame ==
    ASSUME UNCHANGED now, \A c \in Callers : RequestOf(c)' = RequestOf(c)
    PROVE  UNCHANGED Abstract!vars
BY DEF Abstract!vars

(* Held requests that go, and only those, are settled.                     *)
LEMMA SettleOrStutter ==
    ASSUME OnePlace, OnePlace', UNCHANGED now,
           \A c \in Callers :
                \/ RequestOf(c)' = RequestOf(c)
                \/ Held(c) /\ ~Held(c)' /\ caller'[c].state # "new"
    PROVE  Abstract!Settle \/ UNCHANGED Abstract!vars
<1> DEFINE C == {c \in Callers : RequestOf(c)' # RequestOf(c)}
<1>1. CASE C = {}
  BY <1>1, AllTheSame
<1>2. CASE C # {}
  <2>1. C \subseteq Abstract!Held
    BY HeldIsHeld
  <2>2. ASSUME NEW c \in Callers
        PROVE  RequestOf(c)' = IF c \in C THEN Abstract!Settled ELSE RequestOf(c)
    <3>1. CASE c \in C
      <4>1. ~Held(c)' /\ caller'[c].state # "new"
        BY <3>1
      <4>2. RequestOf(c)' = [state |-> "settled", due |-> 0]
        BY <4>1 DEF RequestOf, Held
      <4> QED BY <3>1, <4>2 DEF Abstract!Settled
    <3>2. CASE c \notin C
      BY <3>2
    <3> QED BY <3>1, <3>2
  <2>3. [c \in Callers |-> RequestOf(c)]' =
            [c \in Callers |-> IF c \in C THEN Abstract!Settled
                                          ELSE [d \in Callers |-> RequestOf(d)][c]]
    BY <2>2
  <2> HIDE DEF C
  <2> QED BY <1>2, <2>1, <2>3 DEF Abstract!Settle
<1> QED BY <1>1, <1>2

-----------------------------------------------------------------------------

LEMMA InitRefines == Init => Abstract!Init
<1> SUFFICES ASSUME Init PROVE Abstract!Init
  OBVIOUS
<1>1. now = 0 /\ \A c \in Callers : RequestOf(c) = [state |-> "unsent", due |-> 0]
  <2>1. OnePlace
    BY PlaceInit DEF PlaceInv
  <2> QED BY <2>1, Mapped DEF Init
<1> QED BY <1>1 DEF Abstract!Init, Abstract!Unsent

(* What a request finds at its replica is held there.                      *)
LEMMA FoundIsHeld ==
    ASSUME PlaceInv, NEW q \in Replicas
    PROVE  Len(pending[q]) + (IF Busy(q) THEN 1 ELSE 0) \in 0..Cardinality(Abstract!Held)
<1> DEFINE Waiting == Range(pending[q])
<1>1. /\ IsFiniteSet(Waiting) /\ Cardinality(Waiting) = Len(pending[q])
      /\ Len(pending[q]) \in Nat
  <2>1. pending[q] \in Seq(Callers) /\ IsInjective(pending[q])
    BY DEF PlaceInv, TypeOK, OnePlace
  <2> QED BY <2>1, QueueSize
<1>2. Abstract!Held \subseteq Callers /\ IsFiniteSet(Abstract!Held)
  <2>1. Abstract!Held \subseteq Callers
    BY DEF Abstract!Held
  <2> QED BY <2>1, FS_Subset, CallersAssumption
<1>3. Cardinality(Abstract!Held) \in Nat
  BY <1>2, FS_CardinalityType
<1>4. Waiting \subseteq Abstract!Held
  <2>1. Waiting \subseteq Callers
    BY DEF PlaceInv, TypeOK, Range
  <2> QED BY <2>1, HeldIsHeld DEF PlaceInv, Held, Queued
<1>5. CASE Busy(q)
  <2>1. current[q] \in Abstract!Held /\ current[q] \notin Waiting
    BY <1>5, HeldIsHeld DEF PlaceInv, OnePlace, TypeOK, Held, Handled, Busy
  <2>2. /\ IsFiniteSet(Waiting \cup {current[q]})
        /\ Cardinality(Waiting \cup {current[q]}) = Len(pending[q]) + 1
    BY <1>1, <2>1, FS_AddElement
  <2>3. Cardinality(Waiting \cup {current[q]}) <= Cardinality(Abstract!Held)
    BY <1>2, <1>4, <2>1, FS_Subset
  <2> QED BY <1>1, <1>3, <1>5, <2>2, <2>3
<1>6. CASE ~Busy(q)
  <2>1. Cardinality(Waiting) <= Cardinality(Abstract!Held)
    BY <1>2, <1>4, FS_Subset
  <2> QED BY <1>1, <1>3, <1>6, <2>1
<1> QED BY <1>5, <1>6

(* RequestService counts as this module does.                              *)
LEMMA SameCount == ASSUME NEW S PROVE Abstract!Cardinality(S) = Cardinality(S)
BY Zenon DEF Abstract!Cardinality, Cardinality

LEMMA SendRefines ==
    ASSUME PlaceInv, PlaceInv', NEW c \in Callers, Send(c)
    PROVE  Abstract!Take(c)
<1>1. PICK q \in Replicas :
        /\ pending' = [pending EXCEPT ![q] = Append(@, c)]
        /\ caller' = [caller EXCEPT ![c] = [state |-> "waiting", sent |-> now,
                ahead |-> Len(pending[q]) + (IF Busy(q) THEN 1 ELSE 0)]]
  BY DEF Send
<1> DEFINE n == Len(pending[q]) + (IF Busy(q) THEN 1 ELSE 0)
<1>2. /\ OnePlace /\ OnePlace' /\ TypeOK /\ UNCHANGED <<now, current>>
      /\ caller[c].state = "new" /\ pending[q] \in Seq(Callers)
  BY DEF PlaceInv, Send, TypeOK
<1>3. /\ \A d \in Callers : d # c => caller'[d] = caller[d]
      /\ caller'[c].state = "waiting" /\ caller'[c].sent = now /\ caller'[c].ahead = n
  BY <1>1, <1>2 DEF TypeOK
<1>4. \A r \in Replicas :
        Range(pending'[r]) = Range(pending[r]) \cup (IF r = q THEN {c} ELSE {})
  BY <1>1, <1>2, Appended DEF TypeOK
<1>5. RequestOf(c) = Abstract!Unsent
  BY <1>2, Mapped DEF Abstract!Unsent
<1>6. RequestOf(c)' = [state |-> "held", due |-> now + (n + 1) * HandlerTimeout]
  <2>1. Held(c)'
    BY <1>4 DEF Held, Queued
  <2> DEFINE due == caller[c].sent + (caller[c].ahead + 1) * HandlerTimeout
             new == caller[c].state = "new"
  <2>2. RequestOf(c)' = CASE new' -> [state |-> "unsent", due |-> 0]
                          [] Held(c)' -> [state |-> "held", due |-> due']
                          [] OTHER -> [state |-> "settled", due |-> 0]
    BY DEF RequestOf, Held
  <2>3. ~new'
    BY <1>3
  <2> HIDE DEF due, new
  <2>4. RequestOf(c)' = [state |-> "held", due |-> due']
    BY <2>1, <2>2, <2>3
  <2>5. RequestOf(c)' = [state |-> "held",
            due |-> caller'[c].sent + (caller'[c].ahead + 1) * HandlerTimeout]
    BY <2>4 DEF due
  <2> QED BY <1>3, <2>5
<1>7. ASSUME NEW d \in Callers, d # c PROVE RequestOf(d)' = RequestOf(d)
  <2>1. Queued(d)' = Queued(d)
    <3>1. \A r \in Replicas : d \in Range(pending'[r]) <=> d \in Range(pending[r])
      BY <1>4, <1>7
    <3> QED BY <3>1 DEF Queued
  <2>2. Handled(d)' = Handled(d)
    BY <1>2 DEF Handled
  <2>3. caller'[d] = caller[d] /\ Held(d)' = Held(d)
    BY <1>3, <1>7, <2>1, <2>2 DEF Held
  <2> QED BY <2>3, SameRequest
<1>8. n \in 0..Cardinality(Abstract!Held)
  BY FoundIsHeld
<1> HIDE DEF n
<1>9. [d \in Callers |-> RequestOf(d)]' =
        [[d \in Callers |-> RequestOf(d)] EXCEPT ![c] =
            [state |-> "held", due |-> now + (n + 1) * HandlerTimeout]]
  BY <1>6, <1>7
<1> QED BY <1>2, <1>5, <1>8, <1>9, SameCount DEF Abstract!Take

(* The replica's callback ends: its request is settled, whether it was     *)
(* answered or not.                                                        *)
LEMMA ResponseRefines ==
    ASSUME PlaceInv, PlaceInv', NEW q \in Replicas, Respond(q) \/ NoResponse(q)
    PROVE  Abstract!Settle \/ UNCHANGED Abstract!vars
<1>1. PICK x : x = current[q]
  OBVIOUS
<1>2. /\ x \in Callers /\ ~Held(x)' /\ Held(x)
      /\ OnePlace /\ OnePlace' /\ UNCHANGED <<now, pending>>
      /\ \A r \in Replicas : r # q => current'[r] = current[r]
      /\ current'[q] = Nobody
      /\ \A d \in Callers : /\ d # x => caller'[d] = caller[d]
                            /\ caller'[d].state = "new" <=> caller[d].state = "new"
  <2>1. /\ x \in Callers /\ ~Queued(x)' /\ ~Handled(x)'
        /\ \A d \in Callers : /\ d # x => caller'[d] = caller[d]
                              /\ caller'[d].state = "new" <=> caller[d].state = "new"
    <3>1. TypeOK'
      BY DEF PlaceInv
    <3> QED BY <1>1, <3>1, ResponsePlace
  <2>2. /\ Done(q) /\ TypeOK
    BY DEF Respond, NoResponse, PlaceInv
  <2>3. /\ UNCHANGED <<now, pending>> /\ current'[q] = Nobody
        /\ \A r \in Replicas : r # q => current'[r] = current[r]
    BY <2>2 DEF Done, TypeOK
  <2>4. Held(x) /\ ~Held(x)'
    BY <2>1, <1>1 DEF Held, Handled
  <2> QED BY <2>1, <2>3, <2>4 DEF PlaceInv
<1>3. caller[x].state # "new"
  BY <1>2, Nowhere DEF Held
<1>4. ASSUME NEW d \in Callers, d # x PROVE RequestOf(d)' = RequestOf(d)
  <2>1. Held(d)' = Held(d)
    BY <1>1, <1>2, <1>4, TimeoutAssumption DEF Held, Queued, Handled
  <2> QED BY <1>2, <1>4, <2>1, SameRequest
<1> QED BY <1>2, <1>3, <1>4, SettleOrStutter

(* Whatever a crashing replica held is settled.                            *)
LEMMA CrashRefines ==
    ASSUME PlaceInv, PlaceInv', NEW q \in Replicas, Crash(q)
    PROVE  Abstract!Settle \/ UNCHANGED Abstract!vars
<1>1. /\ OnePlace /\ OnePlace' /\ UNCHANGED <<now, caller>>
      /\ \A r \in Replicas : r # q => pending'[r] = pending[r] /\ current'[r] = current[r]
      /\ current'[q] = Nobody /\ Range(pending'[q]) = {}
  BY DEF Crash, PlaceInv, TypeOK, Range
<1>2. ASSUME NEW c \in Callers
      PROVE  \/ RequestOf(c)' = RequestOf(c)
             \/ Held(c) /\ ~Held(c)' /\ caller'[c].state # "new"
  <2>1. Held(c)' => Held(c)
    BY <1>1, TimeoutAssumption DEF Held, Queued, Handled
  <2>2. CASE Held(c) /\ ~Held(c)'
    <3>1. caller[c].state # "new"
      BY <1>1, <2>2, Nowhere DEF Held
    <3> QED BY <2>2, <3>1, <1>1
  <2>3. CASE Held(c)' = Held(c)
    BY <2>3, <1>1, SameRequest
  <2>4. Held(c) \in BOOLEAN /\ Held(c)' \in BOOLEAN
    BY DEF Held
  <2> QED BY <2>1, <2>2, <2>3, <2>4
<1> QED BY <1>1, <1>2, SettleOrStutter

(* The next message begins to be handled: its request was held before.     *)
LEMMA DeliverRefines ==
    ASSUME PlaceInv, NEW q \in Replicas, Deliver(q)
    PROVE  UNCHANGED Abstract!vars
<1>1. /\ ~Busy(q) /\ UNCHANGED <<now, caller>>
      /\ \A r \in Replicas : r # q => pending'[r] = pending[r] /\ current'[r] = current[r]
      /\ current'[q] = Head(pending[q])
      /\ pending[q] \in Seq(Callers) /\ pending[q] # <<>> /\ pending'[q] = Tail(pending[q])
  BY DEF Deliver, PlaceInv, TypeOK
<1>2. /\ Head(pending[q]) \in Range(pending[q])
      /\ Range(pending'[q]) = Range(pending[q]) \ {Head(pending[q])}
  BY <1>1, TakenOff DEF PlaceInv, OnePlace
<1>3. ASSUME NEW c \in Callers PROVE RequestOf(c)' = RequestOf(c)
  <2>1. Held(c)' = Held(c)
    <3>1. Held(c)' => Held(c)
      BY <1>1, <1>2 DEF Held, Queued, Handled
    <3>2. ASSUME Held(c) PROVE Held(c)'
      <4>1. CASE Handled(c)
        <5>1. PICK r \in Replicas : current[r] = c
          BY <4>1 DEF Handled
        <5>2. r # q
          BY <5>1, <1>1, TimeoutAssumption DEF Busy
        <5> QED BY <5>1, <5>2, <1>1 DEF Held, Handled
      <4>2. CASE Queued(c)
        <5>1. PICK r \in Replicas : c \in Range(pending[r])
          BY <4>2 DEF Queued
        <5>2. CASE r = q /\ c = Head(pending[q])
          BY <5>2, <1>1 DEF Held, Handled
        <5>3. CASE ~(r = q /\ c = Head(pending[q]))
          BY <5>1, <5>3, <1>1, <1>2 DEF Held, Queued
        <5> QED BY <5>2, <5>3
      <4> QED BY <3>2, <4>1, <4>2 DEF Held
    <3>3. Held(c) \in BOOLEAN /\ Held(c)' \in BOOLEAN
      BY DEF Held
    <3> QED BY <3>1, <3>2, <3>3
  <2> QED BY <1>1, <2>1, SameRequest
<1> QED BY <1>1, <1>3, AllTheSame

(* Who gives up, and who is told to stop, does not matter to a request.    *)
LEMMA GiveUpRefines ==
    ASSUME TypeOK, NEW c \in Callers, GiveUp(c)
    PROVE  UNCHANGED Abstract!vars
<1>1. /\ UNCHANGED <<now, pending, current>> /\ caller[c].state = "waiting"
      /\ \A d \in Callers : /\ caller'[d].sent = caller[d].sent
                            /\ caller'[d].ahead = caller[d].ahead
                            /\ d # c => caller'[d] = caller[d]
      /\ caller'[c].state = "gave_up"
  BY DEF GiveUp, TypeOK
<1>2. ASSUME NEW d \in Callers PROVE RequestOf(d)' = RequestOf(d)
  <2>1. Held(d)' = Held(d)
    BY <1>1 DEF Held, Queued, Handled
  <2>2. (caller'[d].state = "new") = (caller[d].state = "new")
    <3>1. CASE d = c
      BY <3>1, <1>1
    <3>2. CASE d # c
      BY <3>2, <1>1
    <3> QED BY <3>1, <3>2
  <2> QED BY <1>1, <2>1, <2>2, SameRequest
<1> QED BY <1>1, <1>2, AllTheSame

LEMMA QuietRefines ==
    ASSUME UNCHANGED <<now, caller, pending, current>>
    PROVE  UNCHANGED Abstract!vars
<1>1. ASSUME NEW c \in Callers PROVE RequestOf(c)' = RequestOf(c)
  BY DEF RequestOf, Queued, Handled
<1> QED BY <1>1, AllTheSame

(* Time passes only while every held request has time left: its replica    *)
(* is busy with a handler that has some.                                   *)
LEMMA TickRefines ==
    ASSUME IInv, OnePlace, Tick
    PROVE  Abstract!Tick
<1>1. /\ now' = now + 1 /\ UNCHANGED <<caller, pending, current>> /\ TypeOK
      /\ \A r \in Replicas : InTime(r) /\ (Busy(r) \/ pending[r] = <<>>)
  BY DEF Tick, IInv
<1>2. UNCHANGED [c \in Callers |-> RequestOf(c)]
  <2>1. ASSUME NEW c \in Callers PROVE RequestOf(c)' = RequestOf(c)
    BY <1>1 DEF RequestOf, Queued, Handled
  <2> QED BY <2>1
<1>3. ASSUME NEW c \in Callers, Held(c)
      PROVE  now < caller[c].sent + (caller[c].ahead + 1) * H
  <2> DEFINE s == caller[c].sent
             n == caller[c].ahead
  <2>1. s \in Nat /\ n \in Nat /\ now \in Nat /\ H \in Nat
    BY <1>1, CallerTyping, TimeoutAssumption DEF TypeOK, H
  <2>2. PICK r \in Replicas : Busy(r) /\ begun[r] - s <= n * H
    <3>1. CASE Handled(c)
      <4>1. PICK r \in Replicas : current[r] = c
        BY <3>1 DEF Handled
      <4> QED BY <4>1, TimeoutAssumption DEF IInv, BeganInTime, Busy
    <3>2. CASE Queued(c)
      <4>1. PICK r \in Replicas : c \in Range(pending[r])
        BY <3>2 DEF Queued
      <4>2. pending[r] \in Seq(Callers)
        BY <1>1, Positions
      <4>3. PICK i \in 1..Len(pending[r]) : pending[r][i] = c
        BY <4>1, <4>2 DEF Range
      <4>4. Busy(r) /\ begun[r] - s <= (n - i) * H
        <5>1. pending[r] # <<>>
          BY <4>1, <4>2 DEF Range
        <5>2. Busy(r) /\ PositionInTime(r, i)
          BY <5>1, <4>3, <1>1 DEF IInv
        <5> QED BY <5>2, <4>3 DEF PositionInTime, At
      <4> DEFINE a == (n - i) * H
                 b == n * H
                 g == begun[r]
      <4>5. a <= b /\ a \in Int /\ b \in Int /\ g \in Nat
        <5>1. i \in Nat
          BY <4>2, <4>3
        <5>2. n - i \in Int /\ n \in Int /\ n - i <= n
          <6> HIDE DEF n
          <6> QED BY <5>1, <2>1
        <5>3. g \in Nat /\ H \in Int /\ \A m \in Int : m * H \in Int
          BY <2>1, <1>1, Typing
        <5> HIDE DEF n
        <5> QED BY <5>2, <5>3, Monotone
      <4>6. g - s <= b
        <5>1. g - s <= a
          BY <4>4
        <5> HIDE DEF a, b, g, s
        <5> QED BY <5>1, <4>5, <2>1
      <4> QED BY <4>4, <4>6
    <3> QED BY <1>3, <3>1, <3>2 DEF Held
  <2> DEFINE b == n * H
             g == begun[r]
             e == (n + 1) * H
  <2>3. now < g + H /\ g \in Nat
    BY <1>1, <2>2, Typing, TimeoutAssumption DEF InTime, ContextEnded, H
  <2>4. e = b + H /\ b \in Int /\ g - s <= b
    <3>1. n \in Int /\ H \in Int /\ b \in Int
      BY <2>1
    <3>2. (n + 1) * H = n * H + H
      <4> HIDE DEF n
      <4> QED BY <3>1, OneMore
    <3> QED BY <3>1, <3>2, <2>2
  <2> HIDE DEF b, g, s, e
  <2>5. now < s + e
    BY <2>1, <2>3, <2>4
  <2> QED BY <2>5 DEF s, e
<1>4. ASSUME NEW c \in Abstract!Held
      PROVE  now < [d \in Callers |-> RequestOf(d)][c].due
  <2>1. c \in Callers /\ Held(c)
    BY HeldIsHeld
  <2>2. caller[c].state # "new"
    BY <2>1, Nowhere DEF Held
  <2> DEFINE due == caller[c].sent + (caller[c].ahead + 1) * HandlerTimeout
  <2>3. RequestOf(c) = [state |-> "held", due |-> due]
    BY <2>1, <2>2, Mapped
  <2>4. now < due
    BY <1>3, <2>1 DEF H
  <2> HIDE DEF due
  <2> QED BY <2>1, <2>3, <2>4
<1> QED BY <1>1, <1>2, <1>4 DEF Abstract!Tick

LEMMA StepRefines ==
    IInv /\ PlaceInv /\ PlaceInv' /\ [Next]_vars => [Abstract!Next]_(Abstract!vars)
<1> SUFFICES ASSUME IInv, PlaceInv, PlaceInv', [Next]_vars
             PROVE  Abstract!Next \/ UNCHANGED Abstract!vars
  OBVIOUS
<1>1. TypeOK /\ OnePlace
  BY DEF PlaceInv
<1>2. ASSUME NEW c \in Callers, Send(c) PROVE Abstract!Next
  BY <1>2, SendRefines DEF Abstract!Next
<1>3. ASSUME NEW c \in Callers, GiveUp(c) PROVE UNCHANGED Abstract!vars
  BY <1>1, <1>3, GiveUpRefines
<1>4. ASSUME NEW q \in Replicas, Deliver(q) PROVE UNCHANGED Abstract!vars
  BY <1>4, DeliverRefines
<1>5. ASSUME NEW q \in Replicas, Respond(q) \/ NoResponse(q)
      PROVE  Abstract!Next \/ UNCHANGED Abstract!vars
  BY <1>5, ResponseRefines DEF Abstract!Next
<1>6. ASSUME NEW q \in Replicas, Stop(q) PROVE UNCHANGED Abstract!vars
  BY <1>6, QuietRefines DEF Stop
<1>7. ASSUME NEW q \in Replicas, Crash(q)
      PROVE  Abstract!Next \/ UNCHANGED Abstract!vars
  BY <1>7, CrashRefines DEF Abstract!Next
<1>8. CASE Tick
  BY <1>1, <1>8, TickRefines DEF Abstract!Next
<1>9. CASE UNCHANGED vars
  BY <1>9, QuietRefines DEF vars
<1> QED BY <1>2, <1>3, <1>4, <1>5, <1>6, <1>7, <1>8, <1>9 DEF Next

(* Replicas that stop, crash, panic and fail to respond take in and settle *)
(* every request once, and hold none longer than what it found explains.   *)
THEOREM DispatchRefines == Spec => ImplementsRequestService
BY InitRefines, StepRefines, Invariant, PlaceInvariant, PTL
   DEF Spec, ImplementsRequestService, Abstract!Spec
=============================================================================
