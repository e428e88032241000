------------------------ MODULE PersonaHandlerProofs ------------------------
(* Proofs about PersonaHandler, for any set of at most five query sources.  *)
EXTENDS PersonaHandlerRefinement, FiniteSetTheorems, TLAPS

-----------------------------------------------------------------------------
(* The results channel as a sequence.                                       *)

(* Sending adds one element to the channel and keeps it free of repetitions.*)
LEMMA AppendRange ==
    ASSUME NEW S, NEW q \in Seq(S), NEW e \in S
    PROVE  /\ Append(q, e) \in Seq(S)
           /\ Range(Append(q, e)) = Range(q) \cup {e}
           /\ IsInjective(q) /\ e \notin Range(q) => IsInjective(Append(q, e))
  <1>1. /\ Append(q, e) \in Seq(S)
        /\ Len(Append(q, e)) = Len(q) + 1
        /\ \A i \in 1..Len(q) : Append(q, e)[i] = q[i]
        /\ Append(q, e)[Len(q) + 1] = e
    OBVIOUS
  <1>2. /\ DOMAIN q = 1..Len(q)
        /\ DOMAIN Append(q, e) = 1..(Len(q) + 1)
        /\ Len(q) \in Nat
    OBVIOUS
  <1>3. Range(Append(q, e)) = Range(q) \cup {e}
    BY <1>1, <1>2 DEF Range
  <1>4. ASSUME IsInjective(q), e \notin Range(q)
        PROVE  IsInjective(Append(q, e))
    BY <1>1, <1>2, <1>4 DEF IsInjective, Range
  <1>. QED  BY <1>1, <1>3, <1>4

(* Receiving takes the head out of the channel; the rest has no copy of it. *)
LEMMA TailRange ==
    ASSUME NEW S, NEW q \in Seq(S), q # <<>>
    PROVE  /\ Head(q) \in S /\ Tail(q) \in Seq(S)
           /\ Range(q) = {Head(q)} \cup Range(Tail(q))
           /\ IsInjective(q) => /\ IsInjective(Tail(q))
                                /\ Head(q) \notin Range(Tail(q))
  <1>1. /\ Len(q) \in Nat \ {0}
        /\ Head(q) = q[1]
        /\ Tail(q) \in Seq(S)
        /\ Len(Tail(q)) = Len(q) - 1
        /\ \A i \in 1..(Len(q) - 1) : Tail(q)[i] = q[i + 1]
    OBVIOUS
  <1>2. DOMAIN q = 1..Len(q) /\ DOMAIN Tail(q) = 1..(Len(q) - 1)
    BY <1>1
  <1>3. Head(q) \in S
    BY <1>1, <1>2
  <1>4. Range(Tail(q)) \subseteq Range(q) /\ Head(q) \in Range(q)
    BY <1>1, <1>2 DEF Range
  <1>5. ASSUME NEW x \in Range(q) PROVE x = Head(q) \/ x \in Range(Tail(q))
    <2>1. PICK i \in 1..Len(q) : x = q[i]
      BY <1>2, <1>5 DEF Range
    <2>2. CASE i = 1
      BY <2>1, <2>2, <1>1
    <2>3. CASE i # 1
      <3>1. i - 1 \in 1..(Len(q) - 1) /\ Tail(q)[i - 1] = q[i]
        BY <2>3, <1>1
      <3>. QED  BY <3>1, <2>1, <1>2 DEF Range
    <2>. QED  BY <2>2, <2>3
  <1>6. ASSUME IsInjective(q)
        PROVE  IsInjective(Tail(q)) /\ Head(q) \notin Range(Tail(q))
    BY <1>1, <1>2, <1>6 DEF IsInjective, Range
  <1>. QED  BY <1>1, <1>3, <1>4, <1>5, <1>6

LEMMA EmptyRange == Range(<<>>) = {} /\ IsInjective(<<>>)
  BY DEF Range, IsInjective

-----------------------------------------------------------------------------
(* Type correctness.                                                        *)

(* Every variable stays in its domain and the channel within its buffer, in *)
(* every interleaving of the handler with any number of sources.            *)
LEMMA TypeOKInit == Init => TypeOK
  <1>1. <<>> \in Seq(Sources) /\ Len(<<>>) <= ResultsCapacity
    BY DEF ResultsCapacity
  <1>2. NoReply \in [code : Codes \cup {"pending"}, from : Seq(Sources)]
    BY <1>1 DEF NoReply
  <1>. QED  BY <1>1, <1>2 DEF Init, TypeOK, Places, Stages, Contexts

LEMMA LaunchedAreSources == Launched \subseteq Sources
  BY DEF Launched

LEMMA TypeOKNext == TypeOK /\ [Next]_vars => TypeOK'
  <1> SUFFICES ASSUME TypeOK, [Next]_vars PROVE TypeOK'
    OBVIOUS
  <1> USE DEF TypeOK
  <1>1. CASE Reject
    BY <1>1 DEF Reject, Return, EndContext, RejectCode, Codes, Places, Contexts
  <1>2. CASE FanOut
    BY <1>2 DEF FanOut, Stages, Places
  <1>3. ASSUME NEW s \in Sources, SourceReturns(s) PROVE TypeOK'
    BY <1>3 DEF SourceReturns, Stages
  <1>4. ASSUME NEW s \in Sources, SendResult(s) PROVE TypeOK'
    <2>1. results' \in Seq(Sources) /\ Len(results') = Len(results) + 1
      BY <1>4 DEF SendResult
    <2>. QED  BY <1>4, <2>1 DEF SendResult, Stages, ResultsCapacity
  <1>5. CASE CloseResults
    BY <1>5 DEF CloseResults
  <1>6. CASE TakeResult
    <2>1. Head(results) \in Sources /\ Tail(results) \in Seq(Sources)
      BY <1>6, TailRange DEF TakeResult
    <2>2. Len(results') <= ResultsCapacity
      BY <1>6 DEF TakeResult, ResultsCapacity
    <2>3. projects' \in Seq(Sources)
      BY <2>1, <1>6 DEF TakeResult, Merged
    <2>. QED  BY <1>6, <2>1, <2>2, <2>3 DEF TakeResult
  <1>7. CASE CollectClosed
    BY <1>7 DEF CollectClosed, Return, EndContext, ClosedCode, Codes, Places, Contexts
  <1>8. CASE SelectDone
    BY <1>8 DEF SelectDone, Places
  <1>9. CASE DrainEnd
    BY <1>9 DEF DrainEnd, Return, EndContext, Codes, Places, Contexts
  <1>10. CASE DeadlineFires \/ ParentCancelled
    BY <1>10 DEF DeadlineFires, ParentCancelled, EndContext, Contexts
  <1>11. CASE UNCHANGED vars
    BY <1>11 DEF vars
  <1>. QED
    BY <1>1, <1>2, <1>3, <1>4, <1>5, <1>6, <1>7, <1>8, <1>9, <1>10, <1>11
       DEF Next, Handler, CollectResult, DrainResult

(* Type correctness, for any set of at most five query sources.             *)
THEOREM TypeCorrect == Spec => []TypeOK
  BY TypeOKInit, TypeOKNext, PTL DEF Spec

-----------------------------------------------------------------------------
(* The inductive invariant behind the safety properties.                    *)

(* Nothing has moved before the fan-out, nor ever does after a rejection.   *)
QuietBefore ==
    pc \in {"start", "rejected"} =>
        /\ \A s \in Sources : stage[s] = "off"
        /\ results = <<>> /\ projects = <<>>
        /\ ~closed

(* After the fan-out exactly the launched sources have a goroutine.         *)
OnlyLaunched ==
    pc \notin {"start", "rejected"} =>
        \A s \in Sources : stage[s] = "off" <=> s \notin Launched

(* A source has an outcome exactly when it has returned.                    *)
OutcomeKnown ==
    \A s \in Sources : outcome[s] = "none" <=> stage[s] \in {"off", "running"}

(* Hand-over: only queued results are in the channel, only useful ones are  *)
(* merged, and each useful one is in exactly one of the two places, once.   *)
HandOver ==
    /\ \A s \in Range(results) : stage[s] = "done"
    /\ Range(projects) \subseteq Useful
    /\ \A s \in Useful : (s \in Range(results)) # (s \in Range(projects))
    /\ IsInjective(results) /\ IsInjective(projects)

ClosedLast == closed => WaitOver

(* What had been queued when the context ended is still queued.             *)
Snapshot ==
    /\ ctx = "live" => \A s \in Sources : atEnd[s] = "off"
    /\ \A s \in Sources : atEnd[s] = "done" => stage[s] = "done"

ReplyAtEnd ==
    /\ pc \in {"start", "collecting", "draining"} => reply = NoReply
    /\ pc = "rejected" => reply.code \in {"invalid_request", "validation_error"}
    /\ pc = "draining" => ctx # "live"

IInv ==
    /\ TypeOK
    /\ QuietBefore
    /\ OnlyLaunched
    /\ OutcomeKnown
    /\ HandOver
    /\ ClosedLast
    /\ Snapshot
    /\ ReplyAtEnd
    /\ SuccessIsComplete
    /\ TimeoutKeepsFinished

LEMMA IInvInit == Init => IInv
  <1> SUFFICES ASSUME Init PROVE IInv
    OBVIOUS
  <1>1. TypeOK
    BY TypeOKInit
  <1>2. Useful = {}
    BY DEF Init, Useful
  <1>. QED
    BY <1>1, <1>2, EmptyRange
       DEF Init, NoReply, IInv, QuietBefore, OnlyLaunched, OutcomeKnown, HandOver,
           ClosedLast, Snapshot, ReplyAtEnd, SuccessIsComplete, TimeoutKeepsFinished

(* A rejection launches nothing, so it only has to leave things alone.      *)
LEMMA RejectIInv == ASSUME IInv, Reject PROVE IInv'
  <1>1. TypeOK'
    BY TypeOKNext DEF IInv, Next, Handler
  <1>2. reply'.code \in {"invalid_request", "validation_error"}
    BY DEF Reject, Return, RejectCode
  <1>3. Useful' = Useful
    BY DEF Reject, Useful
  <1>4. Snapshot'
    BY DEF IInv, TypeOK, Snapshot, Reject, Return, EndContext, QuietBefore
  <1>. QED
    BY <1>1, <1>2, <1>3, <1>4
       DEF IInv, Reject, QuietBefore, OnlyLaunched, OutcomeKnown, HandOver,
           ClosedLast, WaitOver, Launched, ReplyAtEnd, SuccessIsComplete,
           TimeoutKeepsFinished

(* Before the fan-out no source has an outcome, so none of them is useful.  *)
LEMMA FanOutIInv == ASSUME IInv, FanOut PROVE IInv'
  <1>1. TypeOK'
    BY TypeOKNext DEF IInv, Next, Handler
  <1>2. Launched' = Launched
    BY DEF FanOut, Launched
  <1>3. /\ \A s \in Sources : stage[s] = "off"
        /\ results = <<>> /\ projects = <<>> /\ ~closed
        /\ reply.code = "pending"
    BY DEF IInv, FanOut, QuietBefore, ReplyAtEnd, NoReply
  <1>4. \A s \in Sources : stage'[s] = IF s \in Launched THEN "running" ELSE "off"
    BY DEF FanOut
  <1>5. Useful' = {}
    BY <1>4 DEF Useful
  <1>6. HandOver'
    BY <1>3, <1>5, EmptyRange DEF FanOut, HandOver
  <1>7. Snapshot'
    BY <1>3 DEF IInv, Snapshot, FanOut
  <1>. QED
    BY <1>1, <1>2, <1>3, <1>4, <1>6, <1>7
       DEF IInv, FanOut, QuietBefore, OnlyLaunched, OutcomeKnown, ClosedLast,
           ReplyAtEnd, SuccessIsComplete, TimeoutKeepsFinished

(* A running source rules out a closed channel and a complete reply.        *)
LEMMA RunningMeansUnfinished ==
    ASSUME IInv, NEW s \in Sources, stage[s] \in {"running", "returned"}
    PROVE  /\ pc \notin {"start", "rejected"}
           /\ s \in Launched
           /\ ~closed
           /\ reply.code # "none"
           /\ atEnd[s] # "done"
  <1>1. pc \notin {"start", "rejected"}
    BY DEF IInv, QuietBefore
  <1>2. s \in Launched
    BY <1>1 DEF IInv, OnlyLaunched
  <1>3. ~closed
    BY <1>2 DEF IInv, ClosedLast, WaitOver
  <1>4. atEnd[s] # "done"
    BY DEF IInv, Snapshot
  <1>5. reply.code # "none"
    BY <1>2, <1>4 DEF IInv, SuccessIsComplete
  <1>. QED  BY <1>1, <1>2, <1>3, <1>4, <1>5

LEMMA SourceReturnsIInv ==
    ASSUME IInv, NEW s \in Sources, SourceReturns(s) PROVE IInv'
  <1>1. TypeOK'
    BY TypeOKNext DEF IInv, Next
  <1>2. /\ stage[s] = "running" /\ stage'[s] = "returned"
        /\ outcome'[s] \in {"ok", "err"}
        /\ \A t \in Sources \ {s} : stage'[t] = stage[t] /\ outcome'[t] = outcome[t]
    BY DEF IInv, TypeOK, SourceReturns
  <1>3. /\ pc \notin {"start", "rejected"} /\ s \in Launched /\ ~closed
        /\ reply.code # "none" /\ atEnd[s] # "done"
    BY <1>2, RunningMeansUnfinished
  <1>4. Useful' = Useful
    BY <1>2 DEF Useful
  <1>5. HandOver'
    <2>1. \A t \in Range(results) : t \in Sources
      BY DEF IInv, TypeOK, Range
    <2>. QED  BY <1>2, <1>4, <2>1 DEF IInv, HandOver, SourceReturns
  <1>6. TimeoutKeepsFinished'
    BY <1>2, <1>3, <1>4 DEF IInv, TimeoutKeepsFinished, SourceReturns
  <1>. QED
    BY <1>1, <1>2, <1>3, <1>5, <1>6
       DEF IInv, SourceReturns, QuietBefore, OnlyLaunched, Launched, OutcomeKnown,
           ClosedLast, Snapshot, ReplyAtEnd, SuccessIsComplete

(* A send moves one result into the channel, where it was not before.       *)
LEMMA SendResultIInv ==
    ASSUME IInv, NEW s \in Sources, SendResult(s) PROVE IInv'
  <1>1. TypeOK'
    BY TypeOKNext DEF IInv, Next
  <1>2. /\ stage[s] = "returned" /\ stage'[s] = "done"
        /\ \A t \in Sources \ {s} : stage'[t] = stage[t]
        /\ outcome' = outcome
    BY DEF IInv, TypeOK, SendResult
  <1>3. /\ pc \notin {"start", "rejected"} /\ s \in Launched /\ ~closed
        /\ reply.code # "none" /\ atEnd[s] # "done"
    BY <1>2, RunningMeansUnfinished
  <1>4. Useful' = Useful \cup (IF outcome[s] = "ok" THEN {s} ELSE {})
    BY <1>2 DEF Useful
  <1>5. s \notin Range(results) /\ s \notin Range(projects) /\ s \notin Useful
    BY <1>2 DEF IInv, HandOver, Useful
  <1>6. /\ Range(results') = Range(results) \cup {s}
        /\ IsInjective(results')
    BY <1>5, AppendRange DEF IInv, TypeOK, HandOver, SendResult
  <1>7. HandOver'
    <2>1. \A t \in Range(results) : t \in Sources
      BY DEF IInv, TypeOK, Range
    <2>2. \A t \in Range(results') : stage'[t] = "done"
      BY <1>2, <1>6, <2>1 DEF IInv, HandOver
    <2>3. projects' = projects
      BY DEF SendResult
    <2>. QED  BY <1>4, <1>5, <1>6, <2>2, <2>3 DEF IInv, HandOver
  <1>8. TimeoutKeepsFinished'
    BY <1>2, <1>3, <1>4 DEF IInv, TimeoutKeepsFinished, SendResult
  <1>. QED
    BY <1>1, <1>2, <1>3, <1>7, <1>8
       DEF IInv, SendResult, QuietBefore, OnlyLaunched, Launched, OutcomeKnown,
           ClosedLast, Snapshot, ReplyAtEnd, SuccessIsComplete

LEMMA CloseResultsIInv == ASSUME IInv, CloseResults PROVE IInv'
  <1>1. TypeOK'
    BY TypeOKNext DEF IInv, Next
  <1>2. Useful' = Useful /\ WaitOver' = WaitOver
    BY DEF CloseResults, Useful, WaitOver, Launched
  <1>. QED
    BY <1>1, <1>2
       DEF IInv, CloseResults, QuietBefore, OnlyLaunched, Launched, OutcomeKnown,
           HandOver, ClosedLast, Snapshot, ReplyAtEnd, SuccessIsComplete,
           TimeoutKeepsFinished

(* A receive moves the head of the channel into the merged results, or      *)
(* drops it if it is a failure.                                             *)
LEMMA TakeResultIInv ==
    ASSUME IInv, TakeResult, pc \in {"collecting", "draining"} PROVE IInv'
  <1> DEFINE h == Head(results)
  <1>1. TypeOK'
    BY TypeOKNext DEF IInv, Next, Handler, CollectResult, DrainResult
  <1>2. /\ h \in Sources
        /\ Range(results) = {h} \cup Range(results')
        /\ IsInjective(results') /\ h \notin Range(results')
    BY TailRange DEF IInv, TypeOK, HandOver, TakeResult
  <1>3. Useful' = Useful
    BY DEF TakeResult, Useful
  <1>4. stage[h] = "done"
    BY <1>2 DEF IInv, HandOver
  <1>5. HandOver'
    <2>1. \A t \in Range(results') : stage'[t] = "done"
      BY <1>2 DEF IInv, HandOver, TakeResult
    <2>2. CASE outcome[h] = "ok"
      <3>1. h \in Useful /\ h \notin Range(projects)
        BY <1>2, <1>4, <2>2 DEF IInv, HandOver, Useful
      <3>2. projects' = Append(projects, h)
        BY <2>2 DEF TakeResult, Merged
      <3>3. Range(projects') = Range(projects) \cup {h} /\ IsInjective(projects')
        BY <1>2, <3>1, <3>2, AppendRange DEF IInv, TypeOK, HandOver
      <3>. QED  BY <1>2, <1>3, <2>1, <3>1, <3>3 DEF IInv, HandOver
    <2>3. CASE outcome[h] # "ok"
      <3>1. h \notin Useful /\ projects' = projects
        BY <2>3 DEF Useful, TakeResult, Merged
      <3>. QED  BY <1>2, <1>3, <2>1, <3>1 DEF IInv, HandOver
    <2>. QED  BY <2>2, <2>3
  <1>6. reply.code = "pending"
    BY DEF IInv, ReplyAtEnd, NoReply
  <1>. QED
    BY <1>1, <1>3, <1>5, <1>6
       DEF IInv, TakeResult, QuietBefore, OnlyLaunched, Launched, OutcomeKnown,
           ClosedLast, WaitOver, Snapshot, ReplyAtEnd, SuccessIsComplete,
           TimeoutKeepsFinished

(* The channel is closed and empty: everything was queued, and merged.      *)
LEMMA CollectClosedIInv == ASSUME IInv, CollectClosed PROVE IInv'
  <1>1. TypeOK'
    BY TypeOKNext DEF IInv, Next, Handler
  <1>2. Useful' = Useful /\ Launched' = Launched
    BY DEF CollectClosed, Useful, Launched
  <1>3. \A s \in Launched : stage[s] = "done"
    BY DEF IInv, CollectClosed, ClosedLast, WaitOver
  <1>4. Range(projects) = Useful
    BY EmptyRange DEF IInv, CollectClosed, HandOver
  <1>5. Useful = {s \in Launched : outcome[s] = "ok"}
    BY <1>3, LaunchedAreSources DEF IInv, CollectClosed, OnlyLaunched, Useful
  <1>6. /\ reply'.from = projects
        /\ reply'.code = IF ctx = "live" THEN "none" ELSE "handler_timeout"
        /\ \/ ctx' = ctx /\ atEnd' = atEnd
           \/ ctx = "live" /\ ctx' = "cancelled" /\ atEnd' = stage
    BY DEF CollectClosed, Return, ClosedCode, EndContext
  <1>7. Snapshot'
    BY <1>6 DEF IInv, Snapshot, CollectClosed
  <1>8. SuccessIsComplete'
    BY <1>2, <1>3, <1>4, <1>5, <1>6 DEF CollectClosed, SuccessIsComplete
  <1>9. TimeoutKeepsFinished'
    BY <1>2, <1>4, <1>6
       DEF IInv, Snapshot, CollectClosed, TimeoutKeepsFinished, Useful
  <1>. QED
    BY <1>1, <1>2, <1>7, <1>8, <1>9
       DEF IInv, CollectClosed, QuietBefore, OnlyLaunched, OutcomeKnown, HandOver,
           ClosedLast, WaitOver, ReplyAtEnd

LEMMA SelectDoneIInv == ASSUME IInv, SelectDone PROVE IInv'
  <1>1. TypeOK'
    BY TypeOKNext DEF IInv, Next, Handler
  <1>2. Useful' = Useful
    BY DEF SelectDone, Useful
  <1>. QED
    BY <1>1, <1>2
       DEF IInv, SelectDone, QuietBefore, OnlyLaunched, Launched, OutcomeKnown,
           HandOver, ClosedLast, WaitOver, Snapshot, ReplyAtEnd,
           SuccessIsComplete, TimeoutKeepsFinished

(* The drain stops only at an empty channel, so nothing queued is left.     *)
LEMMA DrainEndIInv == ASSUME IInv, DrainEnd PROVE IInv'
  <1>1. TypeOK'
    BY TypeOKNext DEF IInv, Next, Handler
  <1>2. Useful' = Useful /\ Launched' = Launched
    BY DEF DrainEnd, Useful, Launched
  <1>3. Range(projects) = Useful
    <2>1. Range(results) = {}
      BY EmptyRange DEF DrainEnd, DrainOver
    <2>. QED  BY <2>1 DEF IInv, HandOver
  <1>4. /\ ctx # "live" /\ ctx' = ctx /\ atEnd' = atEnd
        /\ reply'.from = projects /\ reply'.code = "handler_timeout"
    BY DEF IInv, ReplyAtEnd, DrainEnd, Return
  <1>5. TimeoutKeepsFinished'
    BY <1>2, <1>3, <1>4 DEF IInv, Snapshot, DrainEnd, TimeoutKeepsFinished, Useful
  <1>. QED
    BY <1>1, <1>2, <1>4, <1>5
       DEF IInv, DrainEnd, QuietBefore, OnlyLaunched, OutcomeKnown, HandOver,
           ClosedLast, WaitOver, Snapshot, ReplyAtEnd, SuccessIsComplete

(* The context ends once, and `atEnd' is the moment it did.                 *)
LEMMA ContextEndsIInv ==
    ASSUME IInv, DeadlineFires \/ ParentCancelled PROVE IInv'
  <1>1. TypeOK'
    BY TypeOKNext DEF IInv, Next
  <1>2. /\ ctx = "live" /\ ctx' # "live" /\ atEnd' = stage
        /\ UNCHANGED <<conf, req, pc, stage, outcome, results, closed, projects, reply>>
    BY DEF DeadlineFires, ParentCancelled, EndContext
  <1>3. Useful' = Useful /\ Launched' = Launched /\ WaitOver' = WaitOver
    BY <1>2 DEF Useful, Launched, WaitOver
  <1>. QED
    BY <1>1, <1>2, <1>3
       DEF IInv, QuietBefore, OnlyLaunched, OutcomeKnown, HandOver, ClosedLast,
           Snapshot, ReplyAtEnd, SuccessIsComplete, TimeoutKeepsFinished

LEMMA StutterIInv == ASSUME IInv, UNCHANGED vars PROVE IInv'
  BY DEF vars, IInv, TypeOK, QuietBefore, OnlyLaunched, Launched, OutcomeKnown,
         HandOver, Useful, ClosedLast, WaitOver, Snapshot, ReplyAtEnd,
         SuccessIsComplete, TimeoutKeepsFinished

LEMMA IInvNext == IInv /\ [Next]_vars => IInv'
  <1> SUFFICES ASSUME IInv, [Next]_vars PROVE IInv'
    OBVIOUS
  <1>1. CASE Handler
    BY <1>1, RejectIInv, FanOutIInv, TakeResultIInv, CollectClosedIInv,
       SelectDoneIInv, DrainEndIInv DEF Handler, CollectResult, DrainResult
  <1>2. CASE CloseResults
    BY <1>2, CloseResultsIInv
  <1>3. ASSUME NEW s \in Sources, SourceReturns(s) \/ SendResult(s) PROVE IInv'
    BY <1>3, SourceReturnsIInv, SendResultIInv
  <1>4. CASE DeadlineFires \/ ParentCancelled
    BY <1>4, ContextEndsIInv
  <1>5. CASE UNCHANGED vars
    BY <1>5, StutterIInv
  <1>. QED  BY <1>1, <1>2, <1>3, <1>4, <1>5 DEF Next

LEMMA Invariance == Spec => []IInv
  BY IInvInit, IInvNext, PTL DEF Spec

-----------------------------------------------------------------------------
(* The safety properties.                                                   *)

(* Every queued result without error is in exactly one of the channel and   *)
(* the merged results until the reply is built.                             *)
THEOREM NothingLost == Spec => []NoResultLost
  <1>1. IInv => NoResultLost
    BY DEF IInv, HandOver, NoResultLost
  <1>. QED  BY <1>1, Invariance, PTL

(* A reply without an error code was not cut short by the deadline.         *)
THEOREM CompleteSuccess == Spec => []SuccessIsComplete
  <1>1. IInv => SuccessIsComplete
    BY DEF IInv
  <1>. QED  BY <1>1, Invariance, PTL

(* A handler_timeout reply carries all that was queued before the deadline. *)
THEOREM PartialTimeout == Spec => []TimeoutKeepsFinished
  <1>1. IInv => TimeoutKeepsFinished
    BY DEF IInv
  <1>. QED  BY <1>1, Invariance, PTL

(* No goroutine can send on the closed channel.                             *)
THEOREM CloseIsLast == Spec => []NoSendAfterClose
  <1>1. IInv => NoSendAfterClose
    <2> SUFFICES ASSUME IInv, closed, NEW s \in Sources
                 PROVE  stage[s] \in {"off", "done"}
      BY DEF NoSendAfterClose
    <2>. QED  BY DEF IInv, QuietBefore, OnlyLaunched, ClosedLast, WaitOver
  <1>. QED  BY <1>1, Invariance, PTL

-----------------------------------------------------------------------------
(* The buffer is large enough.                                              *)

LEMMA SourcesFinite == IsFiniteSet(Sources) /\ Cardinality(Sources) <= 6
  <1>1. IsFiniteSet(Sources) /\ Cardinality(Sources) = Cardinality(QuerySources) + 1
    BY SourcesAssumption, FS_AddElement DEF Sources
  <1>2. Cardinality(QuerySources) \in Nat
    BY SourcesAssumption, FS_CardinalityType
  <1>. QED  BY <1>1, <1>2, SourcesAssumption

(* A channel without repetitions is no longer than the set it draws on.     *)
LEMMA InjectiveLength ==
    ASSUME NEW S, IsFiniteSet(S), NEW q \in Seq(S), IsInjective(q)
    PROVE  Len(q) <= Cardinality(S)
  <1>1. Len(q) \in Nat /\ DOMAIN q = 1..Len(q) /\ q \in [1..Len(q) -> Range(q)]
    BY DEF Range
  <1>2. q \in Bijection(1..Len(q), Range(q))
    <2>1. \A t \in Range(q) : \E i \in 1..Len(q) : q[i] = t
      BY <1>1 DEF Range
    <2>. QED  BY <1>1, <2>1 DEF Bijection, Injection, Surjection, IsInjective
  <1>3. ExistsBijection(1..Len(q), Range(q))
    BY <1>2 DEF ExistsBijection
  <1>4. IsFiniteSet(1..Len(q)) /\ Cardinality(1..Len(q)) = Len(q)
    BY <1>1, FS_Interval
  <1>5. Cardinality(Range(q)) = Len(q)
    BY <1>3, <1>4, FS_Bijection
  <1>6. Range(q) \subseteq S
    BY DEF Range
  <1>. QED  BY <1>5, <1>6, FS_Subset

(* However many results were abandoned in the channel, a source that has    *)
(* returned finds room for its own: eight places for at most six sources.   *)
THEOREM NoBlockedSource == Spec => []SendNeverBlocks
  <1>1. ASSUME IInv, NEW s \in Sources, stage[s] = "returned"
        PROVE  Len(results) < ResultsCapacity
    <2>1. results \in Seq(Sources) /\ IsInjective(results)
      BY <1>1 DEF IInv, TypeOK, HandOver
    <2>2. Len(results) <= Cardinality(Sources)
      BY <2>1, SourcesFinite, InjectiveLength
    <2>3. Len(results) \in Nat /\ Cardinality(Sources) \in Nat
      BY <2>1, SourcesFinite, FS_CardinalityType
    <2>. QED  BY <2>2, <2>3, SourcesFinite DEF ResultsCapacity
  <1>2. IInv => SendNeverBlocks
    BY <1>1 DEF SendNeverBlocks
  <1>. QED  BY <1>2, Invariance, PTL

-----------------------------------------------------------------------------
(* What was merged stays merged.                                            *)

LEMMA PrefixKept ==
    ASSUME NEW S, NEW q \in Seq(S)
    PROVE  /\ SubSeq(q, 1, Len(q)) = q
           /\ \A e \in S : SubSeq(Append(q, e), 1, Len(q)) = q
  OBVIOUS

(* No step drops or reorders a merged result, and the reply is all of them. *)
THEOREM KeepsMerged == Spec => MergedIsKept
  <1>1. ASSUME TypeOK, [Next]_vars PROVE [KeptByStep]_vars
    <2>1. CASE TakeResult
      <3>1. Head(results) \in Sources /\ projects \in Seq(Sources)
        BY <1>1, <2>1, TailRange DEF TypeOK, TakeResult
      <3>2. projects' = projects \/ projects' = Append(projects, Head(results))
        BY <2>1 DEF TakeResult, Merged
      <3>. QED  BY <2>1, <3>1, <3>2, PrefixKept DEF TakeResult, KeptByStep
    <2>2. CASE ~TakeResult
      <3>1. projects' = projects
        BY <1>1, <2>2
           DEF Next, Handler, vars, CollectResult, DrainResult, Reject, FanOut,
               CollectClosed, SelectDone, DrainEnd, CloseResults, SourceReturns,
               SendResult, DeadlineFires, ParentCancelled
      <3>2. reply' # reply /\ pc # "start" => reply'.from = projects
        BY <1>1, <2>2
           DEF Next, Handler, vars, CollectResult, DrainResult, Reject, FanOut,
               CollectClosed, SelectDone, DrainEnd, CloseResults, SourceReturns,
               SendResult, DeadlineFires, ParentCancelled, Return
      <3>. QED  BY <1>1, <3>1, <3>2, PrefixKept DEF TypeOK, KeptByStep
    <2>. QED  BY <2>1, <2>2
  <1>. QED  BY <1>1, TypeCorrect, PTL DEF MergedIsKept, Spec

-----------------------------------------------------------------------------
(* PersonaHandler implements PersonaReply: the initial states map to        *)
(* initial states and every step to a step of PersonaReply or to a stutter. *)

(* What a step of PersonaHandler that PersonaReply does not see leaves alone.*)
LEMMA Stutters ==
    ASSUME PhaseOf' = PhaseOf, AskedOf' = AskedOf,
           DeliveredOf' = DeliveredOf, Useful' = Useful,
           ctx' = ctx, OwedOf' = OwedOf, reply' = reply
    PROVE  UNCHANGED Abstract!vars
  BY DEF Abstract!vars, ExpiredOf, AnswerOf

LEMMA InitRefines == Init => Abstract!Init
  BY EmptyRange
     DEF Init, NoReply, Abstract!Init, PhaseOf, DeliveredOf, Useful, AskedOf,
         OwedOf, ExpiredOf, AnswerOf

LEMMA RejectRefines == ASSUME IInv, Reject PROVE Abstract!Reject
  <1>1. /\ PhaseOf = "new" /\ PhaseOf' = "rejected"
        /\ AskedOf = {} /\ AskedOf' = {}
    BY DEF Reject, PhaseOf, AskedOf
  <1>2. /\ DeliveredOf' = DeliveredOf
        /\ Useful' = Useful
        /\ AnswerOf' = {} /\ AnswerOf = {}
    BY EmptyRange
       DEF Reject, Return, DeliveredOf, Useful, AnswerOf, IInv, ReplyAtEnd, NoReply
  <1>3. \/ ctx' = ctx /\ OwedOf' = OwedOf
        \/ ctx = "live" /\ ctx' = "cancelled" /\ OwedOf' = Useful
    BY DEF Reject, Return, EndContext, OwedOf, Useful
  <1>. QED
    BY <1>1, <1>2, <1>3
       DEF Abstract!Reject, Abstract!MayExpire, ExpiredOf, AnswerOf

LEMMA FanOutRefines == ASSUME IInv, FanOut PROVE Abstract!Accept
  <1>1. PhaseOf = "new" /\ PhaseOf' = "waiting"
    BY DEF FanOut, PhaseOf
  <1>2. AskedOf' \in SUBSET Sources
    BY DEF FanOut, AskedOf, Launched
  <1>3. DeliveredOf = {} /\ DeliveredOf' = {}
    BY DEF FanOut, DeliveredOf, IInv, QuietBefore
  <1>4. Useful = {} /\ Useful' = {}
    BY <1>3 DEF Useful, DeliveredOf
  <1>5. OwedOf' = OwedOf /\ ctx' = ctx /\ reply' = reply
    BY DEF FanOut, OwedOf
  <1>. QED
    BY <1>1, <1>2, <1>3, <1>4, <1>5 DEF Abstract!Accept, ExpiredOf, AnswerOf

LEMMA SourceReturnsRefines ==
    ASSUME IInv, NEW s \in Sources, SourceReturns(s)
    PROVE  UNCHANGED Abstract!vars
  <1>1. /\ stage[s] = "running" /\ stage'[s] = "returned"
        /\ \A t \in Sources \ {s} : stage'[t] = stage[t] /\ outcome'[t] = outcome[t]
    BY DEF IInv, TypeOK, SourceReturns
  <1>2. atEnd[s] # "done"
    BY <1>1, RunningMeansUnfinished
  <1>3. /\ DeliveredOf' = DeliveredOf /\ Useful' = Useful
        /\ OwedOf' = OwedOf
    BY <1>1, <1>2 DEF DeliveredOf, Useful, OwedOf, SourceReturns
  <1>4. PhaseOf' = PhaseOf /\ AskedOf' = AskedOf
    BY DEF SourceReturns, PhaseOf, AskedOf, Launched
  <1>. QED  BY <1>3, <1>4, Stutters DEF SourceReturns

LEMMA SendResultRefines ==
    ASSUME IInv, NEW s \in Sources, SendResult(s) PROVE Abstract!Deliver(s)
  <1>1. /\ stage[s] = "returned" /\ stage'[s] = "done"
        /\ \A t \in Sources \ {s} : stage'[t] = stage[t]
    BY DEF IInv, TypeOK, SendResult
  <1>2. s \in AskedOf
    BY <1>1, RunningMeansUnfinished DEF AskedOf
  <1>3. s \notin DeliveredOf /\ DeliveredOf' = DeliveredOf \cup {s}
    BY <1>1 DEF DeliveredOf
  <1>4. Useful' \in {Useful, Useful \cup {s}}
    BY <1>1 DEF Useful, SendResult
  <1>5. /\ PhaseOf' = PhaseOf /\ AskedOf' = AskedOf
        /\ OwedOf' = OwedOf /\ ctx' = ctx /\ reply' = reply
    BY DEF SendResult, PhaseOf, AskedOf, Launched, OwedOf
  <1>. QED
    BY <1>2, <1>3, <1>4, <1>5 DEF Abstract!Deliver, ExpiredOf, AnswerOf

(* The collector's own steps are invisible until it replies.                *)
LEMMA QuietRefines ==
    ASSUME \/ CloseResults
           \/ TakeResult
           \/ SelectDone
    PROVE  UNCHANGED Abstract!vars
  <1>1. /\ UNCHANGED <<conf, stage, outcome, ctx, reply, atEnd>>
        /\ pc' = pc \/ (pc = "collecting" /\ pc' = "draining")
    BY DEF CloseResults, TakeResult, SelectDone
  <1>2. PhaseOf' = PhaseOf /\ AskedOf' = AskedOf
    BY <1>1 DEF PhaseOf, AskedOf, Launched
  <1>3. /\ DeliveredOf' = DeliveredOf /\ Useful' = Useful
        /\ OwedOf' = OwedOf
    BY <1>1 DEF DeliveredOf, Useful, OwedOf
  <1>. QED  BY <1>1, <1>2, <1>3, Stutters

LEMMA CollectClosedRefines ==
    ASSUME IInv, CollectClosed
    PROVE  Abstract!AnswerInFull \/ Abstract!AnswerInPart
  <1>1. \A s \in Launched : stage[s] = "done"
    BY DEF IInv, CollectClosed, ClosedLast, WaitOver
  <1>2. /\ DeliveredOf = Launched /\ AskedOf = Launched
        /\ AskedOf' = AskedOf /\ DeliveredOf' = DeliveredOf
        /\ Useful' = Useful
    BY <1>1, LaunchedAreSources
       DEF IInv, OnlyLaunched, CollectClosed, DeliveredOf, AskedOf, Launched,
           Useful
  <1>3. AnswerOf' = Useful
    <2>1. Range(results) = {} /\ reply'.from = projects
      BY EmptyRange DEF CollectClosed, Return
    <2>. QED  BY <2>1 DEF IInv, HandOver, AnswerOf
  <1>4. OwedOf \subseteq Useful
    BY DEF IInv, Snapshot, OwedOf, Useful
  <1>5. CASE ctx = "live"
    <2>1. PhaseOf = "waiting" /\ PhaseOf' = "complete"
      BY <1>5 DEF CollectClosed, Return, ClosedCode, PhaseOf
    <2>2. \/ ctx' = ctx /\ OwedOf' = OwedOf
          \/ ctx' = "cancelled" /\ OwedOf' = Useful
      BY <1>5 DEF CollectClosed, Return, EndContext, OwedOf, Useful
    <2>. QED
      BY <1>2, <1>3, <1>5, <2>1, <2>2
         DEF Abstract!AnswerInFull, Abstract!MayExpire, ExpiredOf, AnswerOf
  <1>6. CASE ctx # "live"
    <2>1. PhaseOf = "waiting" /\ PhaseOf' = "timed_out"
      BY <1>6 DEF CollectClosed, Return, ClosedCode, PhaseOf
    <2>2. ctx' = ctx /\ OwedOf' = OwedOf
      BY <1>6 DEF CollectClosed, Return, OwedOf
    <2>. QED
      BY <1>2, <1>3, <1>4, <1>6, <2>1, <2>2
         DEF Abstract!AnswerInPart, ExpiredOf, AnswerOf
  <1>. QED  BY <1>5, <1>6

LEMMA DrainEndRefines == ASSUME IInv, DrainEnd PROVE Abstract!AnswerInPart
  <1>1. /\ ctx # "live" /\ ctx' = ctx /\ OwedOf' = OwedOf
        /\ PhaseOf = "waiting" /\ PhaseOf' = "timed_out"
    BY DEF IInv, ReplyAtEnd, DrainEnd, Return, OwedOf, PhaseOf
  <1>2. /\ AskedOf' = AskedOf /\ DeliveredOf' = DeliveredOf
        /\ Useful' = Useful
    BY DEF DrainEnd, AskedOf, Launched, DeliveredOf, Useful
  <1>3. AnswerOf' = Useful
    <2>1. Range(results) = {} /\ reply'.from = projects
      BY EmptyRange DEF DrainEnd, DrainOver, Return
    <2>. QED  BY <2>1 DEF IInv, HandOver, AnswerOf
  <1>4. OwedOf \subseteq Useful
    BY DEF IInv, Snapshot, OwedOf, Useful
  <1>. QED
    BY <1>1, <1>2, <1>3, <1>4 DEF Abstract!AnswerInPart, ExpiredOf, AnswerOf

LEMMA ContextEndsRefines ==
    ASSUME DeadlineFires \/ ParentCancelled PROVE Abstract!Expire
  <1>1. /\ ctx = "live" /\ ctx' # "live" /\ atEnd' = stage
        /\ UNCHANGED <<conf, pc, stage, outcome, reply>>
    BY DEF DeadlineFires, ParentCancelled, EndContext
  <1>2. /\ PhaseOf' = PhaseOf /\ AskedOf' = AskedOf
        /\ DeliveredOf' = DeliveredOf /\ Useful' = Useful
        /\ OwedOf' = Useful
    BY <1>1 DEF PhaseOf, AskedOf, Launched, DeliveredOf, Useful, OwedOf
  <1>. QED
    BY <1>1, <1>2 DEF Abstract!Expire, ExpiredOf, AnswerOf

LEMMA UnchangedRefines == ASSUME UNCHANGED vars PROVE UNCHANGED Abstract!vars
  <1>1. /\ PhaseOf' = PhaseOf /\ AskedOf' = AskedOf
        /\ DeliveredOf' = DeliveredOf /\ Useful' = Useful
        /\ OwedOf' = OwedOf
    BY DEF vars, PhaseOf, AskedOf, Launched, DeliveredOf, Useful, OwedOf
  <1>. QED  BY <1>1, Stutters DEF vars

LEMMA StepRefines == IInv /\ [Next]_vars => [Abstract!Next]_(Abstract!vars)
  <1> SUFFICES ASSUME IInv, [Next]_vars PROVE Abstract!Next \/ UNCHANGED Abstract!vars
    OBVIOUS
  <1>1. CASE Reject
    BY <1>1, RejectRefines DEF Abstract!Next
  <1>2. CASE FanOut
    BY <1>2, FanOutRefines DEF Abstract!Next
  <1>3. CASE CollectClosed
    BY <1>3, CollectClosedRefines DEF Abstract!Next
  <1>4. CASE DrainEnd
    BY <1>4, DrainEndRefines DEF Abstract!Next
  <1>5. CASE CloseResults \/ TakeResult \/ SelectDone
    BY <1>5, QuietRefines
  <1>6. ASSUME NEW s \in Sources, SourceReturns(s) PROVE UNCHANGED Abstract!vars
    BY <1>6, SourceReturnsRefines
  <1>7. ASSUME NEW s \in Sources, SendResult(s) PROVE Abstract!Next
    BY <1>7, SendResultRefines DEF Abstract!Next
  <1>8. CASE DeadlineFires \/ ParentCancelled
    BY <1>8, ContextEndsRefines DEF Abstract!Next
  <1>9. CASE UNCHANGED vars
    BY <1>9, UnchangedRefines
  <1>. QED
    BY <1>1, <1>2, <1>3, <1>4, <1>5, <1>6, <1>7, <1>8, <1>9
       DEF Next, Handler, CollectResult, DrainResult

(* The handler, with its goroutines, channel, select and drain loop, gives  *)
(* only the answers the timeout contract allows.                            *)
THEOREM Refinement == Spec => ImplementsPersonaReply
  BY InitRefines, StepRefines, Invariance, PTL
     DEF Spec, ImplementsPersonaReply, Abstract!Spec
=============================================================================
