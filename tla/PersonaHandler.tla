--------------------------- MODULE PersonaHandler ---------------------------
(***************************************************************************)
(* One invocation of personaHandler.GetPersona                             *)
(* (internal/service/message_handler.go): validation, the fan-out to the   *)
(* enabled sources, the buffered results channel they write to, the        *)
(* goroutine that closes it, and the select loop that collects results     *)
(* until the channel is closed or the request's context ends.              *)
(*                                                                         *)
(* Five kinds of process interleave: the handler goroutine, one goroutine  *)
(* per launched source, the closer, the timer behind the context, and the  *)
(* owner of the parent context (main cancels it at shutdown).              *)
(*                                                                         *)
(* What a source finds is abstracted to the source's name: `projects' is   *)
(* the sequence of sources whose results have been merged, in merge order. *)
(* The project lists themselves are the subject of MergeProjects.          *)
(***************************************************************************)
EXTENDS Sequences, FiniteSets, Functions

CONSTANTS
    QuerySources,   \* the sources launched when there is a query client
    CDPRoles        \* the source launched when there is a CDP client

\* GetPersona launches five goroutines under `if h.queryClient != nil'.
ASSUME SourcesAssumption ==
    /\ IsFiniteSet(QuerySources)
    /\ Cardinality(QuerySources) <= 5
    /\ CDPRoles \notin QuerySources

Sources == QuerySources \cup {CDPRoles}

\* A request whose payload is not JSON, has a blank email, has a username
\* that isValidQueryUsername rejects, or passes every check.
Requests == {"malformed", "no_email", "bad_username", "valid"}
Stages   == {"off", "running", "returned", "done"}
Places   == {"start", "rejected", "collecting", "draining", "replied"}
Contexts == {"live", "deadline", "cancelled"}
Codes    == {"none", "invalid_request", "validation_error", "handler_timeout"}
NoReply  == [code |-> "pending", from |-> <<>>]

VARIABLES
    conf,       \* which clients the handler holds, and whether it has a timeout
    req,        \* the request being answered
    pc,         \* where the handler goroutine is
    stage,      \* stage[s]: where source s's goroutine is
    outcome,    \* outcome[s]: the error result of source s, once it returned
    results,    \* the buffered channel, as the sequence of its senders
    closed,     \* close(results) has run
    ctx,        \* the request's context, ctx.Err() = nil iff "live"
    projects,   \* sources merged so far, in merge order
    reply,      \* the PersonaResponse returned
    atEnd       \* history: `stage' when ctx ended; `stage' at Init before that

vars == <<conf, req, pc, stage, outcome, results, closed, ctx, projects,
          reply, atEnd>>

-----------------------------------------------------------------------------

\* make(chan sourceResult, 8)
Capacity_One == 1
ResultsCapacity == 8

Launched == {s \in Sources : IF s = CDPRoles THEN conf.cdp ELSE conf.query}

Init ==
    /\ conf \in [query : BOOLEAN, cdp : BOOLEAN, timeout : BOOLEAN]
    /\ req \in Requests
    /\ pc = "start"
    /\ stage = [s \in Sources |-> "off"]
    /\ outcome = [s \in Sources |-> "none"]
    /\ results = <<>>
    /\ closed = FALSE
    /\ ctx = "live"
    /\ projects = <<>>
    /\ reply = NoReply
    /\ atEnd = [s \in Sources |-> "off"]

EndContext(why) == ctx' = why /\ atEnd' = stage

(* GetPersona returns.  Its `defer cancel()' ends the context it derived   *)
(* for the timeout; without a timeout the context is its caller's.         *)
Return(code, from) ==
    /\ reply' = [code |-> code, from |-> from]
    /\ IF conf.timeout /\ ctx = "live"
         THEN EndContext("cancelled")
         ELSE UNCHANGED <<ctx, atEnd>>

RejectCode_Raw(r) == r
RejectCode(r) == IF r = "malformed" THEN "invalid_request" ELSE "validation_error"

Reject ==
    /\ pc = "start"
    /\ req # "valid"
    /\ Return(RejectCode(req), <<>>)
    /\ pc' = "rejected"
    /\ UNCHANGED <<conf, req, stage, outcome, results, closed, projects>>

(* Every wg.Add and every go statement; no result is looked at in between. *)
FanOut ==
    /\ pc = "start"
    /\ req = "valid"
    /\ stage' = [s \in Sources |-> IF s \in Launched THEN "running" ELSE "off"]
    /\ pc' = "collecting"
    /\ UNCHANGED <<conf, req, outcome, results, closed, ctx, projects, reply, atEnd>>

-----------------------------------------------------------------------------
(* The source goroutines and the closer.                                   *)

SourceReturns(s) ==
    /\ stage[s] = "running"
    /\ stage' = [stage EXCEPT ![s] = "returned"]
    /\ \E o \in {"ok", "err"} : outcome' = [outcome EXCEPT ![s] = o]
    /\ UNCHANGED <<conf, req, pc, results, closed, ctx, projects, reply, atEnd>>

(* The send blocks while the buffer is full; wg.Done() is deferred behind  *)
(* it.                                                                     *)
SendResult(s) ==
    /\ stage[s] = "returned"
    /\ Len(results) < ResultsCapacity
    /\ results' = Append(results, s)
    /\ stage' = [stage EXCEPT ![s] = "done"]
    /\ UNCHANGED <<conf, req, pc, outcome, closed, ctx, projects, reply, atEnd>>

(* wg.Wait() returns once every launched goroutine has run wg.Done().      *)
WaitOver_Early == \A s \in Launched : stage[s] \in {"returned", "done"}
WaitOver == \A s \in Launched : stage[s] = "done"

CloseResults ==
    /\ pc \notin {"start", "rejected"}
    /\ ~closed
    /\ WaitOver
    /\ closed' = TRUE
    /\ UNCHANGED <<conf, req, pc, stage, outcome, results, ctx, projects,
                   reply, atEnd>>

-----------------------------------------------------------------------------
(* The collecting loop.  A select with both cases ready picks either one.  *)

Merged_WithErrors(s) == Append(projects, s)
Merged_Overwrites(s) == IF outcome[s] = "ok" THEN <<s>> ELSE projects
Merged(s) == IF outcome[s] = "ok" THEN Append(projects, s) ELSE projects

TakeResult ==
    /\ results # <<>>
    /\ results' = Tail(results)
    /\ projects' = Merged(Head(results))
    /\ UNCHANGED <<conf, req, pc, stage, outcome, closed, ctx, reply, atEnd>>

CollectResult == pc = "collecting" /\ TakeResult

(* The channel is closed and empty: ok = FALSE.  ctx.Err() is read again.  *)
ClosedCode_NoRecheck == "none"
ClosedCode == IF ctx = "live" THEN "none" ELSE "handler_timeout"

CollectClosed ==
    /\ pc = "collecting"
    /\ closed
    /\ results = <<>>
    /\ Return(ClosedCode, projects)
    /\ pc' = "replied"
    /\ UNCHANGED <<conf, req, stage, outcome, results, closed, projects>>

SelectDone_Never == FALSE /\ UNCHANGED vars
SelectDone ==
    /\ pc = "collecting"
    /\ ctx # "live"
    /\ pc' = "draining"
    /\ UNCHANGED <<conf, req, stage, outcome, results, closed, ctx, projects,
                   reply, atEnd>>

DrainResult == pc = "draining" /\ TakeResult

(* `default' or a closed channel: nothing is buffered any more.            *)
DrainOver_AtOnce == TRUE
DrainOver == results = <<>>

DrainEnd ==
    /\ pc = "draining"
    /\ DrainOver
    /\ Return("handler_timeout", projects)
    /\ pc' = "replied"
    /\ UNCHANGED <<conf, req, stage, outcome, results, closed, projects>>

-----------------------------------------------------------------------------
(* The context.                                                            *)

DeadlineFires ==
    /\ conf.timeout
    /\ ctx = "live"
    /\ EndContext("deadline")
    /\ UNCHANGED <<conf, req, pc, stage, outcome, results, closed, projects, reply>>

(* main's cancel(), or whoever owns the context GetPersona was called with *)
ParentCancelled ==
    /\ ctx = "live"
    /\ EndContext("cancelled")
    /\ UNCHANGED <<conf, req, pc, stage, outcome, results, closed, projects, reply>>

-----------------------------------------------------------------------------

Handler ==
    \/ Reject
    \/ FanOut
    \/ CollectResult
    \/ CollectClosed
    \/ SelectDone
    \/ DrainResult
    \/ DrainEnd

Next ==
    \/ Handler
    \/ CloseResults
    \/ \E s \in Sources : SourceReturns(s) \/ SendResult(s)
    \/ DeadlineFires
    \/ ParentCancelled

Spec == Init /\ [][Next]_vars

-----------------------------------------------------------------------------
(* Fairness.  The Go scheduler runs every goroutine that can run and timers *)
(* fire.  An upstream owes no answer, but every call a source makes (HTTP,  *)
(* token, KV, NATS) takes the request's context, so a source returns once   *)
(* that context has ended.                                                  *)

ReplyFairness ==
    /\ WF_vars(Handler)
    /\ WF_vars(DeadlineFires)

FairSpec == Spec /\ ReplyFairness

SourceFairness ==
    /\ WF_vars(CloseResults)
    /\ \A s \in Sources : /\ WF_vars(SendResult(s))
                          /\ WF_vars(ctx # "live" /\ SourceReturns(s))

-----------------------------------------------------------------------------
(* Properties.                                                              *)

(* Every variable stays in its domain; the channel never holds more than    *)
(* its buffer (make(chan sourceResult, 8)).                                 *)
TypeOK ==
    /\ conf \in [query : BOOLEAN, cdp : BOOLEAN, timeout : BOOLEAN]
    /\ req \in Requests
    /\ pc \in Places
    /\ stage \in [Sources -> Stages]
    /\ outcome \in [Sources -> {"none", "ok", "err"}]
    /\ results \in Seq(Sources) /\ Len(results) <= ResultsCapacity
    /\ closed \in BOOLEAN
    /\ ctx \in Contexts
    /\ projects \in Seq(Sources)
    /\ reply \in [code : Codes \cup {"pending"}, from : Seq(Sources)]
    /\ atEnd \in [Sources -> Stages]

Useful == {s \in Sources : stage[s] = "done" /\ outcome[s] = "ok"}

(* A result that was queued and had no error is in exactly one place until  *)
(* the reply is built: still buffered, or merged, and never in either twice *)
(* (the collect and the drain loop hand over without dropping or repeating).*)
NoResultLost ==
    pc \in {"collecting", "draining"} =>
        /\ \A s \in Useful : (s \in Range(results)) # (s \in Range(projects))
        /\ IsInjective(results) /\ IsInjective(projects)
        /\ Range(projects) \subseteq Useful

(* A reply without an error code is complete: every launched source had     *)
(* returned and been queued while the context was still live, so none of    *)
(* them was cut short by the deadline, and the reply carries exactly the    *)
(* sources that did not fail.                                               *)
SuccessIsComplete ==
    reply.code = "none" =>
        /\ \A s \in Launched : (IF ctx = "live" THEN stage ELSE atEnd)[s] = "done"
        /\ Range(reply.from) = {s \in Launched : outcome[s] = "ok"}

(* A handler_timeout reply is sent only when the context has ended, and it  *)
(* carries every result without error that was queued before that moment    *)
(* ("Sources that completed before the deadline must be in the partial      *)
(* response", message_handler_test.go).                                     *)
TimeoutKeepsFinished ==
    reply.code = "handler_timeout" =>
        /\ ctx # "live"
        /\ \A s \in Sources :
               atEnd[s] = "done" /\ outcome[s] = "ok" => s \in Range(reply.from)
        /\ Range(reply.from) \subseteq Useful

(* The closer runs behind every send: no goroutine can still send on the    *)
(* closed channel, which would panic the process.                           *)
NoSendAfterClose ==
    closed => \A s \in Sources : stage[s] \in {"off", "done"}

(* A source goroutine never blocks on its send, even when the handler has   *)
(* already returned and nothing will ever be received again.                *)
SendNeverBlocks ==
    \A s \in Sources : stage[s] = "returned" => Len(results) < ResultsCapacity

(* What was merged stays merged and in place: the response only ever grows  *)
(* at its end, and a reply is built from all of it.                         *)
KeptByStep ==
    /\ SubSeq(projects', 1, Len(projects)) = projects
    /\ reply' # reply /\ pc # "start" => reply'.from = projects

MergedIsKept == [][KeptByStep]_vars

(* A request that nothing could be found out about carries an error         *)
(* (ARCHITECTURE.md, "On a hard failure ... the response carries a non-null *)
(* error object").                                                          *)
HardFailureIsAnError ==
    reply.code = "none" /\ Launched # {} => \E s \in Launched : outcome[s] = "ok"

(* With a handler timeout every request is answered, even if no source ever *)
(* returns: hung upstreams do not hold the reply back.                      *)
AlwaysReplies == conf.timeout => <>(pc \in {"replied", "rejected"})

(* No goroutine is left behind: after the fan-out every source goroutine    *)
(* ends and the closer closes the channel, also when the handler returned   *)
(* early and abandoned the channel.  Unlike the reply, this needs sources   *)
(* that return.                                                             *)
NoGoroutineLeak ==
    SourceFairness /\ conf.timeout /\ req = "valid" =>
        <>(closed /\ \A s \in Sources : stage[s] \in {"off", "done"})

=============================================================================
