-------------------------- MODULE ServiceLifecycle --------------------------
(***************************************************************************)
(* The life of one process (cmd/server/main.go, http.go and                *)
(* service/providers.go): main sets telemetry up (pkg/utils/otel.go),      *)
(* starts a signal goroutine and the HTTP server, connects to NATS, builds *)
(* the handler from the configuration and subscribes, then waits on errc   *)
(* for a reason to stop, and shuts telemetry down when it returns.         *)
(*                                                                         *)
(* errc is a channel with one buffer, three senders and one receive.       *)
(***************************************************************************)
EXTENDS Naturals, Sequences, Functions

VARIABLES
    conf,       \* the environment: which credential groups are complete
    pc,         \* where main is; "killed": ended without its deferred calls
    telemetry,  \* shutdownFuncs: the OpenTelemetry providers that run
    errc,       \* contents of the channel errc
    sig,        \* the signal goroutine
    http,       \* the goroutine of the HTTP server
    nats,       \* the NATS connection
    probe,      \* the health service has a NATS client to ask
    handler,    \* what the handler was built with
    subscribed  \* the subscription exists

vars == <<conf, pc, telemetry, errc, sig, http, nats, probe, handler, subscribed>>

(* query: QUERY_SERVICE_URL, LFX_BASE_URL with LFX_AUDIENCE, or neither;     *)
(* m2m: the three AUTH0 variables; key: the private key parses;              *)
(* cdp: CDP_AUDIENCE and CDP_BASE_URL.                                       *)
Configurations ==
    [query : {"direct", "gateway", "none"}, m2m : BOOLEAN, key : BOOLEAN, cdp : BOOLEAN]

Providers == <<"traces", "metrics", "logs">>

Sending == {"signal", "http", "subscriptions"}

ErrcCapacity_None == 0
ErrcCapacity == 1

-----------------------------------------------------------------------------

Init ==
    /\ conf \in Configurations
    /\ pc = "setup"
    /\ telemetry = <<>>
    /\ errc = <<>>
    /\ sig = "off" /\ http = "off" /\ nats = "none"
    /\ probe = FALSE
    /\ handler = [query |-> FALSE, resolver |-> FALSE, cdp |-> FALSE]
    /\ subscribed = FALSE

Running == pc \notin {"exited", "killed"}

(* A send goes to the buffer, or to main when it is receiving.              *)
Room == Len(errc) < ErrcCapacity \/ (errc = <<>> /\ pc = "waiting")

Send(reason) == Room /\ errc' = Append(errc, reason)

-----------------------------------------------------------------------------
(* main                                                                     *)

(* SetupOTelSDK: one provider after the other.                              *)
StartProvider ==
    /\ pc = "setup"
    /\ telemetry' = Append(telemetry, Providers[Len(telemetry) + 1])
    /\ pc' = IF Len(telemetry') = Len(Providers) THEN "starting" ELSE "setup"
    /\ UNCHANGED <<conf, errc, sig, http, nats, probe, handler, subscribed>>

(* The resource or an exporter cannot be made: handleErr shuts down what    *)
(* runs already, then main calls os.Exit.                                   *)
SetupFails_NoShutdown ==
    /\ pc = "setup"
    /\ pc' = "exited"
    /\ UNCHANGED <<conf, telemetry, errc, sig, http, nats, probe, handler, subscribed>>

SetupFails ==
    /\ pc = "setup"
    /\ pc' = "undoing"
    /\ UNCHANGED <<conf, telemetry, errc, sig, http, nats, probe, handler, subscribed>>

(* NewPersonaService takes the NATS client there is at that moment; then    *)
(* the signal goroutine and the HTTP server start.                          *)
NewPersonaService ==
    /\ pc = "starting"
    /\ probe' = (nats # "none")
    /\ sig' = "unregistered" /\ http' = "starting" /\ pc' = "connecting"
    /\ UNCHANGED <<conf, telemetry, errc, nats, handler, subscribed>>

(* natsInit connects, or ends the process (log.Fatalf).                     *)
NatsInit ==
    /\ pc = "connecting"
    /\ \/ nats' = "connected" /\ pc' = "subscribing"
       \/ pc' = "killed" /\ UNCHANGED nats
    /\ UNCHANGED <<conf, telemetry, errc, sig, http, probe, handler, subscribed>>

(* newQueryClient: nothing but an address for a direct URL, a token         *)
(* provider for the gateway; an error only disables the group.              *)
QueryClient ==
    \/ conf.query = "direct"
    \/ conf.query = "gateway" /\ conf.m2m /\ conf.key

CDPEnabled == conf.m2m /\ conf.cdp
CDPClient == CDPEnabled /\ conf.key

(* QueueSubscriptions, after natsInit.  Only WithQueryService hands the     *)
(* handler the NATS client it resolves project slugs with.                  *)
BuildHandler ==
    handler' = [query |-> QueryClient, resolver |-> QueryClient, cdp |-> CDPClient]

Subscribe ==
    /\ pc = "subscribing" /\ nats = "connected"
    /\ BuildHandler
    /\ subscribed' = TRUE /\ pc' = "waiting"
    /\ UNCHANGED <<conf, telemetry, errc, sig, http, nats, probe>>

(* The connection was lost again: IsReady refuses the subscription.         *)
SubscribeFails_Ignored ==
    /\ pc = "subscribing" /\ nats # "connected"
    /\ BuildHandler
    /\ pc' = "waiting"
    /\ UNCHANGED <<conf, telemetry, errc, sig, http, nats, probe, subscribed>>

SubscribeFails ==
    /\ pc = "subscribing" /\ nats # "connected"
    /\ BuildHandler
    /\ pc' = "sending"
    /\ UNCHANGED <<conf, telemetry, errc, sig, http, nats, probe, subscribed>>

SendFailure ==
    /\ pc = "sending"
    /\ Send("subscriptions")
    /\ pc' = "waiting"
    /\ UNCHANGED <<conf, telemetry, sig, http, nats, probe, handler, subscribed>>

(* <-errc, then cancel().                                                   *)
Receive ==
    /\ pc = "waiting" /\ errc # <<>>
    /\ errc' = Tail(errc)
    /\ pc' = "stopping"
    /\ UNCHANGED <<conf, telemetry, sig, http, nats, probe, handler, subscribed>>

(* wg.Wait, which counts only the HTTP server's goroutine, has returned or  *)
(* gracefulShutdownSeconds have passed.  Requests in progress are not       *)
(* waited for.  Then the deferred otelShutdown begins.                      *)
Return ==
    /\ pc = "stopping"
    /\ pc' = "flushing"
    /\ UNCHANGED <<conf, telemetry, errc, sig, http, nats, probe, handler, subscribed>>

(* shutdown: each provider in turn, whether or not its exporter answers     *)
(* before the context ends.                                                 *)
EndProvider ==
    /\ pc \in {"undoing", "flushing"} /\ telemetry # <<>>
    /\ telemetry' = Tail(telemetry)
    /\ UNCHANGED <<conf, pc, errc, sig, http, nats, probe, handler, subscribed>>

Exit ==
    /\ pc \in {"undoing", "flushing"} /\ telemetry = <<>>
    /\ pc' = "exited"
    /\ UNCHANGED <<conf, telemetry, errc, sig, http, nats, probe, handler, subscribed>>

-----------------------------------------------------------------------------
(* the signal goroutine                                                     *)

RegisterSignals ==
    /\ Running /\ sig = "unregistered"
    /\ sig' = "registered"
    /\ UNCHANGED <<conf, telemetry, pc, errc, http, nats, probe, handler, subscribed>>

(* SIGTERM or SIGINT: before signal.Notify it ends the process.             *)
Signal ==
    /\ Running
    /\ \/ sig \in {"off", "unregistered"} /\ pc' = "killed" /\ UNCHANGED sig
       \/ sig = "registered" /\ sig' = "sending" /\ UNCHANGED pc
    /\ UNCHANGED <<conf, telemetry, errc, http, nats, probe, handler, subscribed>>

SendSignal ==
    /\ Running /\ sig = "sending"
    /\ Send("signal")
    /\ sig' = "done"
    /\ UNCHANGED <<conf, telemetry, pc, http, nats, probe, handler, subscribed>>

-----------------------------------------------------------------------------
(* the HTTP server                                                          *)

Listen ==
    /\ Running /\ http = "starting"
    /\ http' = "listening"
    /\ UNCHANGED <<conf, telemetry, pc, errc, sig, nats, probe, handler, subscribed>>

(* ListenAndServe returns an error (the port is taken).                     *)
ListenFails ==
    /\ Running /\ http \in {"starting", "listening"}
    /\ http' = "failing"
    /\ UNCHANGED <<conf, telemetry, pc, errc, sig, nats, probe, handler, subscribed>>

SendHTTPError ==
    /\ Running /\ http = "failing"
    /\ Send("http")
    /\ http' = "ended"
    /\ UNCHANGED <<conf, telemetry, pc, sig, nats, probe, handler, subscribed>>

(* ctx.Done() leads to srv.Shutdown, and ListenAndServe returns             *)
(* ErrServerClosed.                                                         *)
Shutdown ==
    /\ pc \in {"stopping", "flushing"} /\ http \in {"starting", "listening"}
    /\ http' = "ended"
    /\ UNCHANGED <<conf, telemetry, pc, errc, sig, nats, probe, handler, subscribed>>

(* GET /readyz                                                              *)
Readyz == probe => nats = "connected"

-----------------------------------------------------------------------------
(* the connection: nats.go reconnects, and subscribes again, at most        *)
(* NATS_MAX_RECONNECT times; then the connection is closed for good and     *)
(* the ClosedHandler only logs.                                             *)

Connection ==
    /\ Running
    /\ \/ nats = "connected" /\ nats' = "reconnecting"
       \/ nats = "reconnecting" /\ nats' \in {"connected", "closed"}
    /\ UNCHANGED <<conf, telemetry, pc, errc, sig, http, probe, handler, subscribed>>

-----------------------------------------------------------------------------

Main ==
    \/ StartProvider
    \/ SetupFails
    \/ NewPersonaService
    \/ NatsInit
    \/ Subscribe
    \/ SubscribeFails
    \/ SendFailure
    \/ Receive
    \/ Return
    \/ EndProvider
    \/ Exit

Next ==
    \/ Main
    \/ RegisterSignals \/ Signal \/ SendSignal
    \/ Listen \/ ListenFails \/ SendHTTPError \/ Shutdown
    \/ Connection

Spec == Init /\ [][Next]_vars

(* Goroutines that can run do, nats.Timeout bounds connecting, and the      *)
(* grace period ends.  Signals, HTTP errors and what becomes of the         *)
(* connection are not owed.                                                 *)
FairSpec ==
    /\ Spec
    /\ WF_vars(Main) /\ WF_vars(RegisterSignals) /\ WF_vars(SendSignal)
    /\ WF_vars(SendHTTPError) /\ WF_vars(Shutdown)

-----------------------------------------------------------------------------
(* Properties.                                                              *)

(* Every variable stays in its domain.                                      *)
TypeOK ==
    /\ conf \in Configurations
    /\ pc \in {"setup", "undoing", "starting", "connecting", "subscribing", "sending",
               "waiting", "stopping", "flushing", "exited", "killed"}
    /\ telemetry \in Seq(Range(Providers)) /\ Len(telemetry) <= Len(Providers)
    /\ errc \in Seq(Sending) /\ Len(errc) <= ErrcCapacity
    /\ sig \in {"off", "unregistered", "registered", "sending", "done"}
    /\ http \in {"off", "starting", "listening", "failing", "ended"}
    /\ nats \in {"none", "connected", "reconnecting", "closed"}
    /\ probe \in BOOLEAN /\ subscribed \in BOOLEAN
    /\ handler \in [query : BOOLEAN, resolver : BOOLEAN, cdp : BOOLEAN]

(* main blocks in its own send: errc already holds another reason to stop,  *)
(* which only main would receive.                                           *)
Stuck == pc = "sending" /\ errc # <<>>

Reason == sig \in {"sending", "done"} \/ http = "failing" \/ pc = "sending"

(* Every reason to stop (a signal, an HTTP server that fails, a             *)
(* subscription that fails) ends the process, however it races with the     *)
(* others and with the startup; the one exception is a failed subscription  *)
(* that finds errc full.                                                    *)
StopsUnlessStuck == Reason ~> (~Running \/ Stuck)

(* A process without a subscription is not left waiting: the failure is on  *)
(* its way to stop it.                                                      *)
NeverIdle == pc = "waiting" /\ ~subscribed => errc # <<>>

(* The HTTP goroutine, which wg.Wait waits for, is blocked in its send      *)
(* (http.go:80): shutdown then takes the whole grace period.                *)
HeldUp == pc = "stopping" /\ http = "failing" /\ ~Room

(* Shutdown is held up so in one case only: the subscription failed, main   *)
(* received that failure, and a signal came after it and fills errc, which  *)
(* nobody receives any more.  A process that had subscribed never is: once  *)
(* main has taken its one value there is room for the other sender.         *)
HeldUpOnlyUnsubscribed == HeldUp => ~subscribed /\ errc = <<"signal">>

(* A process that ends by itself has shut down every provider it started,   *)
(* also when the set-up failed half-way and main never got to its defer,    *)
(* and whatever else was still going on.                                    *)
TelemetryEnds == pc = "exited" => telemetry = <<>>

(* `/readyz: Readiness -- NATS connection is healthy' (README.md).          *)
ReadyMeansConnected == http = "listening" /\ Running /\ Readyz => nats = "connected"

(* `All five CDP/Auth0 variables must be present to enable cdp_roles'       *)
(* (README.md): with all five, and a valid key, the source can return       *)
(* something, for which it has to resolve slugs.                            *)
CDPGroupEnablesRoles == subscribed /\ CDPEnabled /\ conf.key => handler.cdp /\ handler.resolver
=============================================================================
