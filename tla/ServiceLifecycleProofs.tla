----------------------- MODULE ServiceLifecycleProofs -----------------------
(***************************************************************************)
(* Proofs about ServiceLifecycle, for every configuration.  errc is the    *)
(* hard part: what is in it depends on which of its senders have sent, and *)
(* main takes one value only.                                              *)
(***************************************************************************)
EXTENDS ServiceLifecycle, SequenceTheorems, TLAPS

-----------------------------------------------------------------------------
(* The inductive invariant.                                                 *)

SettingUp == pc = "setup" => Len(telemetry) < Len(Providers)

Early == pc \in {"setup", "undoing", "starting", "connecting", "subscribing", "sending"}

Quiet ==
    pc \in {"setup", "undoing", "starting"} => sig = "off" /\ http = "off" /\ errc = <<>>

NotYetSubscribed == Early => ~subscribed

(* Unless the subscription failed, what is in errc comes from the signal    *)
(* goroutine or from the HTTP server's.                                     *)
FromSignal ==
    (Early \/ (subscribed /\ pc = "waiting")) /\ http # "ended" /\ errc # <<>> => sig = "done"

(* So if the HTTP server's goroutine has sent nothing, main has taken the   *)
(* signal, and nothing is left.                                             *)
SignalTaken ==
    subscribed /\ pc \in {"stopping", "flushing"} /\ http # "ended" =>
        sig = "done" /\ errc = <<>>

(* The HTTP server's value is sent by a goroutine that then ends, and the    *)
(* failed subscription's lies in errc only until main receives it.           *)
SentBy ==
    errc # <<>> =>
        /\ errc[1] = "http" => http = "ended"
        /\ errc[1] = "subscriptions" => pc \in {"waiting", "killed"}
        /\ pc = "waiting" /\ ~subscribed => errc[1] = "subscriptions"

IInv ==
    /\ TypeOK
    /\ SettingUp
    /\ Quiet
    /\ NotYetSubscribed
    /\ FromSignal
    /\ SignalTaken
    /\ SentBy
    /\ NeverIdle
    /\ TelemetryEnds

-----------------------------------------------------------------------------

(* A send puts one value into a channel that was empty.                     *)
LEMMA SendFills ==
    ASSUME TypeOK, NEW reason \in Sending, Send(reason)
    PROVE  errc = <<>> /\ errc' = <<reason>>
<1>1. errc \in Seq(Sending) /\ Len(errc) <= 1
  BY DEF TypeOK, ErrcCapacity
<1>2. errc = <<>>
  BY <1>1 DEF Send, Room, ErrcCapacity
<1>. QED  BY <1>2 DEF Send

(* A channel that is full holds one value.                                   *)
LEMMA OneValue ==
    ASSUME NEW S, NEW s \in Seq(S), Len(s) = 1
    PROVE  s # <<>> /\ s[1] \in S /\ s = <<s[1]>>
<1>1. s[1] \in S
  BY LenProperties
<1>2. s # <<>>
  OBVIOUS
<1>3. <<s[1]>> \in Seq(S) /\ Len(<<s[1]>>) = 1 /\ <<s[1]>>[1] = s[1]
  BY <1>1
<1>4. s = <<s[1]>>
  BY <1>3, SeqEqual
<1>. QED  BY <1>1, <1>2, <1>4

(* The initial states satisfy the invariant.                                *)
LEMMA InitInv == Init => IInv
<1>. SUFFICES ASSUME Init PROVE IInv
  OBVIOUS
<1>1. TypeOK
  <2>1. telemetry \in Seq(Range(Providers)) /\ Len(telemetry) <= Len(Providers)
    BY DEF Init, Providers
  <2>2. errc \in Seq(Sending) /\ Len(errc) <= ErrcCapacity
    BY DEF Init, ErrcCapacity
  <2>. QED  BY <2>1, <2>2 DEF Init, TypeOK
<1>. QED
  BY <1>1 DEF Init, IInv, SettingUp, Early, Quiet, NotYetSubscribed, FromSignal, SignalTaken, SentBy,
              NeverIdle, TelemetryEnds, Providers

(* Telemetry is set up and shut down.                                       *)
LEMMA TelemetryKeeps ==
    ASSUME IInv, StartProvider \/ SetupFails \/ EndProvider \/ Exit \/ Return
    PROVE  IInv'
<1>. USE DEF IInv, SettingUp, Early, Quiet, NotYetSubscribed, FromSignal, SignalTaken, SentBy,
             NeverIdle, TelemetryEnds
<1>1. CASE StartProvider
  <2>1. Len(telemetry) \in Nat /\ Len(telemetry) < 3 /\ telemetry \in Seq(Range(Providers))
    BY <1>1 DEF StartProvider, TypeOK, Providers
  <2>2. Providers[Len(telemetry) + 1] \in Range(Providers)
    BY <2>1 DEF Providers, Range
  <2>3. /\ telemetry' \in Seq(Range(Providers))
        /\ Len(telemetry') = Len(telemetry) + 1
    BY <1>1, <2>1, <2>2 DEF StartProvider
  <2>4. TypeOK'
    BY <1>1, <2>1, <2>3 DEF StartProvider, TypeOK, Providers
  <2>. QED  BY <1>1, <2>1, <2>3, <2>4 DEF StartProvider, Providers
<1>2. CASE SetupFails
  BY <1>2 DEF SetupFails, TypeOK
<1>3. CASE EndProvider
  <2>1. telemetry \in Seq(Range(Providers)) /\ telemetry # <<>>
    BY <1>3 DEF EndProvider, TypeOK
  <2>2. /\ telemetry' \in Seq(Range(Providers))
        /\ Len(telemetry') = Len(telemetry) - 1 /\ Len(telemetry) \in Nat
    BY <1>3, <2>1 DEF EndProvider
  <2>3. TypeOK'
    BY <1>3, <2>2 DEF EndProvider, TypeOK, Providers
  <2>. QED  BY <1>3, <2>3 DEF EndProvider
<1>4. CASE Exit
  BY <1>4 DEF Exit, TypeOK
<1>5. CASE Return
  BY <1>5 DEF Return, TypeOK
<1>. QED  BY <1>1, <1>2, <1>3, <1>4, <1>5

(* main starts, connects and subscribes.                                    *)
LEMMA StartKeeps ==
    ASSUME IInv, NewPersonaService \/ NatsInit \/ Subscribe \/ SubscribeFails
    PROVE  IInv'
<1>. USE DEF IInv, SettingUp, Early, Quiet, NotYetSubscribed, FromSignal, SignalTaken, SentBy,
             NeverIdle, TelemetryEnds
<1>1. CASE NewPersonaService
  <2>1. TypeOK'
    BY <1>1 DEF NewPersonaService, TypeOK
  <2>2. pc = "starting" /\ pc' = "connecting" /\ UNCHANGED <<telemetry, errc, subscribed>>
    BY <1>1 DEF NewPersonaService
  <2>. QED  BY <2>1, <2>2
<1>2. CASE NatsInit
  <2>1. TypeOK'
    BY <1>2 DEF NatsInit, TypeOK
  <2>. QED  BY <1>2, <2>1 DEF NatsInit
<1>3. TypeOK /\ BuildHandler => handler' \in [query : BOOLEAN, resolver : BOOLEAN, cdp : BOOLEAN]
  BY DEF TypeOK, BuildHandler, QueryClient, CDPClient, CDPEnabled, Configurations
<1>4. CASE Subscribe
  <2>1. TypeOK'
    BY <1>4, <1>3 DEF Subscribe, TypeOK
  <2>. QED  BY <1>4, <1>3, <2>1 DEF Subscribe
<1>5. CASE SubscribeFails
  <2>1. TypeOK'
    BY <1>5, <1>3 DEF SubscribeFails, TypeOK
  <2>. QED  BY <1>5, <1>3, <2>1 DEF SubscribeFails
<1>. QED  BY <1>1, <1>2, <1>4, <1>5

(* The sends to errc and main's receive.                                    *)
LEMMA ErrcKeeps ==
    ASSUME IInv, SendFailure \/ SendSignal \/ SendHTTPError \/ Receive
    PROVE  IInv'
<1>. USE DEF IInv, SettingUp, Early, Quiet, NotYetSubscribed, FromSignal, SignalTaken, SentBy,
             NeverIdle, TelemetryEnds
<1>1. ASSUME NEW reason \in Sending, Send(reason)
      PROVE  /\ errc = <<>> /\ errc' \in Seq(Sending) /\ Len(errc') = 1 /\ errc' # <<>>
             /\ errc'[1] = reason
  <2>1. errc = <<>> /\ errc' = <<reason>>
    BY <1>1, SendFills
  <2>. QED  BY <2>1
<1>2. CASE SendFailure
  <2>1. Send("subscriptions")
    BY <1>2 DEF SendFailure
  <2>2. /\ errc = <<>> /\ errc' \in Seq(Sending) /\ Len(errc') = 1 /\ errc' # <<>>
        /\ errc'[1] = "subscriptions"
    BY <1>1, <2>1 DEF Sending
  <2>3. TypeOK'
    BY <1>2, <2>2 DEF SendFailure, TypeOK, ErrcCapacity
  <2>. QED  BY <1>2, <2>2, <2>3 DEF SendFailure
<1>3. CASE SendSignal
  <2>1. Send("signal")
    BY <1>3 DEF SendSignal
  <2>2. /\ errc = <<>> /\ errc' \in Seq(Sending) /\ Len(errc') = 1 /\ errc' # <<>>
        /\ errc'[1] = "signal"
    BY <1>1, <2>1 DEF Sending
  <2>3. TypeOK'
    BY <1>3, <2>2 DEF SendSignal, TypeOK, ErrcCapacity
  <2>. QED  BY <1>3, <2>2, <2>3 DEF SendSignal, Running
<1>4. CASE SendHTTPError
  <2>1. Send("http")
    BY <1>4 DEF SendHTTPError
  <2>2. /\ errc = <<>> /\ errc' \in Seq(Sending) /\ Len(errc') = 1 /\ errc' # <<>>
        /\ errc'[1] = "http"
    BY <1>1, <2>1 DEF Sending
  <2>3. TypeOK'
    BY <1>4, <2>2 DEF SendHTTPError, TypeOK, ErrcCapacity
  <2>. QED  BY <1>4, <2>2, <2>3 DEF SendHTTPError, Running
<1>5. CASE Receive
  <2>1. errc \in Seq(Sending) /\ Len(errc) <= 1 /\ errc # <<>>
    BY <1>5 DEF Receive, TypeOK, ErrcCapacity
  <2>2. errc' = <<>>
    BY <1>5, <2>1 DEF Receive
  <2>. QED  BY <1>5, <2>2 DEF Receive, TypeOK, ErrcCapacity
<1>. QED  BY <1>2, <1>3, <1>4, <1>5

(* The signal goroutine, the HTTP server and the connection.                *)
LEMMA OthersKeep ==
    ASSUME IInv,
           RegisterSignals \/ Signal \/ Listen \/ ListenFails \/ Shutdown \/ Connection
    PROVE  IInv'
<1>. USE DEF IInv, TypeOK, SettingUp, Early, Quiet, NotYetSubscribed, FromSignal,
             SignalTaken, SentBy, NeverIdle, TelemetryEnds, Running
<1>1. CASE RegisterSignals
  BY <1>1 DEF RegisterSignals
<1>2. CASE Signal
  BY <1>2 DEF Signal
<1>3. CASE Listen
  BY <1>3 DEF Listen
<1>4. CASE ListenFails
  BY <1>4 DEF ListenFails
<1>5. CASE Shutdown
  BY <1>5 DEF Shutdown
<1>6. CASE Connection
  BY <1>6 DEF Connection
<1>. QED  BY <1>1, <1>2, <1>3, <1>4, <1>5, <1>6

(* Every step keeps the invariant.                                          *)
LEMMA NextInv == IInv /\ [Next]_vars => IInv'
<1>. SUFFICES ASSUME IInv, [Next]_vars PROVE IInv'
  OBVIOUS
<1>1. CASE UNCHANGED vars
  BY <1>1 DEF vars, IInv, TypeOK, SettingUp, Early, Quiet, NotYetSubscribed, FromSignal, SignalTaken, SentBy,
              NeverIdle, TelemetryEnds
<1>2. CASE Next
  BY <1>2, TelemetryKeeps, StartKeeps, ErrcKeeps, OthersKeep DEF Next, Main
<1>. QED  BY <1>1, <1>2

(* Every reachable state satisfies the invariant.                           *)
THEOREM Invariance == Spec => []IInv
  BY InitInv, NextInv, PTL DEF Spec

-----------------------------------------------------------------------------

(* Every variable stays in its domain.                                      *)
THEOREM TypeCorrect == Spec => []TypeOK
<1>1. IInv => TypeOK
  BY DEF IInv
<1>. QED  BY <1>1, Invariance, PTL

(* A process without a subscription is not left waiting.                    *)
THEOREM NotLeftWaiting == Spec => []NeverIdle
<1>1. IInv => NeverIdle
  BY DEF IInv
<1>. QED  BY <1>1, Invariance, PTL

(* Shutdown is held up by the HTTP goroutine's send only when the           *)
(* subscription failed and a signal follows.                                *)
THEOREM HeldUpCase == Spec => []HeldUpOnlyUnsubscribed
<1>1. IInv => HeldUpOnlyUnsubscribed
  <2>. SUFFICES ASSUME IInv, HeldUp PROVE ~subscribed /\ errc = <<"signal">>
    BY DEF HeldUpOnlyUnsubscribed
  <2>1. errc \in Seq(Sending) /\ Len(errc) = 1
    <3>1. errc \in Seq(Sending) /\ Len(errc) <= 1 /\ ~(Len(errc) < 1)
      BY DEF HeldUp, IInv, TypeOK, Room, ErrcCapacity
    <3>2. Len(errc) \in Nat
      BY <3>1, LenProperties
    <3>3. ASSUME NEW n \in Nat, n <= 1, ~(n < 1) PROVE n = 1
      BY <3>3
    <3>. QED  BY <3>1, <3>2, <3>3
  <2>2. errc # <<>> /\ errc[1] \in Sending /\ errc = <<errc[1]>>
    BY <2>1, OneValue
  <2>3. ~subscribed
    BY <2>2 DEF HeldUp, IInv, SignalTaken
  <2>4. errc[1] # "http" /\ errc[1] # "subscriptions"
    BY <2>2 DEF HeldUp, IInv, SentBy
  <2>5. errc[1] = "signal"
    BY <2>2, <2>4 DEF Sending
  <2>. QED  BY <2>2, <2>3, <2>5
<1>. QED  BY <1>1, Invariance, PTL

(* A process that ends by itself has shut all its telemetry down.           *)
THEOREM TelemetryShutDown == Spec => []TelemetryEnds
<1>1. IInv => TelemetryEnds
  BY DEF IInv
<1>. QED  BY <1>1, Invariance, PTL
=============================================================================
