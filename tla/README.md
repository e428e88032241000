# TLA+ models and proofs of the persona service

The persona service answers one NATS request, `lfx.personas-api.get`: given an e-mail address and
perhaps a username, which projects is this person involved in, and in what role. Nothing in the answer is
stored by the service; what is hard is the way the answer is put together: six sources queried at
once against a deadline, partial failures that must not look like something else, a cache shared by
concurrent requests and by successive processes, and one NATS subscription in front of it all.

## 1. Inventory

| Component | Code | State it keeps | Operations | Talks to |
|---|---|---|---|---|
| Persona handler | `internal/service/message_handler.go` | per call: request, context, results channel, `projects` | `GetPersona`: validate, fan out, collect, drain, reply | sources (goroutines, channel), its caller (context) |
| Query sources | `internal/service/source_*.go` | none | board members and committees, mailing lists, past meetings, executive director, writers and auditors | Query Service, project service (slugs) |
| CDP source | `sourceCDPRoles` and helpers, same file | none | two cached lookups, background refreshes, slug to UID resolution | CDP client, cache, project service |
| Project merge | `internal/domain/model/persona.go` | none | `MergeProjects` | handler, committee source |
| CDP client | `internal/infrastructure/cdp/client.go` | HTTP client with a timeout | `ResolveMember`, `GetProjectAffiliations` | CDP, token provider |
| CDP cache | `internal/infrastructure/cdp/cache.go` | the JetStream bucket `persona-cache` (outlives the process) | get and put of member ids and affiliations, staleness | NATS |
| Token provider | `internal/infrastructure/cdp/auth.go` | the cached token and the mutex around it | `Token` | Auth0 |
| NATS client and dispatch | `internal/infrastructure/nats/client.go`, `cmd/server/service/message_handler.go` | connection, subscription, waiting messages | subscribe, deliver, respond, recover | callers, replicas of the service |
| Query Service client | `internal/infrastructure/query/client.go` | HTTP client, optional token function | `Search` | Query Service, token provider |
| Process lifecycle | `cmd/server/main.go`, `http.go`, `pkg/utils/otel.go` | `errc`, WaitGroup, root context, telemetry providers | start, stop | all of the above |
| Wiring and configuration | `cmd/server/service/providers.go`, `internal/config` | clients, configuration | `natsInit`, `QueueSubscriptions` | all of the above |
| Health endpoints | `cmd/server/service/persona.go` | the NATS client they were built with | `Livez`, `Readyz` | Kubernetes |
| Username validation | `internal/service/username_validation.go` | none | a predicate | handler |

The hard behaviours, all of them listed at their lines in `PROJECT.json` under `hazards`:

- *Concurrency*: source goroutines, the closer of the results channel, the select between results and
  the context, and the drain that follows; refreshes that overtake each other; callers that queue for
  the token mutex; the legs of a search and the slug resolutions of the CDP source, each a fan-out with
  channels of its own; three goroutines that send to `errc`, which is received from once.
- *Failure*: every leg of every source may fail, answer records of other users, or not answer; a put or a
  response that fails is only logged; processes stop or die with messages in their subscription;
  telemetry fails to start half-way.
- *Time*: the deadline of the request against the caller's reply timeout, staleness against the bucket's
  expiry, the expiry of tokens, hung exchanges.
- *Order*: sources deliver in any order, and the first entry of a project fixes its slug.

What makes each component correct is stated by the properties of section 3.

## 2. Modules

| Module | Models | Actions and the code |
|---|---|---|
| `PersonaHandler` | one call of `GetPersona` | `Reject`, `FanOut`, `CollectResult`, `CollectClosed`, `SelectDone`, `DrainResult`, `DrainEnd` are the handler goroutine; `SourceReturns`, `SendResult` a source's goroutine; `CloseResults` the goroutine behind `wg.Wait`; `DeadlineFires`, `ParentCancelled` the two ways the context ends |
| `PersonaReply` | the contract of a call, without goroutines | `Reject`, `Accept`, `Deliver`, `Expire`, `AnswerInFull`, `AnswerInPart` |
| `PersonaHandlerRefinement` | the refinement mapping | `PersonaHandler` implements `PersonaReply` |
| `MergeProjects` | `model.MergeProjects` | two folds, and what it is to be a grouping of a list by UID |
| `PersonaSources` | what each source makes of its legs' answers | one operator per source and helper; `Only` is every loop that filters, `DeduplicateResources` the one that de-duplicates |
| `PersonaResponse` | content of a response; composes the two modules above | one action per source: its legs answer or fail, its list is merged |
| `CdpCache` | steps 1 and 2 of `sourceCDPRoles` over the bucket | lookups, calls, puts, background refreshes, time with expiry, restarts |
| `UpstreamCalls` | one HTTP call of the Query Service or CDP client, with its token | `GotToken`, `Answered`, `Fails`; `Decode` is what the clients make of status and body, `InTime` their timeouts |
| `QueryLegs` | the goroutines of the query sources: a search with its two legs, which it joins with `TwoLegs` of `PersonaSources`, and the committee source, which runs two searches and joins them with `CommitteeRecords` | `StartLegs`, `SkipUsernameLeg`, `LegReturns`, `JoinLegs` are a search; `NothingToSearch`, `ReturnSearch`, `JoinBranches` the ends of a source |
| `SourceCalls` | one source of a request down to its calls; extends the two modules above | steps 1 to 3 of `sourceCDPRoles`; `FanOut`, `SlugAnswered`, `SlugUnknown`, `SendUID`, `Convert` are `resolveSlugsToUIDs`; `EndContext`, `RefreshEnds`, `Tick` |
| `TokenProvider` | `TokenProvider.Token` | `Token`, `Lock`, the ends of an exchange, `SendResult`, `Receive`, `GiveUp` |
| `NatsDispatch` | callers, the queue group, the serial subscription of each replica | `Send`, `Deliver`, `Respond`, `NoResponse`, `Stop` (main's `cancel()`), `Crash` (also main's return), `GiveUp` |
| `RequestService` | what the group promises about requests, without replicas | `Take`, `Settle`, `Tick` |
| `NatsDispatchRefinement` | the refinement mapping | `NatsDispatch` implements `RequestService` |
| `ServiceLifecycle` | `main`, the signal goroutine, the HTTP goroutine, the connection, the wiring by configuration, telemetry | one action per step between two points where goroutines meet |
| `MC*` | definitions that give constants their values for TLC | |
| `*Proofs` | theorems | section 5 |

The models meet at their interfaces. A result is only the name of its source in `PersonaHandler`; its
content is the subject of `PersonaResponse`, whose invariants hold after any number of deliveries, which
is what the handler needs for partial replies. `NatsDispatch` takes from `PersonaHandler` that a call
returns within the handler's timeout. `PersonaHandler` takes from `SourceCalls` that a source returns once
its context has ended (`EndsWithContext`), and `SourceCalls` from `TokenProvider` that a token is waited for
only so long (`DrainIsBounded`, the constant `TokenWait`). `sourceCDPRoles` appears three times: `CdpCache`
has what its two lookups find and leave in the bucket, for many persons, requests and processes;
`SourceCalls` has its goroutines, its calls and their failures, where a lookup is a hit, a stale hit or a
miss; `PersonaSources` has the conversion (`CDPRoles`), which `SourceCalls` instantiates. `main`'s shutdown
appears in `ServiceLifecycle` as a path through the process and in `NatsDispatch` as what requests see of it.

### What is abstracted

- Payloads: records are identified by an id and keep the project, the requester's fields and the flags a
  filter looks at; detection extras are the record's id. A CDP answer is its subject, its value and the
  time it was given.
- E-mail addresses and usernames are compared by the code case-insensitively and trimmed; the models
  compare names after that.
- Calls of external services are choices: any answer the code can tell apart, or an error. A term clause
  in `filters` may match more than it names, as the code assumes (it filters the answer again); a tag
  lookup matches exactly.
- Time is a counter. It stops at deadlines, where the runtime's timers act; it never stops elsewhere.
- Handlers, sources and requests are finite sets of model values.

### External code

Modelled from the way the service uses it: `nats.go` (an async subscription runs its callback for one
message at a time; a connection that has used up its reconnects closes for good; a key that ends in a dot
is refused by the bucket), the NATS server (a queue group gives a message to one member, once), the bucket's
TTL of 24 h (set by the chart), `oauth2.ReuseTokenSource` (a mutex held over an exchange), `context`.
Clocks are taken to agree and a put that timed out at the client is taken not to happen later at the server.

## 3. Runs

All runs explore their whole state space unless they end in a counterexample. Deadlock checking is off in
all of them because every model ends: the call has replied, every source has delivered, the requests are
used up or time has reached its bound, the process has exited. (`CdpCache` keeps it on.)

| Run | Distinct states | Shows |
|---|---|---|
| `handler_calls` | 1,440,000 | `NoResultLost`, `SuccessIsComplete`, `TimeoutKeepsFinished`, `NoSendAfterClose`, `SendNeverBlocks`, `MergedIsKept`, `AlwaysReplies`, `NoGoroutineLeak`, and that the handler implements `PersonaReply` |
| `handler_failures` | violation | a request whose sources all failed is answered like a success |
| `response_sources` | 249,000 | `MergedIsGrouped`, `OneEntryPerProject`, `OnlyTheRequester`, `NothingMissing`, `CountedOnce`, `BoardAlsoCommittee`, `OnlyResolvedAffiliations` |
| `cache_refreshes` | 1,100,000 | `ServedIsRecent`, `ServedIsOwn`, `FreshIsYoung`, `EntriesMoveForward` |
| `token_calls` | 970,000 | `TokenOutlastsRequest`, `NoNeedlessExchange`, `DrainIsBounded`, `WorkersEnd` |
| `source_calls` | 511,000 | `EndsWithContext`, `RefreshEndsInTime`, `OutputIsResolved`, `ErrorTellsOutage` |
| `dispatch_requests` | 444,000 | `OnePlace`, `DelayIsBounded`, `IdleMeansInTime`, `QueueDrains`, and that the replicas together implement `RequestService` |
| `dispatch_budget` | violation | a request waits behind slow ones past its caller's timeout |
| `dispatch_stop` | violation | a replica that is stopping answers `handler_timeout` without having waited for anybody |
| `lifecycle_stop` | 19,400 | `NeverIdle`, `HeldUpOnlyUnsubscribed`, `TelemetryEnds`, `StopsUnlessStuck` |
| `lifecycle_ready` | violation | `/readyz` answers OK without a connection |
| `lifecycle_cdp` | violation | the CDP group alone does not enable `cdp_roles` |

### Bounds, and why they are enough

- Handler: three query sources and `cdp_roles`, which covers none, some and all of the sources on each
  side of the deadline. The proofs cover any number up to five. The configurations (no clients, one of them, both; with and without a
  timeout) and the four kinds of request are all explored.
- Responses: two projects; records found by e-mail, by username, by both, by nobody, on a board and off
  it, with and without a project, two of one project in one list. All subsets of the records, all orders of the
  answers, all failures. Two groups of sources are explored apart; the merge does not depend on which sources
  its lists come from. The proofs have no such bounds.
- Cache: three persons, two of them without a username, two members; one request and two refreshes,
  which is what it takes for one refresh to overtake another; times 1, 2 and 1 for the threshold, the TTL and
  a call, until time 4, so that entries go stale, expire and are replaced.
- Tokens: three calls, so that one can queue behind two hung exchanges; time runs past the bound of
  `DrainIsBounded` and past the life of a token.
- Sources: the committee source with its two searches of two legs, or a source with one search, with and
  without a username and with and without a token; every search finds one record, fails, or has an answer of no
  use, since what the records say is the subject of `response_sources`. Or the CDP source, with and without a
  NATS client, with the refresh of each of its two lookups, no affiliations or five with two slugs to resolve, one of them
  twice, a `nonlf_` project and one without a slug. Each of the three durations is one unit, and time runs
  past the sum of them, so that a refresh outlives its request and both its waits run out.
- Dispatch: three requests and two replicas, which allows a queue of three at one replica, and a handler
  timeout of 1 against a caller's of 2; time runs to 4, past the longest delay.
- Lifecycle: no bounds; every configuration is an initial state.

### Fairness

`AlwaysReplies` assumes only that the handler goroutine runs and that timers fire: no source need ever
return. `NoGoroutineLeak` assumes also that the goroutines of sources and of the closer run and that a source
returns once the request's context has ended. `EndsWithContext` shows that of the sources' own calls; it
assumes that their goroutines (of the source, of each search and of each leg) run and that a call returns when its context has ended, which `Token`,
`http.Client.Do` and `RequestMsgWithContext` all do: no service need ever answer. `QueueDrains` assumes a
running subscription and a handler that returns, which is `AlwaysReplies`; the service always configures a
timeout (`parseDurationEnv` rejects values that are not positive). `WorkersEnd` assumes that exchanges end,
which `tokenFetchTimeout` enforces. `StopsUnlessStuck` assumes that goroutines that can run do, that
connecting ends (`nats.Timeout`), and that the grace period and the shutdown of telemetry do. Nothing is assumed of upstream services,
callers, signals or the connection.

## 4. Findings

- `lifecycle_ready`: `NewPersonaService` (main.go:84) runs before the NATS client exists, so `Readyz` has no
  client to ask. It answers OK while the service still connects, and after `nats.go` has closed the connection
  for good; nothing else notices that either.
- `lifecycle_cdp`: slugs are resolved with a client that only `WithQueryService` provides. With the CDP
  variables complete but no query service, every request pays for the CDP calls and `cdp_roles` is empty.
- `dispatch_budget`: the handler's timeout starts when its turn comes. Requests that arrive while one is handled
  wait for it, and their callers' 5 s run meanwhile. `DelayIsBounded` says how long, and
  `IdleMeansInTime` that the budget holds for a request that finds its replica idle.
- `handler_failures`: sources that fail are skipped. A caller cannot tell "no affiliations" from "no source
  answered", and the code `upstream_timeout` of the documentation is never produced.
- `dispatch_stop`: main cancels the root context but nothing unsubscribes, drains or closes the NATS
  connection (`NATSClient.Close` has no caller). Until the process is gone, which includes the shutdown of
  telemetry, the replica takes its share of the requests and answers each at once with `handler_timeout` and the
  message that upstream sources did not respond in time, although another replica could have answered it.

Two statements of the repository that the code does not bear out. The passing runs check the code's side of
each:

- ARCHITECTURE.md:148 defines the token `committee_member` as "non-Board committee membership". The code makes
  these detections from the records of both committee queries (source_board_member.go:68-73), and a Board
  member gets one beside `board_member`, as README.md:106, 260 and 298 of the repository say. `BoardAlsoCommittee`
  (`response_sources`) states it.
- The comment at message_handler.go:163-166 says that the CDP/Auth0 token provider "will not honour
  cancellation". `Token` does: it selects `ctx.Done()` (auth.go:92-97), and only the exchange it leaves behind
  runs on (`DrainIsBounded`, `WorkersEnd`). So `EndsWithContext` (`source_calls`) holds for sources that wait for
  a token too.

Seen while modelling, without a run of their own:

- `HeldUpOnlyUnsubscribed` has its one case: the subscription fails, main receives that from `errc`, a signal then
  fills `errc`, and an HTTP server that fails blocks in its send (http.go:80). `wg.Wait` waits for that goroutine, so
  shutdown takes the whole grace period. A process that had subscribed is never held up so.
- `StopsUnlessStuck` has an exception: a subscription that fails after a signal or an HTTP error has filled
  `errc` leaves main blocked in its own send, and the process then needs SIGKILL.
- The comment on `tokenFetchTimeout` says that it bounds the goroutines left behind. Hung exchanges follow
  one another, so the bound is that timeout for each call that is waiting (`DrainIsBounded`).
- main waits for the HTTP goroutine only, which returns as soon as `Shutdown` is called. Cancelling the root
  context makes requests in flight answer `handler_timeout`, and the process may exit before they have.
- `MergeProjects` keeps the slug of the first entry of a project. The executive director and writer/auditor
  sources leave it empty when it cannot be resolved, and the slug a later source has is then lost.
- `ErrorTellsOutage` says exactly which outages a source returns as an error, and all others are silent. One
  failed leg is not an error. A query source without a username has one leg, and the skipped one counts as a
  success, so when the only search fails it returns an empty result without an error. The committee source logs the
  errors of both its searches and returns none (source_board_member.go:48-73), so an outage of the whole Query
  Service looks there like a person on no committee. The handler treats an error and an empty result alike today,
  so only the log differs.
- A slug the project service does not answer drops its affiliations silently: an outage there makes
  `cdp_roles` empty without an error, unlike an outage of CDP.
- The bucket is looked up once, at startup; the warning says that caching is disabled until the bucket is
  created, but it is until the next restart.

## 5. Proofs

TLAPS checks these for all values of the constants that satisfy the modules' assumptions. Every safety
invariant, action property and refinement that the passing runs check is one of these theorems; TLC shows the
same properties on small instances. Each rests on an inductive invariant, with one lemma per action.

**`PersonaHandlerProofs`** (any number of query sources up to five, `SourcesAssumption`). `NoResultLost` and
the others are not inductive alone. `IInv` adds what ties the goroutines together: before the fan-out all
is quiet (`QuietBefore`), only launched sources leave "off" (`OnlyLaunched`), a source has an outcome exactly
when it has returned (`OutcomeKnown`), what has been sent is either buffered or taken (`HandOver`), the
channel is closed only when all senders are done (`ClosedLast`), the snapshot taken when the context ended
is behind the present (`Snapshot`), and a reply is never revised (`ReplyAtEnd`). Theorems: `TypeCorrect`,
`NothingLost`, `CompleteSuccess`, `PartialTimeout`, `CloseIsLast`, `KeepsMerged`, and `NoBlockedSource`,
which also counts: a sender is in the buffer at most once, so six sources never fill eight places.
`Refinement`: under that invariant every step of the handler is a step of `PersonaReply` or changes nothing
there. The select, the closer and the drain are stutters; the last receive before a reply is where the
abstract answer is given.

**`ListProofs`** (lists of any length). The loops of the code are folds, and the library's `FoldLeft` is a
recursive function over sets of indices. `FoldExists` shows that such a function exists, `OnlyRounds`,
`UnseenRounds`, `MergeRounds` and `DetectionRounds` turn each fold into the sequence `g` of what the loop has
after each round, and the properties of the last round follow by induction on the rounds. The library's
induction theorems take an operator, which the provers cannot instantiate; `SetInduction` gets round
this by stating the property as a set of numbers and using that `<` on them is well-founded. Theorems:
`OnlyFacts` (filters), `DedupFacts` (`deduplicateResources`), `MergeProjectsFacts` (one entry per UID, exactly
the detections of both lists, none repeated that was not) and `MergeProjectsGroups`: the result groups the two
lists together by UID, in order of first appearance, with the first slug and the detections in order. Its
invariant is `Begins`, a map from each group to the place in the input where it began.

**`PersonaResponseProofs`** (any projects, records, filters that match too much, failures and orders of
delivery; tables are finite and an id stands for one record of its kind, `RecordAssumption`; slugs tell
projects apart, `SlugAssumption`). Each source is shown to deliver a good list (`GoodDelivery`, one lemma per
source): every detection fits the world (`Fits`), board detections have their committee twins
(`Twins`), nothing is repeated, and if no leg failed nothing is missing (`FullList`). `PInv` says the same of
the response, and that every detection came from a source that is done, which keeps two deliveries from
repeating one. Theorems: `Grouped`, `OneEntry`, `OnlyRequester`, `NothingLost`, `EachOnce`,
`BoardImpliesCommittee`, `ResolvedOnly`.

**`SourceCallsProofs`** (any durations, members, lists and finite set of slugs; CDP answers lists, and the project
service's empty answer is no UID, `AnswerAssumption`; `SourceAssumption` names the tasks). Three invariants on top of one another. `TypeInv`
types the calls and says of each how long it has lasted (`CallInTime`) and that it fails exactly when its last
reply says nothing (`CallIsTrue`). `OutageInv` follows an outage from a call through a leg and its search, or through a lookup, to
the source's result. `SlugInv` says of `resolveSlugsToUIDs` that every pair in the channel is what the project
service answered for that slug, so that what the conversion reads is too. Theorems: `SourceTypes`,
`RefreshIsBounded`, `ErrorIsExact`, `ResolvedAreReported`.

**`CdpCacheProofs`** (any persons, members, requests, refreshes and durations with a threshold below the
TTL; usernames belong to one person). `IInv` bounds, beside the served answers, everything that can become
one: an entry's answer is at most a call older than its creation and the entry younger than the TTL, what a
request holds is bounded by where the request is, and a refresh about to put holds a recent answer. Theorems:
`TypeCorrect`, `BoundedStaleness`, `NoMixUp`, `HonestFreshness`, `MovesForward`.

**`NatsDispatchProofs`** (any replicas and timeouts, finitely many callers). A bound for one request depends
on the requests ahead of it, so the invariant says for every position of every subscription when the request
there begins at the latest, counted from the callback in progress. `PlaceInv` adds to `OnePlace`, which
is nearly inductive, that a caller who has given up has waited for its timeout. Theorems: `TypeCorrect`,
`DelayBound`, `NeverTwice`, `IdleInTime`, and `DispatchRefines`: every step of the replicas is a step of
`RequestService` or a stutter. A request's abstract due time is computed from the number of requests ahead of
it when it was sent; that this number is at most the number held by the group is a matter of counting
(`QueueSize`), and that the time does not pass while the request is held is the first invariant again.

**`ServiceLifecycleProofs`** (every configuration). `errc` has several senders and one receive, so what is
in it depends on who has sent: `IInv` says that it is empty before anybody can send (`Quiet`), that with a
subscription and a healthy HTTP server only the signal goroutine can have filled it (`FromSignal`), and
therefore that main has emptied it when it stops (`SignalTaken`). Without a subscription a value of the HTTP
server's is sent by a goroutine that has ended, and the failed subscription's is the one main receives
(`SentBy`), so that what can be left is a signal. Theorems: `TypeCorrect`, `NotLeftWaiting`, `HeldUpCase`,
`TelemetryShutDown`.

**`TokenProviderProofs`** (finitely many calls; the request's deadline is at most the expiry buffer, and the
buffer at most a token's life, `DurationAssumption`). A token is handed over some time after its call began, so
`IInv` bounds the result a goroutine holds against the beginning of its call (`ResultOutlasts`), and says that
the mutex admits one exchange (`OneExchange`), without which a second call could make a needless one.
`DrainInv` bounds a wait by the calls that have been through the mutex, `FetchTimeout` for each, and the time
the present exchange has taken. Theorems: `OutlastsRequest`, `NothingNeedless`, `DrainBound`.

Only model-checked: liveness (`AlwaysReplies`, `NoGoroutineLeak`, `QueueDrains`, `WorkersEnd`,
`EndsWithContext`, `StopsUnlessStuck`), because the proof system reasons neither about `ENABLED` nor about
fairness. The findings of section 4 are counterexamples, not theorems.

## 6. Not modelled

What goes into URLs, headers, query strings and JSON; key parsing and assertions; logging and tracing, apart
from the set-up and shutdown of the telemetry providers; the generated Goa code; packaging. None of it has
state that a step of two actors could spoil. `pkg/log` keeps attributes in a context, but one place adds to
it, once per message. The validation of usernames appears only as its outcome. Query results are taken as
complete: the client never asks for a second page. A request starts at most one refresh per lookup; how many
requests do so at once the code does not limit, and `RefreshEndsInTime` only bounds how long each lasts. The
KV bucket is looked up once at startup; the models take it as there, or as a bucket in which every lookup
misses. That no source panics is not shown; a panic there ends the process, which is `Crash` in
`NatsDispatch`.

## 7. Plan

Order followed: the handler and its contract, the content of responses, the cache, dispatch and its abstract
service, the process with its telemetry, tokens, the sources down to their calls; then proofs, component by
component, until all safety properties were theorems. Left:

1. The assumption of `PersonaResponse` that an id stands for one record is of its tables. `sourceWriterAuditor`
   keeps its matches in a map by id; a model with the map itself would not need it there.
2. `TokenWait` of `SourceCalls` is the bound of `DrainIsBounded`, and the handler's timeout of `NatsDispatch` the
   time of a call of `GetPersona`; both links are stated here and not in a module.
3. Liveness has no proofs; its safety part, a measure that each step of the handler and of a source lowers,
   could be stated as an action property.
