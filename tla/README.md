# Verification of the Kratos webhooks service

This directory holds TLA+ models of the service in `src/`, the configurations
that check them with TLC, and theorems about them checked with TLAPS.

## 1. The system

The service is one Go process behind Kubernetes. Ory Kratos calls its webhooks;
browsers and apps reach Kratos's login endpoint through its proxy. It keeps its
state in Redis and hands messages to RabbitMQ.

| Component | Source | State | Operations | Hard behaviours |
|---|---|---|---|---|
| Login attempt counters | `internal/clients/redis.go` (Lua scripts, DEL) | one counter per `login_backoff:id:*` / `login_backoff:ip:*` key, with an expiry | count one or two keys, read count and TTL, delete | two commands made atomic by a script; expiry; rounding of TTL; retries of go-redis |
| Login backoff service | `internal/webhooks/kratos-login-backoff/{service,handler}.go` | none of its own | before-login: count and rule; after-login: reset | concurrent requests at the threshold; Redis errors on any try; stale replies; spellings |
| Login proxy | `.../proxy.go` | none of its own | extract identifier and address, check, forward or block | headers that disagree; hooks that come late, twice or never; logins in flight across a lockout |
| Verification webhook | `internal/webhooks/kratos-verification` | `welcome_sent:*` keys in Redis | check, publish, mark | check-then-act; a failure between publish and mark |
| Password-changed webhook | `internal/webhooks/kratos-password-changed` | none | validate, stamp, publish | shares the channel; a default time taken before the wait for the mutex |
| RabbitMQ client | `internal/clients/rabbitmq.go` | one connection, one channel, one mutex, two queues | dial, publish, ping, close | everybody waits for one mutex; the channel is never reopened; no confirms, no persistence |
| Health endpoints | `internal/health` | none | live, ready | readiness depends on Redis and RabbitMQ, and waits for the publishers' mutex |
| Middleware | `internal/middleware` | configuration | maintenance, correlation, logging | maintenance answers 503 to everybody but the probes |
| Configuration | `internal/config` | environment, `.env` | load, validate | texts that are no numbers count as not given; limits that are not positive are refused |
| Process | `cmd/server/main.go` | the clients | start, shutdown within 30 s, close | handlers that outlive the shutdown and its clients |
| Kubernetes | `manifests/25`, `26`, `30` | the route to the one replica | readiness and liveness probes | late answers, failure threshold, outages that take logins with them |

The components interact by calls (proxy to service to Redis client), by shared
state (the counters, the `welcome_sent` keys, the mutex of the RabbitMQ client)
and through Kratos: a login the proxy forwards may come back, at any later time,
as an after-login hook. Inside a request everything is sequential; the service
is concurrent because many requests run at once, because Redis's clock and
Kratos's hooks move between any two of their steps, and because the shutdown of
`main` and the kubelet's probes run beside them.

What makes each component correct:

* counters: every counter expires; its window is fixed by the first attempt and
  never lengthened;
* service: a subject is granted at most its threshold per window, is not locked
  out before that, is let in again in the end, is told the truth about how long
  to wait, and gets an answer though Redis fails;
* proxy: a successful login forgives the counters it was counted under;
* verification webhook: everybody verified is welcomed, nobody is marked who was
  not, duplicates are few, and Kratos is told the truth about it;
* password-changed webhook: its queue holds complete messages of its own kind,
  with a time that belongs to the request;
* RabbitMQ client: the mutex is always given back, and a message written is
  delivered unless something breaks;
* process: clients are closed after the handlers that use them, the shutdown
  ends, maintenance mode touches nothing;
* configuration: a process that starts has limits the counters can work with,
  and one that does not was given a reason;
* probes: a process that cannot work is not routed to, and one that can work
  again is routed to again.

## 2. Modules

| Module | What it is |
|---|---|
| `LoginCounters` | no variables: the keys, the Redis commands, the scripts, DEL, the normalisation of identifiers, and the verdict drawn from a reply (with D-005) |
| `LoginBackoff` | state machine: before-login and after-login in any number of request slots, Redis calls with retries and faults, Redis's clock |
| `FixedWindowLimiter` | abstract specification: keys with a budget per window, requests charged to all their keys at once and granted exactly if each is within budget, windows that close whole and eventually |
| `LoginBackoffRefinement` | the refinement mapping from `LoginBackoff` to it |
| `LoginFlow` | composes `LoginBackoff` with the proxy and with Kratos: submissions, forwarding, hooks |
| `EventWebhooks` | state machine: both event webhooks, the shared mutex and channel, the marks in Redis, crashes |
| `WelcomeDelivery` | composes `EventWebhooks` with the connection, the broker's queue and its consumer |
| `WelcomePromise` | abstract specification: identities that are sent at most so many welcomes, settled only once one is on its way, and get what is on its way unless the connection breaks |
| `WelcomeDeliveryRefinement` | the refinement mapping from `WelcomeDelivery` to it |
| `EventPayloads` | composes `EventWebhooks` with the contents: payloads, validation, the events built, the two queues, the clock |
| `Gateway` | composes `EventWebhooks` with `main`, the maintenance middleware, the readiness handler, and outages of Redis and RabbitMQ |
| `Deployment` | composes `Gateway` with the kubelet and the route to the pod |
| `Configuration` | state machine of one step, `config.Load`, over all the environments and `.env` files given |
| `MCLoginBackoff`, `MCLoginFlow`, `MCEventPayloads`, `MCConfiguration` | values of the constants for TLC |
| `*Proofs` | theorems, one module per component: `LoginBackoffProofs`, `LoginBackoffRefinementProofs`, `LoginFlowProofs`, `EventWebhooksProofs`, `WelcomeDeliveryProofs`, `EventPayloadsProofs`, `GatewayProofs` (also `Deployment`), `ConfigurationProofs` |

`EventWebhooks` is the one model of the handlers: the three modules on top of it
constrain and observe its actions and never restate them, so what is proved of
it holds in each: `DeliveryRunsWebhooks`, `PayloadsRunWebhooks` and
`ProcessRunsWebhooks` are the theorems that say so, and `PodRunsGateway` and
`FlowRunsService` the same of the pod and of the login flow.

Definitions named "a mutant of" another are faulty variants of it, each a bug
the code could plausibly have; no specification uses them. Each checked property
is known to fail for one of them, listed in `PROJECT.json`.

### From the code to `LoginBackoff`

`db` is Redis: a function from keys to counters, where an absent key has count
0. A key is a prefix and a text; `normaliseIdentifier`, `KeysOf` and `Verdict`
carry the names and the order of the code's conditions. The three increment
functions of the service differ only in which keys they name, so they are one
operator on a set of keys; a dimension without a key reads as 0 and is never
over its threshold.

A request slot is `idle`, waiting for a Redis call (`check`, `reset`), or holds
a reply its handler has not used yet (`verdict`). The call is split there
because the clock and other requests move between the script and the answer. A
script or a DEL is one step: Redis runs it atomically. What happens to the call:

* `ExecScript`, `ExecDel`: the server runs it and the reply arrives;
* `Unreachable`: the try never reaches the server;
* `LoseReply`: the server runs it and the reply is lost or late;
* `Cancel`: the client hangs up and the call returns without another try.

After a failed try go-redis tries again, `MaxRetries` times (its default is 3,
the code does not set it); then `CheckAndIncrement` allows the login and
`ResetCounters` answers "success" (`FailOpen`). `Tick` is the clock, `LoseData`
the loss of Redis's memory.

Time is counted in thirds of a second because Redis rounds a TTL to the nearest
second: with three ticks a second there are lifetimes that round up and others
that round down. `CountCap` stops a counter from being told apart above both
thresholds, where the code does not tell it apart either.

The variables `wait`, `blockers`, `attempts`, `counted` and `grants` are history
the properties need; no guard reads them.

### From the code to `LoginFlow`

A submission is a record of what the proxy reads: the identifier in its body as
JSON and as a form, what its Content-Type mentions, the address headers split at
commas, and the peer. `extractIdentifier`, `extractClientIP` and `firstValidIP`
follow the code; `forwardedTrueClientIp` is the header the proxy sets. Kratos is
not in `src/` and is modelled from what the code, its comments and the
quickstart say: it accepts or rejects what it is forwarded, and a successful
password login causes a hook with the identity's canonical identifier and the
address in `True-Client-Ip`, delivered at any time, repeatedly, or never. A
login through a provider is forwarded like any other and causes no hook.
`PassUnchecked` is the body that cannot be read to its end: the proxy forwards
it as it came, uncounted and with the client's own header. `countedUnder` is
history.

### From the code to `EventWebhooks`

A worker is one HTTP request. `Check`, `Lock`, the two `Send` actions and `Mark`
are the handler's calls in order. The context of a request ends when its client
hangs up: the Redis calls then fail, while the publish goes on (the AMQP library
does not consult the context). `emitted` counts the welcomes written to the
channel since the identity's key last expired; it is history, except that
`MaxEmitted` bounds it in the guard of `ReceiveVerification`.

### From the code to `WelcomeDelivery`

`wire`, `queue` and `received` say where the welcomes of each identity are:
written to the connection, in `alkemio-notifications`, consumed. The broker and
the notifications service are not in `src/` and are modelled from how
`PublishToQueue` uses them: without a confirm, and without the persistent
delivery mode, so that what is on a connection is lost when it breaks and what
is in the queue is lost when the broker restarts. A Redis call fails for a
client that hangs up, at any of the two calls and with the mark set or not, so
an outage of Redis needs no fault of its own here. `failed` and `missed` are
history: what has broken, and whose mark a failure has hidden or prevented.

`WelcomePromise` knows no worker, no Redis and no broker. An identity is settled
when it is marked; what is on the connection or in the queue is on its way;
`AtMost` is the number of workers, and who is in `missed` is excused from it.
Checks, waits for the mutex, hang-ups and the arrival of a message in the queue
are stutters there.

### From the code to `EventPayloads`

A payload is a record of texts. `ValidVerification`, `ValidPasswordChanged`,
`TransformToNotificationEvent`, `TransformToEvent` and `nestEnvelope` are the
code's functions; the event is kept with its worker from the moment it is built
to the moment it is written, because the wait for the mutex lies between. The
clock is `time.Now()`. Identities are the texts that are not blank. Times are
copied as the client wrote them, unless blank: the code does not parse them.

### From the code to `Gateway` and `Deployment`

`main` is where `main()` is: `load`, `dial`, `serve`, and after the signal
`drain` (inside `server.Shutdown`), `close`, `closed`, `end` (the deferred
closes). `deadline` is the 30-second context of the shutdown. The Redis client
connects lazily, so only RabbitMQ is dialled at the start. `Admit` is the
middleware chain in front of the two webhooks, `StartProbe`, `PingRedis` and
`PingRabbit` the readiness handler; `PingRabbit` and `CloseRabbitMQ` need the
mutex the publishers hold. A broker is up, down or stalled: it reads nothing and
answers nothing, while the connection stays open. A write to an open channel
and the good-bye of `Close` do not return while it is stalled. `ListenAndServe`
that fails ends the process like `Kill`.

In `Deployment` a probe request belongs to the kubelet until it has its answer
or gives up after the second Kubernetes grants a probe by default (the manifests
set no `timeoutSeconds`); the handler goes on and its answer is unseen. `Probe`
is how many such requests there may be at once; `KubeletAsksInVain` is the one
more that hangs like all of them. `ready` is the endpoint of the Service; with
one replica, a pod that is not ready means nobody answers (`LoginOutcome`,
`WebhookAnswered`). The liveness endpoint answers in every process that serves,
so it restarts only one that never comes to serve.

### From the code to `Configuration`

The environment and the `.env` file are functions from the variables to texts or
`Absent`. `getEnv`, `getEnvInt`, `getEnvBool`, the two resolvers and
`validateLoginBackoffConfig` are the code's functions; `strconv.Atoi`,
`strconv.ParseBool` and `url.ParseRequestURI` are given by what they accept.
`godotenv.Load` is external: it sets what is not set, and a variable set to the
empty text counts as set there but not in `getEnv`.

## 3. What is checked

| Run | Bounds | Shows |
|---|---|---|
| `backoff_faults` | 2 requests; a blank and a padded, capitalised spelling of an identifier; an address with the same text; thresholds 1 and 1, lockouts 1 s and 2 s; 2 retries; every fault (654,000 states) | `OneCounterPerSubject`, `NoImmortalCounter`, `GrantsBounded`, `RetryAfterHonest`, `FixedWindow`, `EveryTryCounts`, `TypeOK` |
| `backoff_limiter` | 2 requests, an identifier, and an address that may be missing, no retry; outages, lost replies, data loss (93,000) | `ImplementsLimiter` with its liveness, `NoEarlyLockout`, `LockoutEnds`, `EveryRequestAnswered` |
| `flow_reset` | 1 slot, five kinds of submission, 2 hooks on their way, outages, data loss (203,000) | `ForgivenWhereCounted`, `EverySubmissionAnswered`, `FlowTypeOK` |
| `welcome_delivery` | 2 workers, 1 identity, 3 welcomes; hang-ups and Redis errors, broken connections, broker restarts, crashes (33,000) | `MarkedWasEmitted`, `MarkedIsOnItsWay`, `DuplicatesBounded`, `DeliveryTypeOK`, `TypeOK` with the ownership of the mutex, `AnsweredTruthfully`, `EveryWebhookAnswered`, `MarkedIsWelcomed`, `EveryoneWelcomed`, `KeepsPromise` with its liveness |
| `payloads` | 2 workers of either webhook, payloads with each field missing, blank or padded, 2 instants, 2 messages (147,000) | `QueuesKeepApart`, `StampedDuringRequest` |
| `deployment` | 1 worker, 2 readiness requests, threshold of 2 failures, every fault of the process, of Redis and of RabbitMQ (159,000) | `ClientsOutliveHandlers`, `MaintenanceTouchesNothing`, `GatewayTypeOK`, `KubeletTypeOK`, `ShutdownEnds`, `ProbeAnswered`, `ReadyAgain`, `OutOfServiceIsNoticed` |
| `configuration` | 6 ways to give a threshold, 3 a lockout, 4 and 3 the two Kratos URLs, 3 `.env` files | `LimitsUsable`, `RefusedForCause`, `TypeOK` |

Why the bounds are enough. Two requests are one that decides and one that
interferes, and every property is about a counter or about one request; with
thresholds of 1 the second attempt of a window is the first that is blocked, so
both sides of each comparison are reached with two attempts, and the cap of one
above the threshold is reached by concurrent ones. Lockouts that differ make the
precedence of D-005 matter; the same lockouts give ties. Two retries separate
"tries again" from "gives up". Two webhooks contend for the mutex and for the
mark; three welcomes are one more than the bound on duplicates allows. One
webhook and two readiness requests contend for the mutex in all the ways the
shutdown and the kubelet can meet: one holds it, one waits that is still
expected, one waits that nobody expects any more. A threshold of 2 failures
tells one failure from too many (the manifests say 3). The theorems below do not
depend on these bounds.

Five runs end in a violation, each of one property that states what a document
of the repository says and the code does not do:

| Run | Property | What happens |
|---|---|---|
| `flow_lockout` | `LockoutStands` | a login let through before the threshold was passed succeeds after it and its hook deletes the counters |
| `flow_provider` | `OidcNotBlocked` | the proxy never looks at the submission's method and counts a provider login under its address |
| `webhook_once` | `AtMostOnce` | two deliveries at once both find no mark and both publish |
| `deployment_redis_outage` | `RedisOutageKeepsLogins` | Redis fails, readiness fails with it, the only replica is taken out of the Service, and logins are refused though the proxy would have let them pass |
| `deployment_rabbit_outage` | `WebhooksStayAnswered` | the connection to RabbitMQ breaks and is never dialled again; the pod stays not ready after RabbitMQ is back, and webhooks are answered by nobody |

Four more limits of the code are visible in the properties themselves:

* a reply lost after a script ran makes go-redis run it again, so one request
  may count on each of its `MaxRetries + 1` tries (`CountsPerRequest`):
  `NoEarlyLockout` says that a key is locked only if that many counts for each
  of the distinct requests in its window exceed the threshold, which is the
  threshold itself where no reply is lost or nothing is tried again (`MaxRetries`
  0 in its run);
* Redis rounds a TTL to the nearest second, so a lockout may outlast
  `retry_after_seconds` by half a second, the slack in `RetryAfterHonest`;
* a welcome that was written but not confirmed is lost with its connection or
  with a broker's restart, and its identity stays marked: the exception for
  "link" in `MarkedIsOnItsWay` and `MarkedIsWelcomed`;
* the default of `observed_at` is taken before the publisher's mutex is waited
  for: `StampedDuringRequest` says between the request and the publication, and
  no more.

Fairness. `LoginBackoff` assumes that time passes (`Tick`) and that a request in
flight goes on: go-redis bounds each try by its timeouts and the number of
tries, so some step of it is always taken, though nothing says it is a
successful one. No request is assumed to arrive. `LoginFlow` adds that the proxy
goes on once it has a verdict and that Kratos answers. `EventWebhooks` assumes
that handlers run (weak fairness) and that a worker waiting for the mutex gets
it if it is free again and again (strong fairness): Go hands a mutex to the
longest waiter once that has starved for a millisecond. It assumes too that a
write to the channel returns. `WelcomeDelivery` adds that the broker takes in
what is on an open connection and that the notifications service consumes.
`Deployment` assumes that `main`, the handlers and the clock of the shutdown go
on, that the kubelet asks, and that a dead connection is noticed in the end (the
heartbeat of the AMQP library); a write is assumed to return only while the
broker is not stalled. It does not assume that Kubernetes sends its SIGKILL,
that a signal ever comes, or that RabbitMQ or Redis ever comes back, so
`ShutdownEnds` is about the shutdown by itself. Faults are never fair.

## 4. What is proved

All theorems hold for every number of requests or workers, every set of texts,
identifiers and addresses, every threshold and lockout, and every number of
retries, from the assumptions named in the modules: `LimitsAssumption` (limits
are positive, which `ConfigurationProofs!LimitsAreUsable` proves of a process
that starts, and the cap is above them), `TextAssumption` and
`NormalFormAssumption` (lowering and trimming yield a normal form: trimming a
lowered, trimmed text, or lowering it, changes nothing), `RequestAssumption`,
`PostAssumption`, `WebhookAssumption`, `BrokerAssumption`, `PayloadAssumption`,
`GatewayAssumption` (a process may be killed, its connection lost, a Redis call
fail), `DeploymentAssumption`, `ConfigAssumption`.

| Theorem | Statement | Invariant behind it |
|---|---|---|
| `LoginBackoffProofs!TypeCorrect` | `Spec => []TypeOK` | `TypeInv`: also that a reply in hand, and the keys of a request, fit its step |
| `CountersExpire` | `Spec => []NoImmortalCounter` | `WindowInv` |
| `WindowsAreFixed` | `Spec => FixedWindow` | `WindowInv` |
| `NoExcessGrants` | `Spec => []GrantsBounded` | `GrantsInv` |
| `RetryAfterIsHonest` | `Spec => []RetryAfterHonest` | `PromiseInv` |
| `LockoutsAreEarned` | `Spec => []NoEarlyLockout` | `EarnedInv` |
| `RequestsGetOn` | `Spec => EveryTryCounts` | `TypeInv` |
| `SubjectsAreCanonical` | `Spec => []OneCounterPerSubject` | `SubjectInv` |
| `ServiceIsLimiter` | `Spec => Limiter!Init /\ [][Limiter!Next]_(Limiter!vars)` | `WindowInv` |
| `FlowTypeCorrect` | `FlowSpec => []FlowTypeOK` | `FlowInv` |
| `LoginsAreForgiven` | `FlowSpec => []ForgivenWhereCounted` | `FlowInv` |
| `FlowRunsService` | `FlowSpec => Init /\ [][AnyNext]_vars` | `FlowInv`, step simulation |
| `FlowIsProtected` | `FlowSpec => [](GrantsBounded /\ NoImmortalCounter /\ OneCounterPerSubject /\ NoEarlyLockout /\ RetryAfterHonest)` | those of the service |
| `FlowWindowsAreFixed`, `FlowRequestsGetOn` | `FlowSpec => FixedWindow`, `FlowSpec => EveryTryCounts` | `WindowInv` |
| `FlowIsLimited` | `FlowSpec => Limiter!Init /\ [][Limiter!Next]_(Limiter!vars)` | `WindowInv` |
| `EventWebhooksProofs!TypeCorrect` | `Spec => []TypeOK` | `JobInv` |
| `NoSwallowedWelcome` | `Spec => []MarkedWasEmitted` | `TraceInv` |
| `AnswersAreTrue` | `Spec => AnsweredTruthfully` | `TraceInv` |
| `DeliveryRunsWebhooks`, `PayloadsRunWebhooks`, `ProcessRunsWebhooks` | `DeliverySpec`, `PayloadSpec`, `GatewaySpec` each `=> Init /\ [][Next]_vars` of `EventWebhooks` | step simulation |
| `DeliveryAnswersAreTrue`, `AnswersAreTrueAcrossRestarts` | `DeliverySpec`, `GatewaySpec` each `=> AnsweredTruthfully` | `TraceInv` |
| `WelcomesAreConserved` | `DeliverySpec => []DeliveryTypeOK` | itself, with `TypeInv` |
| `MarksFollowWelcomes` | `DeliverySpec => []MarkedIsOnItsWay` | `TraceInv`, `DeliveryTypeOK` |
| `DuplicatesAreBounded` | with finitely many workers, `DeliverySpec => []DuplicatesBounded` | `DupInv` |
| `WelcomesArePromised` | with finitely many workers, `DeliverySpec => Promise!Init /\ [][Promise!Next]_(Promise!vars)` | `DupInv`, `DeliveryTypeOK`, `TraceInv` |
| `QueuesAreKeptApart`, `StampsAreFresh` | `PayloadSpec => []QueuesKeepApart`, `[]StampedDuringRequest` | `PayloadInv` |
| `NoSwallowedWelcomeAcrossRestarts` | `GatewaySpec => []MarkedWasEmitted` | `TraceInv` |
| `ProcessTypeCorrect`, `ClientsAreClosedLast`, `MaintenanceIsQuiet` | `GatewaySpec => []GatewayTypeOK`, `[]ClientsOutliveHandlers`, `[]MaintenanceTouchesNothing` | `HostInv` |
| `PodRunsGateway` | `DeploymentSpec => GatewaySpec` | step simulation |
| `PodIsProtected` | `DeploymentSpec` implies the three properties of the process, `[]MarkedWasEmitted` and `AnsweredTruthfully` | `HostInv`, `TraceInv` |
| `OnlyServingIsRoutedTo` | `DeploymentSpec => []KubeletTypeOK` | itself, with `GatewayTypeOK` |
| `ConfigurationProofs!TypeCorrect`, `LimitsAreUsable` | `Spec => []TypeOK`, `[]LimitsUsable` | `LoadInv` |
| `RefusalHasCause` | `Spec => RefusedForCause` | none: a fact of the readers |

Why the invariants are stronger than the properties:

* `GrantsBounded` alone is not preserved: nothing in it says why the next grant
  is within the threshold. `GrantsInv` adds that the grants of a window are at
  most the attempts counted in it; a grant is given only on a count the request
  itself took part in, and only if that is within the threshold.
* `RetryAfterHonest` speaks of answered requests. `PromiseInv` says the same of
  a reply still in hand: the lifetime of each blocking window is at most what
  the verdict on the reply will announce, plus half a second. It only shrinks
  while the handler works; and a window that closes leaves `blockers`, so a new
  window of the same key is never confused with it.
* `NoEarlyLockout` bounds a counter by the requests counted in its window, and
  requests that are being counted again and again are in between. `EarnedInv`
  keeps the books: what a key's counter has not yet reached of
  `CountsPerRequest * attempts` is at least what the requests in flight that were
  already counted there may still add, one for each try they have left (`Due`).
  A try that is lost moves one count from what is due to the counter, the first
  try of a request adds both, and an answer only cancels what was due. The bound
  is tight: with one retry, TLC finds a lockout after half the attempts.
* `EveryTryCounts` is the safety half of `EveryRequestAnswered`: `StepsLeft`
  falls with each step of the request and with no step rises. What fairness adds
  is only that the steps are taken.
* The flow runs the service with texts the proxy has extracted, which the model
  of the service alone does not enumerate. `AnyNext` is its next-state relation
  for any texts at all; the invariants of the service are proved of it, and the
  flow's steps are shown to be among its steps.
* The refinement needs that an open window's counter is positive and that a
  reply carries exactly the counts after the script ran.
* `DuplicatesBounded`: before the first mark every welcome belongs to a worker
  that is still about to mark; from the mark on, only workers that had passed
  the check can add one. `DupInv` counts both groups of workers (`Marking`,
  `Busy`), which are disjoint. An identity leaves it when a failure hides or
  prevents its mark (`missed`), and only then.
* `AnsweredTruthfully` needs of `TraceInv` that a worker about to mark has
  written its welcome, and that whoever is marked was sent one.
* `WelcomesArePromised` puts these together: a publish is a `Send` of the promise
  because `DupInv` leaves room below the number of workers for whoever has passed
  the check, a mark is a `Settle` because the welcome written before it is on its
  way or the connection has broken since, and a step that breaks the connection
  or kills the process is a `Break` or an `Excuse`.
* `ForgivenWhereCounted` rests on a lemma about each submission: the identifier
  and the address the hook will name have the normal form of those the proxy
  counted. `FlowInv` adds that the slots hold submissions and the hooks keys.
* `QueuesKeepApart` and `StampedDuringRequest` speak of messages in a queue.
  `PayloadInv` says the same of the event of every worker that waits for the
  mutex, by the webhook it serves, and that its time is not later than now.
* The three properties of the process need `main \notin Running => NobodyInFlight`
  together: requests are admitted only while it serves, and `Shutdown` returns
  before the deadline only when none is left.

## 5. What is only model-checked

Liveness is beyond the prover: `LockoutEnds`, `EveryRequestAnswered`,
`EverySubmissionAnswered`, `EveryWebhookAnswered`, `EveryoneWelcomed`,
`MarkedIsWelcomed`, `ShutdownEnds`, `ProbeAnswered`, `ReadyAgain`,
`OutOfServiceIsNoticed`, and the fairness of the abstract specifications in
`ImplementsLimiter` and `KeepsPromise`. Every invariant and every action property
of a passing run is proved, and so are the initial states and the steps of both
refinements.

## 6. What is not modelled, and why

* Logging, correlation IDs, the pseudonyms in log lines, and the format of
  bodies, messages and redirects: no property is about them.
* In the proxy: methods other than POST, and a body over 1 MiB (413), neither of
  which touches a counter.
* Parsing of JSON and forms, `net.ParseIP`, `strconv`, `net/url`: what they
  yield is an input.
* The variables of the configuration that are only copied (log level and format,
  platform URL, header names, hash key).
* Logins in `Deployment` are the outcome a caller would meet, not requests in
  flight: what they do to the counters is `LoginBackoff`.
* Two replicas: the manifests run one, and the counters and marks the replicas
  would share are in Redis, where any number of requests already meet.
* The Kubernetes resources other than probes, replica and route; the API
  documents, which are quoted where the code differs.

## 7. Plan

Done: the login backoff (modules, runs, refinement, theorems), the flow through
the proxy, the event webhooks with their contents and their delivery, the promise
of welcomes they implement, the process and its deployment, the configuration,
theorems for every invariant, action property and refinement, and the theorems
that carry them from each component to those built on it. What would add most
from here:

1. Logins in flight across the shutdown and in maintenance mode: `LoginFlow`
   inside `Gateway`, now only an outcome in `Deployment`.
2. The promise of welcomes across restarts of the process: `WelcomeDelivery`
   composed with `Gateway`, whose theorems now stop at the channel.
3. Two workers beside two readiness requests in `deployment`, and a threshold of
   3, when the liveness check is given more time.
