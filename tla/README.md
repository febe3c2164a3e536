# OpsFlow: TLA+ models, model checking and proofs

OpsFlow is an incident-management system: a browser application, a backend
(`backend/`) that owns users and sessions, an incident service
(`incident-service/`) that owns incidents, and an asynchronous pipeline of
outboxes, SQS queues, Lambdas (`lambdas/`) and two stores (PostgreSQL and
DynamoDB). This directory keeps TLA+ models of the parts where the order of
things matters, TLC runs over small instances, and proofs checked by TLAPS.
Paths below are relative to the repository.

    tlc -workers 2 -config OutboxRelay.cfg OutboxRelay     # a run
    tlapm ProgressProofs.tla                               # the proofs

`PROJECT.json` lists components, runs, mutants, theorems and hazards, and maps
every definition to the source lines it stands for.

## 1. The system

### Components and state

| Component | State | Operations |
|---|---|---|
| Incident service API and domain (`services/incident_service.py`, repositories) | `incidents` rows | create, PATCH, DELETE, list |
| Task outbox and relay (`workers/incident_outbox_relay.py`) | `incident_task_outbox` rows and their row locks | insert with the incident; poll, send, mark |
| Task worker Lambda (`lambdas/task-worker`) | idempotency table, execution table | take a batch, insert the execution record or log the notification, answer with the failures |
| Task reconciler (`workers/incident_task_reconciler.py`) | execution items with lease and token; one PostgreSQL transaction | list, claim, process, mark |
| Completion outbox and relay | `incident_task_completion_outbox` rows | the relay of the task outbox again |
| Realtime notifier Lambda (`lambdas/realtime-notifier`) | connection table, its queue, an invocation's batch | connect, disconnect, broadcast, hand-off to the webhook queue |
| Webhook notifier Lambda (`lambdas/webhook-notifier`) | its queue, the cached configuration of a warm environment | validate, sign, post, answer with the failures |
| Backend gateway and circuit breaker (`core/circuit_breaker.py`, `gateways/http_incident_gateway.py`) | breaker state, failure count, generation | acquire a permit, retry, record success or failure |
| Backend incident API (`api/routes/incidents.py`, `services/task_publication_service.py`) | a connection of the pool for each request | forward a creation, answer the lookup it causes, publish a notification task; forward reads, changes and removals |
| Passwords and reset tokens (`authentication_service.py`, `password_reset_service.py`) | `users`, `password_reset_tokens`, advisory and row locks, reauthentication proofs | request, confirm, reauthenticate, change, log in |
| Refresh sessions (`authentication_service.py`, `api/routes/auth.py`) | `auth_sessions` | rotate, log out, log out everywhere |
| Browser session (`frontend/src/api/apiClient.ts`, `auth/AuthContext.tsx`) | access token, user on display, one refresh promise per tab, the cookie | restore, sign in and out, call, refresh and retry |
| Login throttle, password-reset throttle (`core/login_throttle.py`, `core/password_reset_throttle.py`) | sliding windows in memory | begin, record failure, record success; check and record |
| Service identity (`core/service_identity*.py`, `core/service_token_*.py`) | signing keys, verification keys | sign a token per attempt, verify, replace a key |
| Catalogue, overview, users, middleware, settings | tables, none | reads, inserts, checks |
| Pages, Terraform, scripts, migrations | - | - |

### How they interact

    browser --HTTP--> backend --HTTP, under the breaker--> incident service
      incident service --one transaction--> incidents + task outbox
      relay --SQS--> task worker --put_item--> execution table
      reconciler --claim / mark--> execution table
      reconciler --one transaction--> incidents + completion outbox
      relay --SQS--> realtime notifier --> browsers, webhook queue --> webhook notifier
    incident service --HTTP, service token--> backend (does the service exist?)

There is no transaction across two stores. Delivery through the queues is at
least once, so every consumer has to bear duplicates, and every
producer has to bear its own death between an effect and the note of it.

### What is hard

* relays that poll the same rows, and lose their lock while they talk to SQS;
* leases without renewal, so that two reconcilers may work on the same task;
* commits in PostgreSQL and DynamoDB with a crash or a lost reply in between;
* READ COMMITTED writers that read, compute and flush without a row lock;
* requests whose commit follows the response that announces it;
* results of slow operations that arrive after the circuit has changed state;
* work that fails for ever and is always first in line;
* messages delivered twice, in batches that partly fail;
* two channels for one message, one of which fails;
* a circle of requests: the backend waits for the incident service, which asks
  the backend, over connections of one pool;
* decisions taken outside a lock, and clocks read before it is taken;
* keys, secrets and tokens that expire or are replaced while they are in use;
* a browser tab in which nothing is cancelled.

### What makes each component correct

| Component | Correctness |
|---|---|
| Outboxes | every committed row is sent; no row is closed unsent; no duplicate without a fault |
| Task worker | an acknowledged message has been processed, or one with its key has; messages of one key take effect once |
| Reconciler | the two stores agree; work is repeated for a reason only; every task is settled |
| Notifiers | no message is deleted undelivered; channels and batch members do not harm each other |
| Incidents | lifecycle rules of status and timestamps; processing is idempotent and never regresses a status |
| Circuit breaker | one probe; late results ignored; an outage ends |
| Incident API | every request is answered; what a user is told is true |
| Passwords | one usable link; no replacement on a stale proof; no deadlock; a change ends the sessions |
| Sessions | a refresh token is redeemed once; reuse ends the session; an innocent browser keeps it |
| Browser | the user on display is the one the token stands for; expired tokens cost nobody the session |
| Throttles | a bounded excess over the limits; Retry-After is enough |
| Service identity | honest callers are accepted through clocks, retries and new keys; old attempts lapse |

## 2. The modules

| Module | What it is | State in the code |
|---|---|---|
| `AtLeastOnceDelivery` | abstract: what an outbox promises | - |
| `OutboxRelay` | both outboxes with any number of relays | `row`, `attempted`, `age`: `publication_status`, `publish_attempts > 0`, time since `updated_at`; `holder`: `FOR UPDATE SKIP LOCKED`; `relay`: the place of a process in `relay_once`; `copies`: what SQS accepted |
| `OutboxRelayBackoff` | rows that SQS never accepts, in polling time | the same, a tick being `poll_seconds` |
| `TaskLifecycle` | abstract: what task processing promises | - |
| `TaskReconciliation` | reconcilers between DynamoDB and PostgreSQL | `exec`: item status, token and remaining lease; `completions`: transactions that committed the effect and found or made the completion row; `gone`: deleted incidents; `rec`: the place of a process in its cycle; `interrupted`, history: leases that ran out, commits whose answer was lost |
| `TaskReconciliationHeadOfLine` | tasks whose transaction never commits | the same |
| `Progress` | `OutboxRelayBackoff`, `TaskReconciliationHeadOfLine` and `IncidentRequests` side by side | theirs |
| `IncidentRequests` | creation of an incident through backend and incident service, then its notification, a look at it or at a page, its change or its removal | `call`: a user's request at the backend, with its connection; `remote`, `change`: the incident service's handlers of the creation and of the change; `lookup`: the request the former sends back; `incidents`, `done`, `tasks`: what is committed and published |
| `IncidentLifecycle` | the transactions that write one incident | `row`: status and two timestamps; `tx`: first read, second load, flush; `event`: the completion event |
| `CircuitBreaker` | the breaker and the operations under it | `_state`, `_consecutive_failures`, time since `_opened_at`, `_generation`; `call`: a thread's permit and attempt |
| `TaskWorker` | the Lambda, its queue and its two tables | `queue`, `receives`: SQS with redrive; `idempotency`: Powertools' records; `execution`: the items; `worker`: an invocation's batch and its place in it; histories: `notified`, `effects`, what the two handlers did |
| `SqsBatches` | a queue, its event source mapping, partial failure and redrive | `queue`, `receives`; `batch`: `event.Records`, the loop over them, `batchItemFailures` |
| `RealtimeNotifier` | both sides of the realtime notifier Lambda | `connections`: the table; `socket`: API Gateway; `dispatch`: the two promises of a record |
| `WebhookNotifier` | the webhook notifier Lambda | `config`: `cachedConfigPromise`; `secret`: Secrets Manager |
| `Notifications` | the two notifiers with the queue between them | a hand-off, named after its event and receive, is a message of the second queue |
| `SlidingWindow` | buckets of clock readings, `_prune` | ages in place of times, saturating where no reading keeps an entry |
| `LoginThrottle` | password logins under their throttle | `ipAttempts`, `accountFailures`: the buckets; `attempt`: a thread between the clock, the lock and the verification; `built`: the `lru_cache` of the dependency; histories: `tested`, `guessed`, what counts against a limit whatever the buckets hold |
| `PasswordResetThrottle` | reset requests under theirs | `ipRequests`, `accountRequests`; `asking`: a thread that has read the clock |
| `Throttles` | both over one clock and one set of threads | - |
| `ServiceTokens` | calls between the services, either direction, and the replacement of keys | `signing`, `accepted`: configured keys; `operation`: an operation's attempt with its token; `stragglers`: attempts left behind |
| `BrowserSession` | one tab, its cookie and the sessions behind it | `token`, `refresh`: `accessToken`, `refreshPromise` of `apiClient`; `user`, `restoring`: `AuthContext`; `entry`: `LoginPage`; `call`: `apiFetch` and the logout requests |
| `PasswordReset` | issue, confirm, reauthentication, change and login transactions of one account | `hash`, `token`, `session`: committed rows; `proofs`: fingerprints handed out; `tx`: what each transaction has read, locked and will write |
| `RefreshSessions` | one session, its browser and its tabs | `session`: `current_jti`, `revocation_reason`; `jar`: the cookie; `request`: server side and client side of each request |
| `Sessions` | `RefreshSessions` and `BrowserSession` side by side | theirs; the tab's `session` and `jar` are `tabSession` and `tabJar` |
| `MC...` | instances for TLC: symmetry, payloads, message contents | - |
| `...Proofs` | theorems and proofs about the module they extend | - |

An action is a step between two points at which something else can happen: a
statement of a READ COMMITTED transaction, a call to SQS or DynamoDB, a method
under the breaker's lock, the sending of a response, a commit. Everything a
handler does between two such points belongs to one action. Faults are actions
too (a process dies, a session is lost, an answer is lost, a lease or a record
runs out) and can happen at every point at which the code can meet them.

Data is kept only as far as the properties tell it apart. A timestamp taken by
a transaction is the transaction's name, a password hash is the name of the
writer, a token is named after the request that issued it. Ages saturate at the
only threshold the code compares them with. `generation`, an integer that only
grows and is only compared for equality, takes any value no permit in flight
carries.

*How the modules fit together.* `RealtimeNotifier` and `WebhookNotifier` extend
`SqsBatches`, each with a queue of its own; `Notifications` extends the former
and instantiates the latter, so that a step that hands off in one makes a message
arrive in the other. `Throttles`, `Progress` and `Sessions` put machines side
by side that share no state.

`OutboxRelay` meets `TaskReconciliation` at the completion outbox: the
row the reconciler's first `Commit` of a task makes is the one `Create` of the
relay starts from, and what the relay sends is a message of `Notifications`.
`TaskReconciliation.Commit` is the whole of one attempt of `IncidentLifecycle`.
`TaskWorker.Create` is `TaskReconciliation.Accept`; what the reconciler does to the
record later is nothing the worker looks at. `IncidentRequests.Commit` is
`OutboxRelay.Create` for the task outbox, and its `ChangeCommits` is the PATCH or the
DELETE of `IncidentLifecycle`, seen from the user who asked for it. A call that
`CircuitBreaker` or `ServiceTokens` refuses is one that fails in `IncidentRequests`.
`BrowserSession` sees of `RefreshSessions` what one tab can tell. These joints are not
composed into one specification; the modules on the two sides of each are checked
apart.

Some definitions deserve a remark:

* `IncidentLifecycle.Reread` follows from `repository.update`: it loads the row a
  second time (the session's identity map is weak and nothing holds the first
  copy), assigns every field, and the flush writes the fields that differ from
  the *second* load. So a concurrent commit is overwritten or mixed with field
  by field, depending on when it comes.
* `RefreshSessions.Answer` precedes `Commit`, and so do `IncidentRequests.Respond` and
  `ChangeResponds`: `get_db_session` is a dependency
  with `yield`, whose exit code runs after the response has been sent.
* `PasswordReset.VerifyProof` takes any proof handed out so far: a
  reauthentication proof is bound to the fingerprint of the password hash and to
  nothing else, so it serves any number of changes until one of them succeeds.
* `LoginThrottle.EndBuilding`: `lru_cache` does not lock the call it caches.
  Requests that arrive while no throttle is built each build one and use it once;
  `unseen` counts those attempts.
* `RealtimeNotifier.SaveConnection` inserts the row in the `$connect` route, before
  the socket is open. A broadcast in between is answered with `GoneException` and
  deletes the row (`early`): that connection hears of nothing until the client
  reconnects.
* `BrowserSession.SignOut` leaves the user on display: `handleSignOut` does not wait
  for `logout()`, so `LoginPage` sees a user and goes back to the page.

## 3. The runs

| Run | Instance | What it shows |
|---|---|---|
| `OutboxRelay` | 2 rows, 2 relays | duplicates need a fault; refines `AtLeastOnceDelivery` with its liveness: every row is sent, none is closed unsent |
| `TaskReconciliation` | 1 task, 3 competing reconcilers, 4 tokens | work is repeated only after a lease ran out or a commit went unanswered, exclusive leases; refines `TaskLifecycle` with its liveness, whatever dies, is lost or runs out |
| `Progress` | 3 rows, 2 of them poisoned, back-off of 3 polls; 2 tasks, one poisoned, batch of 2; 2 users, pool of 2, 2 read attempts | fewer poisoned rows than polls in a back-off, and fewer poisoned tasks than a batch, do not starve the others; every user is answered and told the truth |
| `IncidentLifecycle` | 2 attempts, 2 PATCHes, a DELETE, every initial row | lifecycle rules without overlap; the effect of processing with it |
| `IncidentLifecycleRegressed` | 1 attempt, 1 PATCH | **violated**, see section 4 |
| `CircuitBreaker` | 3 threads, threshold 2, 2 attempts | one probe, outages run their course, late results ignored, recovery |
| `TaskWorker` | a task, its operation under another `task_id`, another operation under its `task_id`, or a task and a notification issued twice; 2 invocations, batches of 2, 2 receives | nothing is acknowledged whose operation has not been carried out, one effect per key while the table knows it, every message is settled |
| `Notifications` | 2 events, one malformed, 2 connections, one established, an invocation of each Lambda, batches of 2, 2 receives, 2 secrets | nothing is deleted unannounced or undelivered; channels and batch members do not harm each other; rows of open sockets stay |
| `PasswordReset` | 2 issues, 2 confirms, 2 changes, 1 login | one usable token, no cycle of locks, sessions end with the password, no replacement on a stale proof |
| `Sessions` | 2 tabs, 3 refreshes, a logout, a logout-all; a tab with 2 calls, 2 sign-ins, 2 rotations | single redemption, reuse detection, final revocation, no session lost without a cause; user and token agree; expiry costs nobody the session |
| `ServiceTokens` | 1 operation between the services, 3 keys, lifetime 3 of at most 6 s, timeout 2 s, 2 read attempts | honest calls are refused only between the two steps of a key without overlap; late attempts lapse |
| `Throttles` | 2 threads, 1 address, 1 account, limits of 2, windows of 1 and 3 ticks (login), 2 and 3 (reset), readings up to 1 tick old | the excess over each limit is bounded; Retry-After is enough |

`Progress`, `Throttles`, `Sessions` and `Notifications` each hold several
machines. The first three have no variable in common, so each machine is explored
while the others are as they were at the start; in `Notifications` the realtime
notifier does not depend on what becomes of a hand-off, and the webhook notifier
is explored under hand-offs that arrive at any time. Every property is about the
variables of one machine, so nothing is lost by leaving out the product.

### Bounds, and why they are enough

* *Actors.* All the races of this code are between two actors over one object:
  two relays and a row, two reconcilers and a task, two tabs and a session. Two
  are enough to have one stale and one current. The breaker has three threads:
  a late result, a probe, and a caller that finds the circuit half-open.
  A third reconciler is there so that a claim can be contested while a stale owner
  is still at work. The throttles' two threads give one stale and one fresh clock.
* *Objects.* Two rows or tasks give an order in line and a batch with a rest;
  `Progress` has three rows, so that two fail and one waits behind them. A malformed event beside
  a sound one gives a batch that partly fails. A pool of two is all taken when
  two users create at a time, and their lookups find none left.
* *Times.* `RetryTicks`, `LeaseTicks` and `RecoveryTicks` are 1 where only "run
  out or not" counts, 3 for the rows of `Progress`, where the number of polls in a
  back-off is the point. A window of 3 holds failures of several ages; one of 1 is
  over before a reading of age 1 is used. In `ServiceTokens` the lifetime exceeds the
  timeout by one second, the tightest case, and the overlap of keys (6) the longest
  operation (2 attempts of at most 3 s) by nothing.
* `MaxLag` bounds the ticks a thread waits for the lock of a throttle, `MaxSignIns`
  and `MaxRotations` what happens in a tab: one sign-in after another and a
  second refresh while a call waits for the first result. The run of the tab stops in
  states that are `entangled`, of which nothing is claimed.
* *Tokens and generations.* Enough that a fresh one exists in every state: one
  per process in flight, one per item and one to spare. No run can be stopped by
  their number, because only values still referred to are in use.
* *Transactions and requests that happen once* (`IncidentLifecycle`,
  `PasswordReset`, `RefreshSessions`): two of a kind can race, three refreshes
  let a token be rotated, rotated again and presented late. A fresh logical
  request is another member of the set, not a repetition.
* `copies`, `completions` and `effects` count to 2, which stands for "two or more";
  `receives` counts to `MaxReceives`, after which the message is dead anyway.

`CHECK_DEADLOCK FALSE` stands in the configurations of `IncidentLifecycle`,
`PasswordReset`, `Sessions`, `TaskWorker` and `Notifications`: their transactions,
requests and messages happen once, so those systems come to rest when all have
ended, and a tab stops after its last sign-in or when it is entangled. In
`PasswordReset` the freedom from deadlock that matters is the invariant
`NoLockCycle`, since a transaction can always be aborted and TLC would not see
two waiting for each other. The other modules never stop.

Symmetry is used for invariants and action properties only, never in a run
with a liveness property. `Notifications`, `Sessions`, `Throttles` and `ServiceTokens`
are run without fairness, as nothing is claimed there of what must happen.

### Fairness

| Module | Assumption | Why the code justifies it |
|---|---|---|
| `OutboxRelay` | weak: a process takes its next step, time passes | loops with a sleep, containers that restart unless stopped |
| | strong: a send under a held lock is accepted, a process survives from the answer to the commit, if tried for ever | faults are possible in each try, not certain in all |
| `OutboxRelayBackoff` | weak: every relay ends its attempt; strong: sends of sound rows | as above; there are no process faults in this module |
| `TaskReconciliation` | weak: steps and time; strong: claim, read, commit and mark under a valid claim | as above: the reconciler polls for ever and takes failed tasks up again |
| `TaskReconciliationHeadOfLine` | weak: steps and time; strong: claim, read, commit and mark of sound tasks | as above, without crashes (section 6) |
| `IncidentRequests` | weak: the backend takes up waiting requests, answers them, and its timers run | uvicorn and the pool serve waiters; the HTTP client and the pool have timeouts. The incident service has no fairness: it may hang for ever |
| `CircuitBreaker` | weak: requests keep coming once a probe may go out, every operation ends, time passes | HTTP timeouts end every operation; traffic is the assumption |
| `TaskWorker` | weak: the queue is polled, an invocation goes on or dies | event source mapping; Lambda's timeout |

Faults have no fairness, and no property depends on their ever stopping, except
where it says so: `RecoversWithTheService` speaks of behaviours in which the
incident service is up for good from some point on.

### Mutants

Beside the definitions stand variants named `Faulty...`, each with one plausible
mistake (a lock not taken, a condition dropped, a count not reset). No
specification uses them. Substituted for the definition they vary, each makes
TLC report the property that is meant to catch it, so no property holds for want
of a way to break it. `PROJECT.json` lists the pairs.

## 4. Where the code and its words differ

* **Processing can regress a status.** The docstring of
  `IncidentTaskProcessingService` says of MONITORING and RESOLVED "never
  regressed by asynchronous processing". `process()` reads the incident without
  a lock, `repository.update` loads it again and assigns it the status computed from
  the first read, and the flush writes the fields that differ from what was loaded. In
  the trace of `IncidentLifecycleRegressed` (`NeverRegressed`) a PATCH to MONITORING
  reads and commits after the second load and before the flush, which writes
  INVESTIGATING over it. Only the status is lost then: the `resolved_at` of a PATCH to
  RESOLVED, a field that the attempt does not write, stays beside a status that is not
  resolved. A PATCH that commits before
  the second load loses its status too, and its `resolved_at` with it, since the loaded
  value differs from the computed one. The same overlap is the reason why the lifecycle
  properties of `IncidentLifecycle` say `~overlap`.
* **A lost probe leaves the circuit half-open.** The README says that a
  successful probe closes the circuit and a failed one reopens it.
  `HttpIncidentGateway._request` reports timeouts, transport errors, responses
  and identity errors; any other exception in the half-open probe ends the
  operation without a result, and the breaker then rejects every call until the
  process restarts. `CircuitBreaker.HalfOpenHasItsProbe` states what is expected and
  does not hold; `HalfOpenUnlessLost`, which excuses a lost probe, is proved
  (`ProbeDecides`), and `RecoversWithTheService` excuses it too.
* **Logging out does not take the path its comment gives it.** A comment of
  `AuthContext` says that `logoutRequest` deliberately uses direct `fetch`; `authApi`
  sends it through `apiFetch`. It makes no difference to the tab: a logout carries no
  access token that could be refused, so it never enters the refresh, and
  `BrowserSession` models it as it is sent.
* **Two lengths for one wait.** The runbook for service keys
  (`docs/runbooks/service-identity-keys.md`) keeps the previous key for longer than
  the maximum lifetime of a token, the contract
  (`docs/architecture/service-identity-contract.md`) adds the clock skew. The runbook's
  is enough for calls whose caller still waits: `RefusedOnlyBetweenTheSwitches` is
  checked with it.

Limits the modules make visible, which no document denies:

* The backend verifies with one key. While the incident service signs with another,
  in the gap between the two steps of a replacement, its lookups are refused, and
  creations of incidents fail with 503. `RefusedOnlyBetweenTheSwitches` says that
  this is the only gap.
* A token outlives its attempt only by configuration: no check relates the
  lifetime to the client's timeout. `ServiceTokens` assumes `Timeout < Ttl`.
* A creation holds one connection of the backend's pool (SQLAlchemy's default: 5, and
  10 in overflow) while the lookup it causes needs another. With as many creations
  as connections all of them fail by timeout (`IncidentRequests`);
  `EveryRequestIsAnswered` says that each still gets its answer.
* A user can be told 201 for an incident whose commit then fails (`lost`).
* The webhook notifier returns every failed message to its queue, whatever
  `retryable` says of it, and a batch of ten at five seconds each does not fit into
  the thirty seconds of an invocation: a slow endpoint costs delivered messages a
  repetition and all of them a receive (`cut`).
* Its configuration is loaded once for each environment: after the secret is
  replaced, messages are refused until the environment goes, and their receives run
  out meanwhile.
* A tab in which the user signs in or out while a call, a refresh or the restoration of
  before is under way may end with a token and no user, with a user and no token (its
  calls are then refused without signing it out), or have the cookie of a new
  session cleared by a late logout. `BrowserSession` calls this `entangled`.

## 5. What is proved

For every value of the constants, from the named assumptions of the modules
(messages and tasks are numbers, since the code orders them by `created_at`;
`None` is no message, relay, token, content, transaction or verdict; transactions of
different kinds, and the timestamps and hashes named after them, are different;
a malformed event is an event; thresholds, limits and ticks are positive; a process has
finitely many threads, and there is an address and an account; and a read makes
one attempt at least; no page is one of the calls that sign in or out; the clocks
of the services differ by no more than the skew that is allowed for, a token lives
longer than a client waits, and the longest operation ends before operators remove
a key):

| Module | Theorem | Says |
|---|---|---|
| `ProgressProofs` | `TypeCorrect` | types of the relay |
| | `ClosedRowsLeft` | `[]PublishedWasAccepted` |
| | `NoNeedlessDuplicates` | `[]DuplicatesNeedAFault` |
| | `ClosedRowsStayClosed` | `PublishedIsFinal` |
| | `ImplementsOutbox` | the relay implements the safety part of `AtLeastOnceDelivery` |
| | `UsersAreToldTheTruth` | `[]AnswersAreTrue`, in the composition of relay, reconciler and requests |
| `TaskReconciliationProofs` | `TypeCorrect` | types |
| | `SuccessIsReal`, `FailureIsReal` | `[]SucceededWasApplied`, `[]FailedOnlyIfDeleted` |
| | `RepeatsHaveAReason` | `[]WorkIsRepeatedForAReason` |
| | `SettledStaysSettled`, `LeaseIsExclusive` | `SettledIsFinal`, `ClaimHoldsForTheLease` |
| | `ImplementsLifecycle` | the reconciler implements the safety part of `TaskLifecycle` |
| `GatewayProofs` | `TypeCorrect` | types of the breaker |
| | `OneProbe`, `CountIsRight`, `ProbeDecides` | `[]SingleProbe`, `[]CountMatchesState`, `[]HalfOpenUnlessLost` |
| | `OutagesRunTheirCourse`, `LateResultsIgnored` | `OutageRunsItsCourse`, `LateResultsAreIgnored` |
| | `ForgottenAttemptsExpire` | `[]LateAttemptsExpire`, of `ServiceTokens` |
| | `HonestCallersAreHeard` | `RefusedOnlyBetweenTheSwitches` |
| `SessionsProofs` | `TypeCorrect` | types of `RefreshSessions` |
| | `TokensAreRedeemedOnce`, `ReuseIsPunished` | `[]OneRedemption`, `[]ReuseEndsTheSession` |
| | `RevocationIsFinal` | `RevokedIsFinal` |
| | `BrowsersKeepTheirSession` | `[]BrowserKeepsItsSession` |
| | `DisplayFollowsTheToken` | `[]UserAndTokenAgree`, of a tab, with the types |
| | `ExpiryCostsNoSession` | `StaysSignedIn` |
| `NotificationsProofs` | `DeletedRecordsWereAnnounced`, `DeletedMessagesWereTaken` | `[]AcknowledgedWasAnnounced`, `[]DeliveredBeforeDeleted` |
| | `OneChannelDoesNotPreventTheOther` | `[]ChannelsAreIndependent` |
| | `HandedOffOnce` | `[]RepeatsNeedAFailure` |
| | `OpenSocketsAreListed` | `[]OpenConnectionsAreListed` |
| | `DeadMessagesFailedThemselves` | `[]DeadByItsOwnFailures`, with the types |
| `TaskWorkerProofs` | `AcknowledgedTasksWereProcessed` | `[]AcknowledgedWasProcessed`, with the types |
| | `KeysTakeEffectOnce` | `[]OneEffectPerKey` |
| `AccountProofs` | `OneTokenAtATime` | `[]OneUsableToken` |
| | `LiveSessionsAreOfThePassword` | `[]SessionsFollowThePassword` |
| | `ChangesAreVerified` | `ChangesBuildOnWhatTheyVerified` |
| | `NoDeadlock` | `[]NoLockCycle` |
| | `RetryAfterHolds` | `[]RetryAfterIsEnough` |
| | `GuessesHold`, `AttemptsHold` | `[]GuessesAreLimited`, `[]AttemptsAreLimited`, with the types |
| `IncidentLifecycleProofs` | `ResolvedIncidentsAreStamped` | `[]ResolvedTimestampLifecycle` |
| | `ReportedEffectsLast` | `[]EffectIsReached` |
| | `EventsReportTheCommit` | `EventReportsTheCommit` |

**OutboxRelay.** "A published row was accepted" is not inductive: a relay that
has an answer in hand is about to publish. `InHand` says what a relay in each
phase knows about its row, `LocksHeld` that a lock belongs to a pending row its
holder works on, `Accounted` that only existing rows have copies. For the
duplicates, `Unfaulted` says of a row without a fault that whoever has it in hand
holds its lock, and that its one copy belongs to a closed row or to the lock
holder on its way to close it. Their conjunction with `TypeOK` is `IInv`.

**TaskReconciliation.** `Remembered` carries what a reconciler knows from one
store to the other: in phase `done` its transaction has committed, in phase
`missing` the incident was gone; neither is undone by anybody, so it holds even
after the lease has run out. `Listed` and `CommittedWereAccepted` keep
reconcilers to existing tasks. `TokensHeld` and `TokensDiffer` say that a task in
progress has exactly the token of its claim and that no two reconcilers hold the
same one: the lease is exclusive because a stale owner's token does not match.
Tokens are fresh by assumption: `uuid4()` does not repeat a value in use.
That a task is worked on again for a reason only (`WorkIsRepeatedForAReason`) needs to
know what becomes of a claim that was not interrupted: `Uninterrupted` says that a
committed task outside `interrupted` is still PROCESSING under the token of the one
reconciler in phase `done`, or SUCCEEDED, and that no other reconciler is past its
claim; so nobody else can claim it, and the first has no way back to its commit.

**CircuitBreaker.** The argument is about permits. While the circuit is
half-open, a probe in flight carries the current generation and there is at most
one; `LateIsOutdated` says that an operation in flight across an opening or
closing never carries it again.

**ServiceTokens.** A token's age in the receiver's clock is tied to the time its
attempt has been under way (`InTime`): one cannot exceed the other by more than the
clocks may differ, so a token expires neither before its attempt ends nor, once its
caller has gone (`StragglersAge`), much later than it. While both keys are accepted, no
operation has run longer than the keys have overlapped (`KeysOverlap`), and the longest
operation is shorter than the operators' wait: whoever still signs with the old key
is through when it is removed. A receiver with one key accepts nothing but that
(`OneKeyAtCore`), so that the gap is between the two steps and nowhere else.

**RefreshSessions.** Between the verdict and the commit lies the response, so the
argument needs that the row cannot move meanwhile: `Serial` says that at most one
request is between its lock and the end of its transaction, and `VerdictHolds`
that the row still is what the verdict was based on. `Redeemed` adds the past:
the token a committed rotation was given is not current, and cannot become so
again, since a rotation installs a token of its own name and a redeemed one was
committed before. `OnlyRotations` (a live session has seen no other commits)
gives reuse detection. `BrowserKeepsItsSession` rests on `KeptInv`, which speaks of
the time before anything excuses a loss: one request is awaited, it decides only
after the one before it has committed (`LastHadTheRow`), presents what the jar has
(`CookieIsTheJars`), and the jar gets what the row is about to get (`JarFollows`).
A cookie that is not the row's therefore never reaches the server.

**BrowserSession.** Unless somebody signed in or out while something of before was
under way, a tab is in one of seven phases (`InAPhase`): restoring, asking
`/auth/me` after a restoration or a sign-in, undoing a sign-in, signing in, signed
out, showing a user. Each says what can be under way and whose the token is. What
could take a tab from one to a wrong one is a call that is refused for good: none
is, since a token in its first use has not expired (`InUseIsValid`), a refresh
brings a token that is newer than all that have, and a sign-in brings one of a
session that has had none (`Issued`). A refusal of the refresh itself, while a
user is on display, means that the session is over.

**IncidentRequests.** A user's answer is given by the backend while the handler
of the incident service may still be at work, so the argument is about the two
together: `Sound` says that nobody has been told anything before the request has
had its turn, that an incident exists only once its handler has ended, and that a
denial was that handler's last word. A handler that is over writes nothing more,
so an answer stays true. The handler of a change has found the incident, so the
creation is behind it, and a removal stays one: only the creation's handler writes a
row. Whoever is shown the incident has sent nothing that could remove it.

**Notifications.** A record is followed through its invocation. `Batches` says
that a message is with one invocation at most and that a dispatch belongs to a
current, well-formed record. `Underway` says what each channel of the current
record has brought about so far; once the loop has left the record behind,
`Left` keeps that as "through" or as "failed, and each channel tried", until the
answer turns it into a deletion or a return (`Ended`). What has been achieved
lasts (`Growing`, `Lasting`): a connection that a broadcast found open can close
but not open again, and only another broadcast of the same event, which no other
invocation has, would list the connections anew. `Once` ties the number of
receives to the failures, and a hand-off to its receive. The webhook notifier
needs less: `Delivered` says that the endpoint has taken what the loop has left
behind without a failure, and the realtime notifier only makes messages arrive.
A dead message needs a count: `CountInv` compares the failures of a message with
its receives, which agree unless an invocation that had it was cut off, or differ
by the receive that an invocation is still at work with.
`NotificationsProofs` is about `Notifications!Spec`, in which both halves run at
once; the run explores them one at a time.

**TaskWorker.** What has been processed stays so (`Keeping`). `OneInvocation` says that
no two invocations have the same message; `Outcomes` follows a message from the return
of its handler, or from a COMPLETED idempotency record, through the lists of its batch
to the deletion. At each of these places its key is `Handled`: a message with the key
has been processed, the message itself or one that the table takes for it. `Effects`
is about the key: of the invocations that have messages of a key, one at most is in
its handler, and the record is INPROGRESS then; a handler that has just begun finds
that nothing has taken effect since the table last lost the key, because an absent
record means so. `OneEffectPerKey` does not say that the table never loses a key: the
record expires, it lapses after an invocation that died, and a handler that raises
although its insert was made has it deleted. A message of the key may then take effect
again, for a task under another `task_id`; under the same one the insert finds the record.

**PasswordReset.** The argument is about locks. The advisory lock makes issues take
turns from their snapshot to their commit, so that a snapshot never misses an active
token (`Knows`), and what it finds it invalidates: one token is active at most.
A confirm has the row of that token, which leaves it nothing else to invalidate.
So nobody who has the users row waits for a token's row, and a ring of waiting
transactions, which would need such a step, cannot close. The users row also keeps a
verified hash true until the commit; a login that the row does not stop is
remembered in `overlapped`.

**Throttles.** A bucket grows at its end and loses its head, and that is all the
argument uses of it (`SuffixFacts`, `PrunedFacts`): entries are not in order, since a
reading of the clock may be older than one already stored. Retry-After is enough
because the entry it waits for, and all that have to go with it, are behind the head
by less than the limit, whatever is pruned or admitted meanwhile (`Covered`,
`PromiseIsKept`). For logins the limits are compared with what happened and not with what
the buckets say happened: `guessed` keeps every failure since the last login, `tested`
every attempt that the address was not refused. `Follows` says that a bucket is the
end of its history, up to entries too old to count. An account has room for
all the attempts that are being verified (`AccountsInv`): an attempt is admitted
below the limit, and its failure takes the place it gives up. So the excess over
`AccountMaxFailures` is at most the number of the other threads. An attempt within the
window may be missing from the bucket of its address only if its reading was old when
it was counted. A thread reads the clock after its last attempt was counted (`InTurn`,
`Fresh`), so there is at most one such attempt for each thread. `BuildersInv` counts the
threads that find no throttle: the one that is kept is one of theirs, so fewer attempts
than there are threads go unseen.

**IncidentLifecycle.** Until two transactions overlap (`Alone`), the one in flight
has loaded the row that it writes (`UpToDate`), and since the rules make a stamped
row of a stamped row, the incident is resolved exactly when it has its timestamp.
Attempts may overlap when leases have expired. Then `Processing` carries the
argument: an attempt writes the whole effect, or leaves alone what was there when
it loaded the row, and no attempt takes it back.

The refinement theorems take every action to an action of the abstract module
or to a stutter. A second send and the deletion of an incident whose task is
absent are the cases to look at.

## 6. What is only model-checked, and what is left out

*TLC only.* Liveness and everything that rests on fairness
(`DeliversAtLeastOnce`, `HealthyRowsPublished`, `SettlesEveryTask`,
`HealthyTasksSettle`, `EveryRequestIsAnswered`, `RecoversWithTheService`,
`EveryMessageIsSettled`), for which the proof system has no rules. Every
safety property that a passing run checks is also a theorem of section 5, or an
instance of one.

*Proved only.* Section 5 lists theorems without a run of their own
(`ClosedRowsLeft`, `ClosedRowsStayClosed`, `SuccessIsReal`, `FailureIsReal`,
`SettledStaysSettled`, `CountIsRight`, `ProbeDecides`): the refinements and
properties that are run imply or subsume what they say on the instances.

*Abstractions worth knowing.*

* `OutboxRelay`: rows are ordered by number; `created_at` ties are not modelled.
* `TaskReconciliation`: an execution item never expires (its TTL is 30 days by
  default, a task is retried every few seconds). A
  reply lost by DynamoDB after the call was applied is `ClaimReplyLost`; for the
  marks it is covered by the mark itself, whose answer changes nothing.
* `Notifications`: the event source mapping of the webhook notifier is declared with
  `enabled = false`; the module describes the pipeline with it turned on. A
  connection id is never used again; the TTL of a row removes rows of closed
  sockets. The signature is right exactly when the secret is the current one. The
  visibility timeout (180 s) is longer than an invocation, so a message is with
  one invocation at a time; that SQS may hand out a message a second time without any
  of that is left out. There is no liveness: an endpoint that
  refuses everything sends everything to the dead-letter queue.
* `IncidentRequests`: the breaker and the credentials are refusals that may happen;
  a user creates one incident and makes one more request about it; the idempotency key of a
  notification is determined by the incident. A PATCH leaves the incident at its service:
  one that moves it looks the new service up as a creation does, and is left out. What the
  filters and the offset of a list leave of the incidents is any subset of them. The role
  of a user is not kept: any request may be denied. Deleting a service leaves its incidents,
  which refer to it by number only.
* `SlidingWindow`: clock readings are whole ticks; a reading is used within `MaxLag`
  ticks. The keyed digests under which the buckets are kept are the addresses and
  accounts themselves. A process has buckets of its own; several are not modelled.
* `ServiceTokens`: a credential is signed for each attempt and not cached. Keys are
  loaded once in a process, so a replacement is a restart, whose old process ends
  with its operations. A 401 or 403 is not retried and counts for the breaker as an
  answer; a lookup that fails makes the creation answer 503, which the breaker
  counts as a failure.
* `BrowserSession`: a tab; the sessions of others are not seen. An access token does
  not expire between its arrival and the calls it was fetched for, some fifteen
  minutes. 401 with another code does not occur on the routes that pages call.
* `TaskReconciliationHeadOfLine` leaves out crashes: a process that dies on the
  same task in every cycle serves nobody else once a cycle takes as long as a
  lease.
* `IncidentLifecycle`: status and two timestamps; the other fields take the same
  path and no rule relates them. Listing and the HTTP layer are left out.
* `TaskWorker`: the idempotency key alone decides which record a message meets
  (`event_key_jmespath`), whatever its `task_id`, as the contract of the tasks has it; a
  repeated request for a notification is such a message
  (`incident_notification_service.py`). The key is one of the fields an existing
  execution record is compared in, so messages of equal content share it. A handled
  notification is the line its handler logs, which the history `notified` stands for,
  as it leaves no record. The checks of single envelope fields are one choice, `Reject`.
  In-progress records
  lapse when no invocation is at work with them, which is what their expiry at
  the end of the invocation means; the visibility timeout (180 s) exceeds the
  Lambda timeout (30 s). Idempotency and execution records have retention periods of
  their own (30 days each by default); the model lets the former run out and
  keeps the latter.
* `PasswordReset`: a token's expiry, a refused password and a failed delivery
  raise and roll back, and are all `Abort`. A login under way while a change
  holds the users row is excused in `SessionsFollowThePassword`: its session is
  not among those the change can see.
* `RefreshSessions`: one session; a new login is not modelled. A request refused before it
  reaches the row (a token that does not decode, a CSRF failure) ends as `Refuse`; a logout
  refused so clears the cookie all the same. That, lost responses,
  failed commits and overlapping requests of two tabs are remembered in
  `excused`: the code ends the session in such cases, and
  `BrowserKeepsItsSession` says that it does so in no others.

*Not modelled.* The circuit gauge is set label by label, so that a scrape may
show two states or none; nothing in the program reads it back. Session maintenance
deletes sessions that nobody can use. The overview, users and authorization, middleware,
settings, the task publisher Lambda, the rendering of pages, migrations,
Terraform and scripts, and of the catalogue all but the lookup and the deletion,
keep no state that steps of two actors could bring out of order; constants of
Terraform are cited where a module depends on them. An execution record expires a
fixed time after its acceptance (30 days): one unsettled for so long disappears,
which no module follows. JWT, hashing, SQS, DynamoDB,
PostgreSQL and Powertools are external and modelled by the way the code uses
them.

## 7. Plan

The order was: an incident's task must reach its effect (outbox, worker,
reconciler, incident), then the backend's path to it (breaker, requests, service
tokens), accounts (passwords, sessions, throttles, the tab), and what tells people
about it (the notifiers). All of these have a module now. What is left:

1. A composition of `OutboxRelay`, `TaskWorker` and `TaskReconciliation` under one
   end-to-end abstract specification: every created incident's task is applied
   once, although it may be sent, received and claimed any number of times.
2. The expiry of execution records in `TaskReconciliation`, together with the
   redelivery of a task whose record has gone.
3. Several tabs with several sessions: `BrowserSession` over `RefreshSessions`.
