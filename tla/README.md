# A verification project for SmartGateway

SmartGateway (the Go module under `src/`) is an HTTP reverse proxy with
hot-reloaded routes, load balancing, health checking, a rate limiter and a
circuit breaker, and beside it a "Harness" control layer, security middleware
and a skeleton of an agent system. This directory holds TLA+ modules translated from that code, the
TLC configurations that check them and TLAPS proofs about them. `PROJECT.json`
is the index: it says for every definition which lines of the source it models.

Run `tlc -config X.cfg M` for the pairs in the table of runs, and `tlapm M.tla`
for the modules whose name ends in `Proofs`.

## 1. The system

### Parts, state and operations

| Part | State | Operations that change it |
|---|---|---|
| `pkg/config` ConfigManager | the current configuration, a list of watcher channels, `cm.mu` | `LoadFromFile`, `LoadFromJSON` (replace, then a non-blocking send to every watcher), `RegisterWatcher` |
| `pkg/router` Router | the route table `r.routes`, `r.mu` | `LoadFromConfig`, `UpdateRoutes`, the goroutine `watchConfigChanges`; `AddMiddleware` |
| `pkg/loadbalancer` | per route: the node list, a cursor; per node: `Healthy`, `FailCount`, `ActiveConns` | `Next`, `Add`, `Remove`, `UpdateHealth`; `SetHealthy`, `IncrConns`, `DecrConns` |
| `pkg/health` HealthChecker | the map of checkers, consecutive counts of each, `stopCh` | `Start`, `Stop`, `RegisterBackend`, `UnregisterBackend`, the loop `run` / `checkAll` / `checkOne` |
| `pkg/middleware` CircuitBreaker | state, counters, last failure time | `Allow`, `RecordSuccess`, `RecordFailure`, `Reset`, `UpdateConfig` |
| `pkg/middleware` RateLimiter, TokenBucket | the global bucket, a map of key buckets; tokens and refill time of each | `Allow`, `Cleanup`, `UpdateConfig` |
| `cmd/main.go` | the `http.Server`, the goroutine that waits for a signal, one goroutine per request | start-up, `createGatewayHandler`, `gracefulShutdown`, exit |
| `pkg/harness` (+ `auth`, `compliance`, `audit`) | three controllers' configurations, each under its lock, all under `h.mu` | `CheckRequest`, `UpdateConfig` of the harness and of each controller |
| `pkg/middleware` AuthMiddleware | the cache of validated JWTs, a `sync.Map` | `Authenticate` in four ways, `Cleanup` |
| `pkg/middleware` ReplayProtection | the nonces seen and when, a `sync.Map` | `Check`, `ValidateRequestSignature`, the goroutine `cleanupLoop` |
| `pkg/middleware` ACLMiddleware, GeoIPBlocker | compiled lists, a default, a set of countries, two flags | `Allow`, `IsBlocked`; `UpdateConfig`, adding to and removing from the lists, `Enable`, `Disable` |
| `pkg/middleware` AuditLog | a bounded list | `Add` |
| `pkg/server` | the parts it builds, metrics counters | `NewGatewayServer`, `RecordRequest` |
| `pkg/agent` | the configuration of each of four agents, the coordinator's history | `ProcessTask`, `UpdateConfig` of the framework and of each agent |
| `pkg/evolution` | memories, a skill registry, strategy scores, each with its configuration | `Evolve`, `UpdateConfig`; store, clear, register and unregister |
| `pkg/logging` | the output | formatting and writing |

### How they interact

`main` loads a configuration, validates it, builds the router from its own copy
and starts the HTTP server, the health checker and the goroutine of the stop.
The router's goroutine registers a one-place channel with the manager and
rebuilds the table for each configuration it receives: new balancers and new
`*BackendNode` objects every time. A request's goroutine looks its route up in
the table, asks the route's balancer for a node, counts itself on the node,
proxies, and uncounts itself in a deferred call. The health checker writes the
same nodes' flags through its own pointers. The breaker and the limiter are
libraries: only tests call them.

`NewGatewayServer` builds everything else from one configuration and keeps it.
No operation of the server touches two of those parts, and each has locks of its
own; what is shared is within a part: a map between the handlers and a clean-up
goroutine, a configuration between those who use and those who replace it, and
the agents or evolution parts that a getter hands out behind the lock of their
owner.

### What is hard about it

*Concurrency without a common lock.* A balancer's `Next` reads node flags and
counts which others write under other locks; the limiter reads `config` and
`globalBkt` with no lock; the breaker reads `Enabled` before it locks; the
harness's configuration is three objects, that of the agents four, that of the
evolution base three; the ACL reads its flag before it locks; the nonce table
looks a nonce up and stores it in two steps, with a time read before both, while
the clean-up goroutine reads and deletes in two steps.
*Ordering.* Reloads overtake the router's registration and each other, and are
dropped when the channel is full; results of requests reach the breaker after
it has changed state; a sweep of the health checker outlives the registration
of what it probes.
*Stale references.* Handlers keep routes, nodes and buckets which a reload,
`Remove`, `Cleanup` or `UpdateConfig` has replaced.
*Failure paths.* The proxy may panic after it answered; `Validate` of the
compliance controller may panic under two locks; a pattern may panic the router.
*Time.* Lazy refill, open timeouts, thresholds of consecutive probes, the
deadline of `Shutdown`, the window of a timestamp and the life of its nonce.

### What makes each part correct

| Part | Property |
|---|---|
| reload | the router never goes back; what is delivered is applied; reloads that wait for one another all take effect |
| balancers | healthy nodes take turns and none starves; the fallback is for lists without a healthy node; counts neither leak nor go negative; a least-connections choice is only as stale as the scan was disturbed |
| breaker | a failing backend is exposed to a bounded run of requests; open means shut for a full timeout; it does not stay open for ever |
| limiter | no stretch of time lets through more than the burst and its refill, per bucket and per key; racing callers share one bucket |
| health checker | thresholds count probes in a row; the flag follows the backend; `Stop` ends the loop |
| gateway | replaced tables drain; counts and access log match what happened on every path; a received signal ends the process |
| harness | a check is atomic: one configuration, one decision, one record of it; nobody waits for ever |
| matcher | a route takes what its pattern says, and the first that does serves |
| replay protection | a request that was accepted is not accepted again; what is past the window is forgotten |
| authentication | the cache changes no answer |
| ACL, GeoIP | a decision was right at some moment of the call |
| audit log, history, memories, registry | the latest entries, as many as the limits allow, whatever the order of calls |
| agents | a task meets one configuration in all four agents |
| evolution base | what is stored by `Evolve` is analysed, and scores count it |

The full list, with lines, is `hazards` in `PROJECT.json`.

## 2. The modules

A step is what the code does without letting another goroutine observe the
middle of it: a critical section, or a single unlocked read. Variables and
actions carry the names of the code. Variables commented `history` exist for
the properties and guard nothing. Definitions commented `Mutant:` are plausible
mistakes in the definition that follows each; no specification uses them. They
show that the properties notice.

**ConfigReload** (`config.go`, the loading side of `router.go`, the start of
`main.go`). A configuration is the number of its load and a kind: `good`,
`invalid` (rejected by `Validate`), `panics` (accepted, with a pattern that
makes `regexp.MustCompile` panic). `LoadFromJSON` is one step under `cm.mu`,
with `Notify` for the `select` with a default. `main`'s four phases, the
watcher's registration, its receive and its `UpdateRoutes` are steps. A failed
load at start-up leaves the empty configuration, as in the code; `Reload` is
any other caller of a load.

**BackendNode, BaseLB**. What the balancers and the health checker have in common:
a node's health flag, and the list with what `Add` and `Remove` do to it.

**NodeChoice**. What a request handler relies on, whichever balancer it asks: from
`Ask` to `Answer` the list stays as it is, the health of the nodes does not, and
the answer is a listed node; unless every node was unhealthy at some moment of the
call, it was healthy at one. `lasting` are the nodes healthy all through the call;
`noticed` those a caller may yet come back to, which the balancers keep in a local.
RoundRobin and SharedBalancer implement it (`ImplementsChoice`,
`ImplementsSharedChoice`): a scan is a call, what it has found is what it noticed.

**RoundRobin** (`RoundRobinLB`). `Next` holds the lock but reads each node's
flag separately, so it is one step per node (`NextLock`, `NextHit`, `NextMiss`,
`NextFallback`, or `NextEmpty`). `SetHealthy` interleaves with it; `Add`,
`Remove` and `UpdateHealth` wait for the lock.

**SharedBalancer** (`RandomLB`, `LeastConnLB`, the handler's accounting in
`main.go`). `Next` holds the lock for reading, so handlers scan at the same
time. Each read of a flag (`LookHealthy`, `LookUnhealthy`) and of a count
(`Count`) is a step, as are `IncrConns` and the deferred `DecrConns` (`Finish`).
`RandomLB`'s clock-derived start is a free choice.

**CircuitBreaker**. `AllowUnlocked` is the read of `Enabled` outside the lock;
`AllowProbe`, `AllowReject` and `AllowPass` are the branches under it. Callers
record one result for each request that was let through, whenever they like.
Time is ticks; ages saturate at `MaxAge`, which exceeds every timeout.

**BucketOps, TokenPool, TokenBucket**. `BucketOps` is the arithmetic of
`TokenBucket.Allow`: `Refilled`, `HasToken`, `AfterAllow`, `Aged`, in exact
fractions of a token (`Unit` of them is one) where the code has `float64`.
`TokenPool` is the abstract specification, refilled at every tick;
`TokenBucket` implements it with `available <- Refilled(bucket)`. Its `Restart`
moves the start of the window the history variables count over.

**RateLimiter**. `Allow` in seven steps, for its unlocked reads and its critical
sections (the test of `globalBkt` against nil and the call on it, one after the
other with nothing stored in between, are one load in the compiled program): `AllowEnabled`, `ReadGlobal`, `TakeGlobal`, `ReadDimension`,
`Lookup`, `Create` (the double check), `TakeKey`. Buckets are in a heap,
because a caller goes on with a bucket that `Cleanup` or `UpdateConfig` has
taken out of use. `credit` and `globalCredit` are ideal pools with the largest
capacity and rate; the limits hold as long as they are not overdrawn.

**HealthChecker**. `Sweep` takes `checkAll`'s snapshot; `CheckOne`, `DoCheck`
and `Apply` are the start of a probe, its answer and the update. Checkers have
identities, so that the one being probed may have left the map while a new one
is in it. Backends go up and down at will. `up` is the external world; an address
whose health URL does not parse is one that never goes up. `IncrFail` is not called
for it, so a failing probe in the model may leave `failCount` as it was.

**Gateway** (`createGatewayHandler`, `gracefulShutdown` and the end of `main`,
over `FindRoute` and `UpdateRoutes`). A request is `Accept`, `FindRoute`,
`NextNode`, `IncrConns`, then one of `Relay`, `ErrorHandler`, `Abort` (the three
ends of `httputil.ReverseProxy`), then `AccessLog`. Nodes belong to the table
that made them. The process side is `Start`, `ListenAndServe`, `Notify`,
`Signal`, `Shutdown` (as far as closing the listener), `Expire`,
`ShutdownReturns`, `StopChecker` and `ServeReturns`. It composes what the other
modules detail: `NextNode` chooses any listed node, which is the `Answer` of
NodeChoice with the health left out; `UpdateRoutes` is ConfigReload's watcher.

**AtomicHarness, Harness** (`pkg/harness`). `AtomicHarness` is what a caller may
rely on: one step decides by one configuration and leaves the record. `Harness`
follows the code: `Authorize`, `Validate`, `Log` under the read lock, and
`UpdateAuth`, `UpdateCompliance`, `UpdateAudit` under the write lock, whose
preference for a waiting writer (Go's `RWMutex`) is in `RLock`, `Lock` and
`UpdateAudit`. The rules are written twice, once by what they accept and once in
the code's order, and the refinement compares them. A path is a sequence; a
blocked path longer than it makes the code's slice expression panic. Because
`Auth()`, `Compliance()` and `Audit()` hand the controllers out, a boolean says
whether anybody reconfigures one behind `h.mu`; atomicity is claimed only if not.

**RouteTable** (`router.go`, the matcher and the table). `NewSimpleRouteMatcher`
turns a host and a path into regular expressions, modelled as sequences of
elements that `Accepts` matches with the whole text, as the code's anchors ask:
`Reached` are the elements that can come next after so many characters, found
by going through the text once, as Go's matcher does. `Takes` says what an element
takes: the expressions are compiled without the flag s, so a line break, which
a path may hold, is taken by nothing but itself. `ServesAsWritten` compares the matcher
with what the patterns are written to mean, a wildcard being any run of characters
of one line.
`Match`, `FindRoute` and `GetRouteByName` are operators over the
table, `UpdateRoutes` and `AddMiddleware` the actions.

**ReplayProtection** (`auth.go`). A request is its nonce with a timestamp. A
check is `BeginCheck` (the clock is read and the timestamp compared),
`LoadNonce`, `StoreNonce`; a clean-up is `CleanupStart`, `CleanupVisit` (reads
one record) and `CleanupDelete`. Seconds pass at any time, so that callers may
be held up anywhere. `accepted'` is free in `StoreNonce`: the signature is
compared after the nonce is stored, and may be wrong.

**Authentication** (`auth.go`). What a request carries is genuine or not.
`Authenticate` ends at once but for a JWT, which is `LoadToken` and
`ValidateToken` with its store; `ForgetToken` is one step of `Cleanup`.

**AccessControl** (`acl.go`). `ReadEnabledFlag` and `ReadRules` are the two
halves of `Allow` and of `IsBlocked`; every operation that changes a list or a
flag is an action. `parseCIDR` understands only `0.0.0.0/0`, so that a compiled
list is its length. Each call carries as history what was in force since it
began, which `Witness` keeps up to date.

**RecordOps, AuditLog, AgentFramework, EvolutionBase**. `Push` is the append and
the drop of one entry that the audit log, the coordinator and the memories have
in common. AgentFramework follows a task from agent to agent (`StartTask`,
`AskAgent`, `RecordCompletion`) and an update from agent to agent
(`LockForUpdate`, `UpdateAgent`); EvolutionBase likewise has `EvolveStore`,
`EvolveOptimize`, `BeginUpdate`, `UpdatePart`. `ConfigureDirectly` and
`ConfigurePart` are calls on what a getter handed out, noted in `bypassed` and
`reconfigured`, since they void what the owner's lock promises.

**GatewayServer** (`server.go`). The composition of TokenBucket and the modules
of the last five paragraphs as `NewGatewayServer` builds them; `RecordRequest` is
the one operation of the server itself. A step of the server is a step of one
part. `Watched` says which parts a behaviour follows; the others stay as built.

## 3. The runs

| Run | Module, cfg | What it shows |
|---|---|---|
| config_reload | ConfigReload | `NoRollback`: a serving router only moves to newer configurations. `DeliveredIsApplied`: what got into the channel is applied, or superseded. `SpacedReloadsTakeEffect`: reloads that wait are never lost |
| config_reload_stale | ConfigReload, ConfigReloadStale | violation: the last reload may never take effect |
| round_robin | RoundRobinMC | `Rotation`, `NoStarvation`; `ImplementsChoice`, the refinement of NodeChoice |
| shared_balancer | SharedBalancerMC | `ConnsMatchHandlers`, `ChoiceStaleness`; `ImplementsSharedChoice`, the refinement of NodeChoice |
| circuit_breaker | CircuitBreakerMC | `Exposure`, `FullTimeout`, `ProbesAgain` |
| circuit_breaker_probes | CircuitBreakerMC, CircuitBreakerProbes | violation: half-open does not limit the probes |
| rate_limiter | RateLimiterMC | `OneBucketPerKey`, `KeyBound`, `GlobalBound` |
| health_checker | HealthCheckerMC | `Hysteresis`, `FollowsBackend`, `StopEnds` |
| gateway | Gateway | `ConnsMatchHandlers`, `OldTablesDrain`, `RecordsMatchAnswers`, `CheckedUntilDrained`, `StopsAndServes` |
| gateway_stop | Gateway, GatewayStop | violation: the process exits under a request it should finish |
| harness | HarnessMC | `ImplementsAtomic`, the refinement; `EveryoneReturns` |
| gateway_server | GatewayServerMC | token bucket: `WindowBound`, and `ImplementsPool`, the refinement; nonces: `AcceptedOnce`, `Forgets`; tokens: `CacheIsTransparent`; lists: `DecisionsWereInForce`; bounded collections: `KeepsToLimits`; agents: `OneConfigurationPerTask`; evolution: `EvolvesWhole`; routes: `ServesAsWritten` |

The runs of ConfigReload, CircuitBreaker, RateLimiter, Harness and GatewayServer
also check the types (`TypeOK`, `ServerTypeOK`). Those of Gateway and of the
balancers and the checker (`RoundRobinTypeOK`, `BalancerTypeOK`, `CheckerTypeOK`)
are proved and in no run.

### Bounds, and why they are enough

- ConfigReload: `MaxLoads = 5`. A stale state needs one configuration in the
  router's hand, one in the channel and one dropped, plus the first: four.
- RoundRobin: three nodes, so that one can be skipped, one picked and one wait;
  three removals, so that the cursor outlives the list it points into and the
  list becomes empty.
  Health changes and additions are unbounded.
- SharedBalancer: two nodes and three handlers: one scans while two change the
  counts. Handlers are symmetric; the run has no liveness property.
- CircuitBreaker: three callers, so that two late results can follow the one
  that half-opened; thresholds 1, 2 and 3, a missing success threshold, a zero
  timeout and a disabled configuration, exchanged at any time.
- Token bucket: a capacity (7/3) and rate (2/3) that are no multiples of the cost,
  a window longer than a full refill.
- RateLimiter: two callers of one key, the fewest that race for its bucket, and
  configurations with and without a burst, without a limit and with the global
  dimension only. `Address` has one address for each bucket that can be reached
  at a time and one spare, so that a new bucket always has room. That keys do
  not disturb each other is in the proof, for any number of keys.
- HealthChecker: two nodes at one address, as after a reload, and thresholds of
  3 and 2, so that they differ and both can be missed by one. Counts stop at the
  larger threshold, after which the code no longer distinguishes them.
- Gateway: two requests, two backends and one replacement of the table. A
  request is served once; the interesting states have one request on each table.
- GatewayServer: a part is followed alone, or with one whose state is tiny
  (`FollowedAlone`), because parts share no variable: interleaving them would
  only multiply the states. That no step touches two parts is proved.
  One nonce, two senders and five seconds with a window of one: a sender can be
  held up for several windows while the other takes the same request again and
  the clean-up goes by. Timestamps are anything in the five seconds, so also ahead of the clock.
  `AcceptedOnce` speaks of one nonce, and senders of different nonces touch
  different records; its proof is for any number.
  Two handlers with a genuine and a forged token; two visitors, one country and
  configurations that are closed, open, and switched off; two workers with limits
  of two, one and none; memories with limits of two and one, and an even smaller
  registry, so that each limit is reached, lowered below what is held, and
  raised. Counts of entries ever made stop at 3 or 4, one or two more than the
  largest limit.
  Sixty tables: every shape of host and path (exact, a wildcard before, after,
  between, alone, a dot) alone or before a route that most requests fit, tried by
  112 requests, a path with a line break in it among them.
- Harness: two callers and one updater; three requests and three configurations
  that pass and fail every rule, one that panics, one that cannot be encoded.

`CHECK_DEADLOCK FALSE` is set where the system may stop: loads run out or the
process exits (ConfigReload, Gateway), the checker's loop has ended
(HealthChecker).

### Fairness

Weak fairness of a goroutine's own steps where nothing but the scheduler decides
whether it goes on: `Main` and `Watcher` of ConfigReload, a `Next` under way, the
handlers and stoppers of Gateway, the checks and updates of Harness. Nothing is
assumed of callers and operators (reloads, signals, `Reset`, `UpdateConfig`,
registrations), nor of backends: in Gateway the proxy may never return, since the
code gives it no timeout. In RoundRobin and CircuitBreaker requests keep coming,
as `NoStarvation` and `ProbesAgain` speak of gateways in use, and requests guarded
by the breaker end. In HealthChecker, probes end because the client has a
timeout; strong fairness of the return from `run` stands for Go's `select`, which
picks at random among ready channels and so cannot prefer the ticker for ever.
In GatewayServer only the clean-up of nonces is fair: its ticker is never
stopped and `Range` waits for nobody. Senders may hang for ever between two
steps. Harness needs no strong fairness for its lock: a waiting writer keeps new readers
out, and on release lets in those it kept out, as `sync.RWMutex` does.

## 4. The proofs

All theorems are about the specifications that the runs check, with their
constants unconstrained but for the named assumptions of each module.

| Module | Theorems | Argument |
|---|---|---|
| ConfigReloadProofs | `TypeCorrect`, `RoutesOnlyAdvance` (`NoRollback`), `SpacedReloadsArrive` (`SpacedReloadsTakeEffect`) | the invariant `Ordered`: what is in the channel is newer than what is in the router's hand, which is newer than the table and than `main`'s copy, and nothing is newer than the manager's. `NoRollback` follows from it step by step: only `UpdateRoutes` changes the table of a serving gateway. `SpacedReloadsTakeEffect` speaks of an idle gateway only; `LastOnItsWay` says where the last configuration is before: with `main`, in the channel, with the watcher or in the table |
| CircuitBreakerProofs | `TypeCorrect`, `ExposureBounded`, `OpenForFullTimeout` | `Exposure` says nothing of what a later failure does; `RunAccounted` does: while closed, each request of the run has failed and been counted, or is in flight; while half-open, all are in flight. `OpenedByFailure`: the failure that opened the breaker is no older than its opening. In-flight requests are counted by the finite-set theorems, one lemma for each way a caller moves |
| BucketOpsProofs | lemmas | one tick adds the rate to `Refilled` up to the capacity (`RefilledAged`), `Allow` takes one token or none (`RefilledAfterAllow`), a new bucket is full |
| RateLimiterProofs | `TypeCorrect`, `BucketsUnique`, `KeysBounded`, `GlobalBounded` | `Shape` says how map, callers and global limit share the heap; `Funded`: a key's bucket holds no more than the key's credit, and a bucket idle for long has a credit to match, so that removing it and creating it full again is paid for. This needs that `Cleanup`'s timeout is long enough for a bucket to fill up, which is an assumption of the module: with a shorter one `KeyBound` is false. The global bucket is replaced when the configuration is, and callers that hold the old one go on with it: `GlobalFunded` says that what the bucket in force holds is covered by the global credit but for one token of each caller in `Prompt`, that cannot take from an old bucket any more; the finite-set theorems count them. `GlobalApart`: no caller takes from the global bucket for a key |
| HarnessProofs | `TypeCorrect`, `ChecksAreAtomic` (`ImplementsAtomic`) | the refinement of `AtomicHarness`. The rules of the two modules agree (`PermissionAgrees`, `PanicAgrees`, `ComplianceAgrees`, `JudgeAgrees`). `Locking`: readers and an updating writer exclude each other. `Consistent`: what the finished steps of a check and of an update have established still holds, since a writer's steps need the readers gone. `Call` maps to `Ask`, the panic and `Log` to `Check`, `LockGranted` to `UpdateConfig`, the rest to stutters |
| GatewayProofs | `TypeCorrect`, `TablesDrain` (`OldTablesDrain`), `ConnsAreExact` (`ConnsMatchHandlers`), `LogsMatchAnswers` (`RecordsMatchAnswers`), `CheckerOutlivesRequests` (`CheckedUntilDrained`) | `HandlerInv`: where a handler is tells which route and node it has, and the node is of the route's table. `ConnsInv`: the handlers on a node are a finite set of as many as its count, although `Request` may be infinite; one handler enters or leaves it at a time. `LogInv` says what is in the log before the answer is complete, and `StopInv` what the phase of the stop has seen of the requests |
| BackendProofs | round robin: `RoundRobinTypeCorrect`, `HealthyNodeFound` (`FallbackOnlyIfNoneSteady`), `RoundRobinImplementsChoice` (`ImplementsChoice`), `NodesTakeTurns` (`Rotation`); random and least connections: `BalancerTypeCorrect`, `ConnsCountHandlers` (`ConnsMatchHandlers`), `SteadyNodeChosen` (`NoFallbackIfSteady`), `SharedBalancerImplementsChoice` (`ImplementsSharedChoice`), `ChoiceIsRecent` (`ChoiceStaleness`); health checker: `CheckerTypeCorrect`, `ProbesInARow` (`Hysteresis`) | Round robin: `ScanInv`: the places a scan has passed hold no steady node; where the cursor has been left behind by removals the remainder brings it back (`Wraps`). The refinement maps `NextLock` to `Ask`, a hit or the fallback to `Answer`, a miss to a stutter; by `FallbackSeesNoneSteady` a fallback is an answer for which no node was healthy all along. `TurnsInv`: what an undisturbed node has seen picked since its own turn lies between the cursor and itself, going round, whatever happened to the list; `AppendKeepsList` and `DeleteKeepsList` say how places move. Shared balancers: `ScanTells` is the same for scans that others overtake, and `ScansLookEverywhere` that a scan gets round. A handler's step is one of its own call or a stutter (`HandlerChooses`): a count is a `Notice`, because the node to be counted was healthy when it was looked at and what is kept was noticed before. `StaleInv`: every count a scan has compared has moved since by no more than the changes the scan has seen; their number stops at that of the handlers, which no count exceeds, so that stopping loses nothing. Health checker: `BoundedInv`: a checker has counted no more results in a row than its node has had, and one fewer while the last is not applied. That needs `OnePerNode`: a checker that is registered while the sweep still holds an old one of the same node has counted nothing |
| GatewayServerProofs | `ServerRunsItsParts`, `WindowBounded` (`WindowBound`), `RefinesPool` (`ImplementsPool`), `ServerTypesCorrect` (`ServerTypeOK`), `NoReplay` (`AcceptedOnce`), `CacheAddsNothing` (`CacheIsTransparent`), `DecisionsAreSome` (`DecisionsWereInForce`), `TasksSeeOneConfiguration` (`OneConfigurationPerTask`), `LimitsAreKept` (`KeepsToLimits`), `EvolutionIsWhole` (`EvolvesWhole`), `RoutesServeWhatIsWritten` (`ServesAsWritten`) | A behaviour of the server is one of each part (`PartsTakeTurns`), so that each part has an invariant of its own. `WindowBound` ignores what the bucket holds; `Accounted` adds it: tokens and what was let through are at most the capacity and the refill of the window. The refinement maps `Allow` to `Admit` or `Refuse`, `Tick` to `Tick`, `Restart` to a stutter. `ReplayInv`: unless its sender's clock is ahead, an accepted request that has not expired is in the table, because a record is no older than the timestamp of its request and what a clean-up is about to delete has expired. `CacheInv`: what is cached is what the validator would answer. `DecisionInv`: what is in force is in the history of each call under way. The bounded lists: `PushHoldsLatest` and `AppendHoldsLatest`, and that the limit in force is between the extremes remembered. Agents: while a task runs all agents have the configuration it has met so far. Evolution: `WholeInv` says where between two parts an `Evolve` or an update is. Routes, for texts of any length: every element that the matcher has reached stands for a way of reading the text so far, and every such way is found (`AcceptedIsRead`, `ReadIsAccepted`), what a wildcard has read being of one line (`MeetsAt`), by induction on the number of characters read. The library's induction theorems cannot be instantiated, so that is done with a set instead of a predicate: the numbers for which a claim fails would have a least element (`LeastElement`, from `WFMin`; `ByInduction`). With it `HostMatches` and `PathMatches` say what the compiled patterns accept, and `FindsFirst` that the table is searched in order |

Assumptions on constants are facts of the program (a threshold is a natural
number, a list that a route is built with has distinct addresses), or say that
something modelled as a value is not taken for something else:
`RouteTableAssumption`, that a text holds no character that stands for an element
`.` or `.*`.
`Cleanup`'s timeout, above, is the one that a caller could break.

Only model-checked: the liveness properties `DeliveredIsApplied`, `NoStarvation`,
`ProbesAgain`, `FollowsBackend`, `StopEnds`, `StopsAndServes`, `EveryoneReturns`
and `Forgets`, since fairness and `ENABLED` are beyond the prover. Every safety
property of a run that is expected to pass is a theorem; `FallbackOnlyIfNoneSteady`
and `NoFallbackIfSteady` are theorems in no run, as the refinements that the runs
check rest on them.

## 5. Disagreements with the documents

Three have a run of their own (`findings` in `PROJECT.json`):

- `config.go:176`: a reload may be dropped, and the router then keeps the older
  configuration until the next (`README_GATEWAY.md:169` says it takes effect
  within seconds). The passing run says how to be safe: wait between reloads.
- `circuitbreaker.go:89`: half-open lets every request through, not a limited
  number (`circuitbreaker.go:88`, `config.go:44`). What does hold is `Exposure`.
- `main.go:145`: `main` returns as soon as `ListenAndServe` does, that is at the
  beginning of `Shutdown`, and takes the requests under way with it
  (`PRD.md:72`).

Others were met while modelling and are in the models as the code has them:

- A reload is never validated, and the old configuration is not kept
  (`config.go:170`, `config.go:181`; `DEVELOPMENT.md:872`).
- A pattern that does not compile panics and ends the process (`router.go:44`;
  `DEVELOPMENT.md:873`): `main = "crashed"` in ConfigReload.
- With all nodes unhealthy the balancers answer with the first one
  (`loadbalancer.go:141`), where `DEVELOPMENT.md:444` says that abnormal nodes
  are taken out.
- `Remove` leaves the cursor where it was (`loadbalancer.go:160`), so turns can
  be skipped or repeated: the exception `disturbed` in `Rotation`.
- The least-connections count is taken after `Next` has returned, so requests
  that arrive together go to the same node: `ChoiceStaleness` is the bound.
- The global bucket is consulted for every dimension with the same numbers as
  the key buckets, so all keys together get what `PRD.md:41` gives to each.
- `UpdateConfig` of the limiter leaves the key buckets with the old limits:
  `KeyBound` is stated with the largest limits configured.
- A re-registered checker starts with `lastStatus` true whatever the node's flag
  is (`health.go:178`); `RegisterBackend` ignores a new node at a known address
  (`health.go:64`), so after a reload the flags of the old table's nodes would be
  kept up to date; `main` registers no node at all (`main.go:92`).
- A request that fails at the backend is logged twice, one that breaks off not
  at all: `RecordsMatchAnswers`.
- A path shorter than a blocked one panics in `compliance.go:61`; an audit event
  that cannot be encoded is lost (`audit.go:142`).
- The routes' `timeout` and `retries` are parsed and never read.
- The dots of a path are not escaped before its wildcards are replaced, those of a
  host are (`router.go:41`, `router.go:48`): a path pattern with a wildcard takes
  any character for a dot. `ServesAsWritten` is stated with that.
- A wildcard does not take a line break: a route `/*` does not serve `/a%0Ab`, which
  a later route, one with a prefix, may then serve, or none (`router.go:44`,
  `router.go:49`). The documents say no more than that it matches
  like a regular expression (`README.md:310`); `ServesAsWritten` takes it for a run of
  characters of one line, and `RoutesServeWhatIsWritten` proves that
  it is exactly that.
- `UpdateRoutes` makes new routes, so middleware added with `AddMiddleware` is lost
  at a reload; for a name that is not there `AddMiddleware` does nothing and
  returns no error. Nothing runs the middleware.
- A nonce is recorded before the signature is compared (`auth.go:321`), so a
  request with a bad signature uses its nonce up; a timestamp from the future is
  taken (`auth.go:364`) and outlives its nonce: the exception `ahead` in
  `AcceptedOnce`. Two calls that overlap may both find a nonce unused.
- `cacheTTL` is only shown (`auth.go:275`): tokens stay cached until `Cleanup`
  empties the cache.
- `parseCIDR` understands `0.0.0.0/0` and nothing else; rules added at run time are
  dropped by `UpdateConfig`; a visitor may be refused by lists that were switched
  off all the time they were there: the exception `"off"` in `DecisionsWereInForce`.
- A lowered limit removes nothing from a history, from memories or from the
  registry (`coordinator.go:61`, `memory.go:85`, `skill.go:97`): each later entry
  removes one. Lessons are stored whatever the limit. A full registry refuses even
  a new version of a skill it has.

## 6. Not modelled, and why

- `pkg/logging` but for `AccessLog`: levels, fields and formats, written out.
- `RequestLogger` (`acl.go`): hands an entry to a function it was given.
- What a pattern may hold besides wildcards and dots: hosts and paths with other
  characters that mean something in a regular expression. That one of them may not
  compile is in ConfigReload.
- Sums of latencies in the metrics; what plans, results, feedback and experiences
  say (constants in the code).
- `GetStatus` of the health checker, which reads under a lock that the writer does
  not take: a data race on values that are only shown.
- `time.NewTicker` panics for an interval that is not positive: a start that never
  gets to the states of HealthChecker.
- The growth of the limiter's map of keys: nothing calls its `Cleanup`, and the
  model allows it to be called at any time or never.
- The rounding of `float64` tokens; the wrap of a counter after 2^63 requests.
- Lists that hold the same address twice.

## 7. The plan

Done: the request path (ConfigReload, RoundRobin, SharedBalancer, Gateway), the
libraries around it (CircuitBreaker, TokenBucket, RateLimiter, HealthChecker), the
control layer (AtomicHarness, Harness), and then the rest of what the server is
built of (RouteTable, Authentication, ReplayProtection, AccessControl, AuditLog,
AgentFramework, EvolutionBase) with their composition GatewayServer; the choice
that all balancers implement (NodeChoice); the proofs of section 4.

Left: a composition of Gateway with RoundRobin and HealthChecker, to state what a
client sees of a backend that goes down.
