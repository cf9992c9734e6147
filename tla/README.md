# A TLA+ model of L7-Proxy

L7-Proxy is an asynchronous HTTP reverse proxy (Rust, tokio, hyper). Requests are
routed by path prefix to a pool of upstreams, balanced, retried under a budget,
skipped past unhealthy upstreams, rate limited per client and cut off by an
overall timeout; the configuration is reloaded on SIGHUP and the server drains on
SIGTERM. This directory models the parts in which requests share state and the
algorithms they are dispatched by, checks them with TLC on small instances, and
proves the central results with TLAPS for every value of the constants.

Paths such as `proxy.rs:187` are relative to the repository's `src/` directory
(`src/src/proxy.rs` as seen from here); `README.md:NNN` is the repository's README.

## 1. Inventory

| Component | State | Operations | Who uses it |
|---|---|---|---|
| Request handler, `proxy.rs` | the locals of one task per request | `proxy_request`, `forward_once` | called by the middleware stack; uses everything below |
| Health tracker, `health.rs` | mutex: upstream -> (consecutive failures, instant of the mark) | `record_failure`, `record_success`, `is_healthy` (which also unmarks) | every request task, the active checker |
| Retry budget, `retry_budget.rs` | mutex: two lists of instants | `record_request`, `allow_retry` (prunes, decides, records) | every request task |
| Active health checker, `health_check.rs` | the upstreams collected at start | a loop of probes | writes to the tracker |
| Load balancers, `balancer.rs` | atomics: round-robin counter, active connections, schedule position; a fixed hash ring | `next_index`, `next_index_for_key`, `record_start`, `record_done` | the handler |
| Rate limiter, `rate_limiter.rs` | mutex: client -> (tokens, last refill); atomic call counter | `check`, with `cleanup` and `try_acquire` | the middleware stack |
| Middleware, `middleware.rs` | none shared | logging, rate-limit refusal (429), overall timeout (504), error -> response | wraps the handler |
| Router, `router.rs` | the routes (immutable) | longest-prefix match | the handler |
| Config reloader, `config_reloader.rs` | `ArcSwap` of router and of config | `apply_config`, `reload_config`, SIGHUP loop | replaces what the handler loads |
| Server, `server.rs` | a watch channel | accept, graceful shutdown, drain timeout | owns the tasks |
| Metrics, `metrics.rs` | Prometheus counters | increments, `render` | the handler; the metrics endpoint |
| Errors, config, state, main | plain data | construction | all |

**Where it is hard.** Every request is a task of its own, and the tasks meet only in
the mutexes and atomics of `AppState`. Between two of those accesses, anything else
may happen: another task marks the upstream just found healthy, a cooldown or a
budget window runs out, a probe reports. A task can be *dropped* at any of its
three awaits (reading the body, sleeping before a retry, waiting for an upstream),
by the overall timeout or because the client went away, and then nothing after that
await runs. The tracker, the budget and the limiter all forget lazily, when next
asked. A reload replaces router and config in two stores while requests load them in
two loads; a shutdown races its own timeout and the requests'. `PROJECT.json` lists these hazards one by one, at the line where each bites,
with the properties that would catch it.

**What makes each component correct.**

- Handler: it attempts no upstream twice and no more than `max_retries + 1`; it
  finds a working upstream if there is one and its limits allow it; with all
  upstreams unhealthy it falls back to trying them; it always answers; each attempt
  is accounted for once in the metrics and the connection counts.
- Tracker: an upstream is out exactly from its threshold-th failure in a row until a
  success or the end of the cooldown.
- Budget: retries stay within a share of the requests of the sliding window.
- Limiter: no client gets more than its burst plus the refill, and none is refused
  while it has a token.
- Active checker: a dead upstream is found without traffic and stays out; a live one
  is not kept out by failed requests.
- Balancers: shares as configured, the least loaded upstream, the nearest virtual
  node, under concurrent calls and wrap-around.
- Router: the most specific route, and the rest of the path unchanged.
- Reload: no SIGHUP is lost, no half of a configuration stays behind, a request in the
  middle of a reload harms no count. Shutdown: requests under way are drained or cut
  off at the drain timeout, and the process ends.

## 2. The modules and how they correspond to the code

| Module | What it is |
|---|---|
| `HealthTracker` | `health.rs`: the map and its three operations |
| `HealthHistory` | the same under any caller, with the failure history as extra variables; the tracker's properties |
| `RetryBudget` | `retry_budget.rs`: the two lists and its two operations |
| `BudgetHistory` | the same under any callers, with the whole history; the budget's properties |
| `Proxy` | the request path; it composes the tracker and the budget (`INSTANCE`) with the connection counts, the metrics, the probes and the overall timeout |
| `HealthCheck` | `health_check.rs`: the loop of sleeps and probes with their deadlines, on `HealthHistory`, beside requests |
| `RateLimiter` | `rate_limiter.rs`: concurrent calls of `check` |
| `IdealBucket` | the abstract specification of rate limiting that `RateLimiter` implements |
| `ConfigReload` | `config_reloader.rs`: the SIGHUP task and its two stores, beside the two loads of each request |
| `Server` | `server.rs` and the overall timeout: connections, signal, drain, drain timeout |
| `Balancer` | the pool and the wrapping atomics that the next two share |
| `RoundRobin` | both round-robin strategies, as `create_balancer` builds them |
| `LeastConnections` | the scan of the counters, load by load, beside starts and ends |
| `HashRing` | the consistent-hash ring, its search, and its rebuilding for another pool |
| `Router` | `router.rs` and the rewriting of the path in `proxy.rs:147-163, 40` |
| `RetryBackoff` | the arithmetic of the wait before a retry, `proxy.rs:221-232` |
| `MC*` | symmetry sets and input sets for TLC; the values of the constants are in the `.cfg` files. `MCDispatch` and `MCLifecycle` put components without common state into one run, one initial choice each |
| `HealthProofs`, `BudgetProofs`, `ProxyProofs`, `OutcomeProofs`, `LimiterProofs`, `LifecycleProofs`, `DispatchProofs` | the theorems (section 4) |
| `InductionLemmas` | induction on numbers and finite sets, and what the library's sums compute |

**HealthTracker.** `state[u]` is the map entry; an absent entry is the same as a
fresh one, which is what `or_insert` creates and what `is_healthy` answers for.
Instants are ticks of `now`; the mutex makes each operation one step. `is_healthy`
is split into its answer (`Healthy`) and its effect, so that a caller can branch
on the former and take the latter.

**RetryBudget.** An entry of a list is an instant; since two may be equal, an entry
also names the caller. `Vec::len` is then a cardinality. In `BudgetHistory` a caller
names one request and one retry, of that request or of another: a request may retry
several times. The percentage is a whole
number and the product is exact: f64 rounding is left out.

**Proxy.** One record of locals per request, `pc` naming what comes next. A step is
what a task does between two accesses to shared state: one call that takes a mutex
or touches an atomic, with the local work up to the next one. Hence

| `pc` | stands at | code |
|---|---|---|
| `new` | the request, before the middleware | `middleware.rs:256-271`, `proxy.rs:111-147` |
| `body` (await) | `to_bytes` | `proxy.rs:170` |
| `scan` | `any_healthy`, one upstream at a time | `proxy.rs:178` |
| `record` | `record_request` | `proxy.rs:185` |
| `select` | the head of the loop, health question | `proxy.rs:187-203` |
| `permit` | `allow_retry` | `proxy.rs:207` |
| `backoff` (await) | `sleep` | `proxy.rs:232` |
| `start` | `record_start` of a first attempt | `proxy.rs:235-252` |
| `forward` (await) | `forward_once(..).await` | `proxy.rs:254` |
| `settle` | after `record_done`: the `match` on the result | `proxy.rs:267-312` |
| `give_up` | after the loop | `proxy.rs:315-334` |
| `done` | answered, or dropped | |

`forward_once` may return anything an upstream can cause: a response below 500, a
5xx, its own timeout, a connection failure. `OverallTimeout` and `ClientGone` can
happen at the awaits only, because a future is dropped only between polls.
`Reliable` is a constant of the environment: the upstreams assumed to answer well,
used by the failover property and empty elsewhere. `held` and `tried` are history
variables: which connection a task has started without ending, which upstreams it
has attempted.

**RateLimiter.** `check` takes its mutex up to twice, so a call is up to three steps
of its thread: the counter, the clean-up, the acquisition. The map's domain grows
and shrinks as entries are created and thrown away. Tokens are counted in whole
parts of a token, fine enough for a tick's refill; f64 rounding is left out.

**HealthCheck.** The checker is at the sleep (`at = 0`) or at the probe of the `at`-th
upstream of the list it collected at the start, in the order of a `HashSet`, since
the instant `since`; a probe ends by the client's timeout at the latest. `Probed` are
the upstreams of that list; the requests also use others, which a reload has brought
and the checker never learns of (`health_check.rs:31-40`). `Dead` and `Alive` are
constants of the environment for the properties. Probes and requests go through
`Failure`, `Success` and `Ask` of `HealthHistory`, so the tracker's own properties are
checked under them. The clock is urgent: it does not pass a deadline, that is, timers
are taken to fire on time and the task to be polled at once.

**ConfigReload.** A configuration is the number of edits of the file. The operator
edits, well or badly, and sends SIGHUP at any time; a SIGHUP that meets a pending one
is merged with it, as tokio's signal stream does. `Recv`, `reload_config`,
`StoreRouter` and `StoreConfig` are the steps of the task; `LoadConfig` and
`LoadRouter` those of a request, which then starts on a balancer of the router it has
loaded and ends there (`Finish`), or is dropped at the await and never records its end
(`Drop`), or makes no attempt at all (`Pass`). `hup_gen` is history.

**Server.** A connection is idle, has a request in the handler (under the overall
timeout), or one whose body hyper is sending (under nothing). `Signal` is the return
of `shutdown_signal`; `Drain` the server task's reaction, which closes the listener
and starts the sleep; `Told` hyper's notice to a connection; `GracefulExit` and
`ForcedExit` the branches of the `select!`. The exit drops what still runs, and the
`cut_` phases remember where. The clock is urgent here too.

**Balancers.** `RoundRobin`: a call is one `fetch_add`; the weights may be absent, more
or fewer than the upstreams, or zero, since nothing checks them. `recent` is history.
`LeastConnections`: each load of the scan, each start and each end is a step, and an
attempt may be dropped at its await, after which it stays in the counter; `changes`
is history. `HashRing`: SipHash is any function of the virtual nodes, so the run
covers every placement and every collision; a binary search that may return any of
several equal entries is a set of results. A resize stands for a reload.

**Router.** Strings are sequences over `Characters`, of which `/` and `?` are two; in the
runs there is one more, and the strings are short. What follows the
upstream's authority must begin with `/` or `?`; anything else becomes a part of it
(`proxy.rs:40` puts the two together by `format!`).

**RetryBackoff.** Release-build arithmetic at width `W`: `saturating_mul` saturates,
`<<` masks its distance, `+` wraps. `Pow2` is `1 << n`, by doubling.

**IdealBucket.** Each client has a bucket that is always there and is refilled by the
clock. The refinement mapping takes the level of a client to be what the code's
bucket would hold if it were refilled now, and full if there is none. Refusals are
visible in both (a bit that flips), so that refusing a client with a token is not a
stutter.

## 3. The runs

Passing runs:

| Run | Checks | Instance | Shows |
|---|---|---|---|
| `health` | `MarkedExactlyAtThreshold`, `BackAfterCooldown`, `OutUntilCooldown`, `HealthInv` | 3 upstreams, threshold 2, cooldown 4, 10 ticks, streaks to 4 | the cap and the lazy reset lose nothing: marks begin and end exactly when the history says |
| | `DeadStaysOut`, `BackWithinARound`, `DetectedInTime`, `CheckInv` | one dead and one live upstream probed in either order, interval and timeout 1, one upstream not probed | a round finds the dead one in time and renews its mark before the cooldown ends; the live one is back within a round |
| `budget` | `LazyPruningIsExact`, `GrantsWithinBudget`, `BudgetInv` | 4 callers, 50%, window 2, 5 ticks | lazy pruning gives the answers of a sliding window over all retries allowed, but for those let through on an empty window; the budget holds in each window for the retries entered |
| `proxy_safety` | `ProxyInv`, `EveryAttemptCounted`, `RetriesCounted`, `FallbackTriesAll`, `EventuallyAnswered` | 2 requests, 2 upstreams, 1 retry, threshold 1, budget 50%, 1 tick, fair | the metrics stay right under all interleavings and drops; a request that found all unhealthy passes over none; each request that arrives is answered or its client is gone |
| `failover` | `AttemptsAreDistinct`, `ActiveAccounting`, `ReliableUpstreamServes`, `FailoverInv` | 2 requests, 3 upstreams, 2 retries, two probed, one reliable | the loop and the counts stay right; no request gives up while one upstream works and the limits reach it |
| `limiter` | `ImplementsIdealBucket`, `AdmittedWithinRate`, `LimiterInv` | 2 threads, 2 clients, burst 2, half a token per tick, clean-up every 2nd call after 4 idle ticks, 6 ticks | admissions and refusals are those of ideal token buckets |
| `lifecycle` | `ReloadInv`, `RoutesNeverOlder`, `ActiveByGeneration`, `ReloadTakesEffect` | 2 requests, 3 edits, fair | a request may see two configurations, but never routes older than its limits; each generation's count is what has started on it and not ended, drops included; the last good edit that was followed by a SIGHUP takes effect |
| | `CutOnlyAfterDrain`, `HandlersFinish`, `ServerInv`, `EndsAfterSignal` | 3 connections, overall timeout 2, drain 3, 6 ticks, fair | nothing is cut before its drain time; a longer drain than overall timeout lets every handler finish; the process ends |
| `dispatch` | `MostSpecificRoute`, `PathSurvives` | all lists of up to 3 of 9 prefixes, all paths of up to 4 characters | the longest prefix wins whatever the order, and a prefix that ends at a segment leaves path and query intact |
| | `SharesInEveryWindow` | 3 upstreams, all lists of up to 4 weights of up to 2, a counter of 16 | the shares are right in every window, unless the counter wraps in it |
| | `PickNearlyLeast`, `FirstLeastUndisturbed`, `LeastInv` | 4 requests, 3 upstreams | an unlocked scan of the counters is off by no more than what changed during it; a counter is what has started and not ended, drops included |
| | `NearestClockwise`, `OnlyTheEndMoves` | up to 3 upstreams, 2 virtual nodes each, 4 hash values | search and wrap-around are consistent hashing; growth at the end moves no key between those that stay |
| | `WaitsGrow` | 5 bits, 8 attempts | each wait is longer than the one before, as long as it fits |

Runs that refute what the repository says of the code (`PROJECT.json`, findings):

| Run | Statement | Counterexample |
|---|---|---|
| `connection_leak` | `balancer.rs:17-20`, `README.md:183`: counts of *active* connections | the overall timeout drops a task during an attempt; `record_done` (`proxy.rs:265`) never runs |
| `stale_scan` | `proxy.rs:177, 195`: skip "unless all are unhealthy" | the upstream that made `any_healthy` true is marked by another request before the loop reaches it; 502 without any attempt |
| `zero_budget` | `tests/retry_budget.rs:25`: at 0% "no retries are allowed at all" | the request leaves the window while its attempt is under way; the empty window allows the retry (`retry_budget.rs:43-46`) |
| `uncounted_timeouts` | `README.md:373`: `proxy_requests_total` is "Total requests processed" by status | the 504 of the overall timeout is sent by the layer, and the handler's counter never runs |
| `root_prefix` | `README.md:69`, and `tests/load_balancing.rs:193` of a route with the prefix `/`: requests hit a server of the route | the prefix is stripped with its slash, and `format!("{}{}", upstream, final_path)` (`proxy.rs:40`) makes `http://127.0.0.1:9905foo` |

Divergences that the models show and no run is spent on:

- `config_reloader.rs:10` says "swapping routes and config atomically"; a request that
  loads the config before the two stores and the router after the first has one of
  each. `RoutesNeverOlder` says which mixtures there are: the routes may be newer.
- `README.md:398` says active checking works "even for upstreams that aren't currently
  receiving traffic"; not for those that a reload brings, which are never probed
  (`health_check.rs:31-40`). `BackAfterCooldown` is what holds for them.
- `README.md:183` says "fewest active connections"; a connection on which a body is
  still being sent is no longer counted (`proxy.rs:265`).
- `README.md:394` calls the overall timeout "a hard upper bound for client-facing
  latency"; it ends where the response begins (`middleware.rs:165`), and a body may
  take any time, up to the end of the process (`Server`, phase `body`).
- `README.md:165` promises a refill rate; a bucket that takes longer than 300 s to
  refill is thrown away half empty and recreated full. `AdmittedWithinRate` holds
  under `IdleBucketsAreFull` only (`IDLE * refill_rate >= capacity`); with `IDLE = 1`
  in `MCLimiter.cfg` TLC refutes it.

With the default settings: a checker's round takes `10 + 3 N` seconds at most and the
cooldown is 30, so the hypothesis of `DeadStaysOut` and `DetectedInTime` holds for up
to 6 upstreams in all routes together. Drain and overall timeout are both 30 seconds
by default, so the hypothesis of `HandlersFinish` fails at the boundary: a request
that comes in at the instant of the drain may be cut or answered.

**Bounds.** Two requests are the least that disturb each other, and each shared object
of `Proxy` is touched by one call per step, so that a conflict is between two tasks
or between a task and a probe. Two upstreams make the walk wrap and let one be
skipped while the other is tried; `failover` has three, so that the reliable one can
be reached after two failures. A threshold of 1 makes every failure a mark; `health`
covers larger ones. In `health` a round takes 3 ticks and the cooldown 4, so that a
mark is renewed in its last tick; only the upstream that is not probed lives to see a
cooldown expire. With windows and cooldowns of 1 or 2 ticks and a clock that goes
at least as far, entries expire both before and after any other event. A budget of
50% of two requests rounds up to one retry: it is exhausted by the first and denied to
the second. In `limiter` the clean-up runs on every other call and the idle time
lies within the clock's range, so that buckets are thrown away and recreated.
`USIZE` stands for 2^64; 8 or 16 is larger than the number of requests and small
enough that a wrap would show. `MaxTime` stops the clock; beyond `MaxStreak`, which
exceeds the threshold, runs of failures are no longer told apart; `MaxChanges` bounds
what may fall into one scan. In `lifecycle`, three edits allow a good file, a bad one
and another during a reload; a shutdown needs two connections to be both drained and
cut, and has three. In `dispatch`, four requests can disturb a scan both before and
behind its index and still leave a tie; four hash values for six virtual nodes make
them collide with each other and with keys in all ways; 5 bits and 8 attempts pass
both the width of the product and that of the shift. Requests and callers are
symmetric where the run checks no liveness.

Deadlock is not checked in the runs of `Proxy`, of `budget`, `lifecycle` and
`dispatch`: once all requests are done, or the process has ended, and the clock has
stopped, nothing is left to happen. `EventuallyAnswered` and `EndsAfterSignal` show
that nothing stops earlier.

**Fairness.** In `Proxy` (`Fairness`, in `proxy_safety`): the tokio runtime polls each task
that can go on, and its timers fire, so the steps a task takes by itself, the end of
a backoff among them, are weakly fair. `forward_once` runs under
`tokio::time::timeout`, so each attempt ends. No fairness is assumed for the client's
body; instead, one of body, body error or overall timeout (`middleware.rs:165`) must
end the wait. Nothing is assumed of upstreams, probes, clients or the clock. In
`ConfigReload` (`RFairness`) the runtime polls the SIGHUP task when it can go on; the
operator may stop at any time. In `Server` (`SFairness`) the server's task, the two
exits, the timers and the notices to connections are polled and time passes; no client
is counted on to send, to read or to close.

**Mutants.** Each property of a passing run has a mutant: an operator next to the
definition it replaces (`At_clamped`, `LoopHead_short`, `record_failure_late`, ...)
that makes a mistake that code could have. TLC finds the property violated with it,
so none of them holds by the shape of the model.

## 4. The proofs

Every invariant and every safety property that a passing run checks is also a theorem,
proved for every value of the constants under the named assumptions: sizes, durations
and weights are natural numbers, a pool and a counter's range are not empty, requests
and probed upstreams are finitely many, the history tells runs of failures apart up to
the threshold, `USIZE` exceeds the number of requests where connections are counted
(2^64 does), and strings are over an alphabet with `/` and `?`.

- **`HealthProofs`**: `HealthInvariant`, `MarkTheorem`, `RecoveryTheorem`,
  `NoEarlyRecoveryTheorem`. The tracker does not remember its streak. `HealthInv`
  says what it remembers instead: the count is the streak up to the cap, and a mark
  is as old as the last failure. The second part is needed because a failure of a
  marked upstream renews its mark; from it both directions of recovery follow.

  `CheckImplementsHistory`: every step of the checker and of the requests beside it is
  a step of `HealthHistory` or leaves it alone, so the four theorems hold under the
  checker. `CheckInvariant`, and from it `StaysOutTheorem`, `BackTheorem`,
  `DetectionTheorem`: the claims are about time, and a step of the clock preserves them
  only if one knows when the next probe comes. `CheckInv` says it for every place in
  the list (`Due`): within a round of the mark that the probe is to clear or renew and,
  while a dead upstream has not been found, no later than a round for each failure so
  far and one more. It is inductive together with `HealthInv`. The products of places
  and timeouts are not linear: `Times`, `DueBounds` and `DueMoves` say what is needed of
  them.
- **`BudgetProofs`**: `BudgetInvariant`, `ExactWindowTheorem`, `BudgetTheorem`.
  `BudgetInv`: within the current window, the lists are the history; outside it they
  may be anything recorded earlier. Pruning at any time keeps that, and an answer
  uses the window only. The retries let through on an empty window are in the history
  and in no list; none of them is also entered (`EnteredOrNot`), so the window over all
  retries has exactly those more than the list (`DisjointSizes`). `GrantsWithinBudget` is about earlier windows too and needs
  the share to be monotone in the requests, since requests of the same instant may
  join after the retry.
- **`ProxyProofs`**: `ProxyInvariant`, `DistinctTheorem`, `AccountingTheorem`,
  `FallbackTheorem`. A task has attempted only upstreams at offsets before its own
  (`LoopInv`), and two offsets below `N` are two upstreams (`AtInjective`); hence each
  attempt is another upstream. A task whose scan found nothing healthy has attempted all of
  those (`FallbackInv`). A task holds a connection only at `forward`
  or when dropped there (`HeldInv`); hence `record_done` meets a count of at least one
  and never wraps, and the count is the number of holders. `connection_leak` is the
  other face of this theorem: a dropped holder is a holder for ever.
- **`OutcomeProofs`**: `FailoverInvariant`, `FailoverTheorem`. `ReliableUpstreamServes`
  has a hypothesis about the settings only: the retries reach all upstreams, and the
  budget covers those of all requests (`AmpleBudget`). `FailoverInv`, relative to `ProxyInv`, says why
  that suffices: a reliable upstream is never marked, because it never fails; so no
  task passes over it without an attempt, and the attempt answers; and the budget's list
  has at most one entry for each attempt of a request after its first (`PermitsOnce`),
  so that its size is bounded by the hypothesis and no permit is refused.

  `AttemptsTheorem`, `RetriesTheorem`: each counter of the metrics is a sum over
  requests, of which a step changes one summand (`SumDelta`); the theorem says so for
  each action, the drops included.
- **`LimiterProofs`**: `LimiterInvariant`, `Refinement`, `RateTheorem`. Under
  `IdleBucketsAreFull` (`IDLE * refill_rate >= capacity`, i.e. 300 s of refill fill a
  bucket) every step of the limiter is a step of `IdealBucket` or a stutter: a bucket
  thrown away was full, a refill by hand is the refill of the clock. The rate, counted
  from the start, follows from an invariant of the ideal buckets (`Conservation`); for
  other intervals it is the refinement that says it. The condition is needed
  (section 3).
- **`LifecycleProofs`**, reload: `ReloadInvariant`, `SnapshotTheorem`,
  `GenerationTheorem`. `ReloadInv`: between reloads config and router agree
  (`Settled`), within one the router is ahead, and what a request has loaded of the
  config is no newer than the router it is yet to load (`InOrder`). The last part is
  what the order of the stores and loads buys; without it the claim about both
  snapshots is not inductive. The counts are those of `ProxyProofs`, one per
  generation: an attempt ends, or is dropped, on the router it has started on.

  Shutdown: `ServerInvariant`, `DrainTheorem`, `HandlerTheorem`. Time enters through
  the two timers: none is overdue when the clock moves. `ServerInv` says that, and that
  every request still under way in a drain began no later than the drain (a connection
  that was told of the shutdown takes no further request). Hence what is cut has had
  the whole drain timeout, and a handler with a shorter overall timeout has been
  answered before.
- **`DispatchProofs`**, the router: `RouteTheorem`, `SurvivalTheorem`. Two prefixes of
  one path are comparable by length, so the first of the longest is the most specific;
  stripping and joining are described character by character (`PrefixIs` and the lemmas
  after it).

  Round robin: `SharesTheorem`. The schedule is a `FlattenSeq`; by induction on the
  weights it has each upstream as often as its weights sum up to (`ScheduleCounts`).
  `RRInv` ties each call in the window to the counter it found, across a wrap too
  (`CallAt`). Where `WholeLap` holds, those counters are consecutive modulo the length of the
  cycle (`LapInARow`), so the window meets every place of the cycle once (`RowIsCycle`).

  Least connections: `LeastInvariant`, `NearlyLeastTheorem`, `FirstLeastTheorem`.
  `LeastInv` says, of what a scan has read, that it is off by no more than the changes
  since the scan began, and that a counter is the attempts that have started on its
  upstream and not ended, the dropped ones included, so that none wraps.

  The ring: `NearestTheorem`, and the action property in `EndTheorem`. Sorting puts a
  virtual node at its rank, and ranks are a bijection onto the places of the vector
  (`RankOrder`, `RankOnto`); with that, what the search finds is said of virtual nodes
  alone (`NextIs`), and a node at the end of the pool is among them or is not.

  The wait: `BackoffTheorem`. `BackoffInv` holds a wait between the doubled base and one
  and a half times it, below the next base as long as nothing saturates, is masked or
  wraps.

**Induction.** The library's induction theorems have an operator as a parameter, which
the provers cannot instantiate. `InductionLemmas` states them for a *set* instead
(`NatSetInduction`, `SubsetInduction`), proved from the least element that a
well-founded relation has in the set of counterexamples. With them it is shown that the
recursive functions behind `SumFunction` (and, in `DispatchProofs`, behind `FlattenSeq`
and `Pow2`) exist, and what they compute.

Only model-checked: `EventuallyAnswered`, `ReloadTakesEffect` and `EndsAfterSignal`.
They are liveness under fairness, which is out of the prover's reach, as `ENABLED` is.

## 5. Not modelled

- Wording, logging, headers, bodies, HTTP itself, TLS: no property is about them.
  hyper, tokio and reqwest are external; the model has what the code relies on.
- One route at a time: routes share the tracker and the budget, and other routes'
  requests look like probes and like other requests' entries. Upstreams are distinct
  within a route; a pool that lists one URL twice shares one health entry. Two routes
  with one prefix are not told apart: the last of them is used, and no property says so.
- In `Proxy` the configuration is fixed for a behaviour (`ConfigReload` has the
  reloads), there is no shutdown (`Server` has it), and `next_index` may return any
  index, which covers all four strategies.
- Settings that a reload does not reach: the tracker, the budget, the limiter, the
  checker and the outer timeouts keep those of the start (`main.rs:57-82`). They are
  constants of the models, as they are of the process.
- SIGHUP before its handler is installed, which ends the process.
- Panics: an empty pool, an empty schedule, an empty ring, `max_retries + 1` at the
  largest u32. Nothing the repository says rules such a configuration out.
- Removing any upstream but the last from a route shifts the places of those behind it
  on the hash ring; `OnlyTheEndMoves` is about the end.
- `metrics.render`, the metrics endpoint (never shut down), the histogram,
  `mock_upstream`, `start_proxy_for_test`: output, or for tests and manual use.
- `config.rs` is plain data with defaults: its fields are the constants.

## 6. Plan

Done: all the components of section 2 are modelled and checked, and every safety property
of the passing runs is proved.

Left:

1. `Proxy` beside `HealthHistory` and `BudgetHistory`: with the histories as variables of
   `Proxy`, each of its steps is one of theirs, as `CheckImplementsHistory` shows of the
   checker; their theorems would then hold of the composition without being checked
   again.
2. `LeastConnections` and `Proxy` have the same account of connections, `ConfigReload` has
   it per generation; one lemma about counting holders could serve the three proofs.
3. The safety half of the liveness properties, as far as it can be said without
   fairness: that a request which is not done, and a process which is told to end, always
   have a step left to take.
