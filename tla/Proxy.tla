------------------------------- MODULE Proxy -------------------------------
(***************************************************************************)
(* The request path: proxy_request and forward_once (src/src/proxy.rs) as  *)
(* many concurrent tasks, under the overall-timeout layer of               *)
(* src/src/middleware.rs, on one route of AppState: the health tracker,    *)
(* the retry budget, the balancer's connection counts and the metrics are  *)
(* shared, and the active health checker (src/src/health_check.rs) writes  *)
(* to the tracker beside them.                                             *)
(*                                                                         *)
(* A step is what happens between two accesses to shared state: each call  *)
(* that takes a mutex or touches a balancer counter is a step of its own,  *)
(* with the local work up to the next one.  A task can be dropped only     *)
(* where it awaits: while it reads the body, sleeps before a retry, or     *)
(* waits for an upstream.                                                  *)
(***************************************************************************)
EXTENDS Integers, FiniteSetsExt

CONSTANTS
  Requests,           \* the requests that may arrive, one task each
  N,                  \* route.upstreams.len()
  max_retries,        \* config.server.max_retries
  failure_threshold,  \* of the health tracker
  cooldown,
  budget_percent,     \* of the retry budget
  window,
  HealthChecked,      \* the upstreams the active health checker probes
  Reliable,           \* environment: the upstreams that always answer well
  USIZE,              \* 2^64, the modulus of AtomicUsize
  MaxTime             \* bound: the clock stops here

ASSUME ProxyAssumption ==
  /\ IsFiniteSet(Requests)
  /\ N \in Nat \ {0}
  /\ max_retries \in Nat
  /\ failure_threshold \in Nat
  /\ cooldown \in Nat
  /\ budget_percent \in Nat
  /\ window \in Nat
  /\ HealthChecked \subseteq 0 .. N - 1
  /\ Reliable \subseteq 0 .. N - 1
  /\ USIZE \in Nat
  /\ USIZE > Cardinality(Requests)
  /\ MaxTime \in Nat

VARIABLES
  now,       \* the clock
  health,    \* AppState.health
  requests,  \* AppState.retry_budget: its two lists
  retries,
  active,    \* LeastConnections.active of the route's balancer
  metrics,   \* AppState.metrics
  task       \* the local variables of each request's task

vars == <<now, health, requests, retries, active, metrics, task>>

Indices == 0 .. N - 1
MaxAttempts == max_retries + 1

(* A retry is recorded by a request in the course of one of its attempts. *)
Callers == Requests \X (0 .. N)

Health == INSTANCE HealthTracker WITH Upstreams <- Indices, state <- health
Budget == INSTANCE RetryBudget

(***************************************************************************)
(* Where a task is: before it starts; at the three awaits (body, backoff,  *)
(* forward); between two accesses to shared state (scan, record, select,   *)
(* permit, start, settle, give_up); or finished.                           *)
(***************************************************************************)
Awaits == {"body", "backoff", "forward"}
PC == Awaits \cup {"new", "scan", "record", "select", "permit", "start",
                   "settle", "give_up", "done"}

Failures == {"5xx", "timeout", "connection"}
Outcomes == {"ok"} \cup Failures

(* What the client is sent; "dropped" when the client has gone. *)
Statuses == {"pending", "ok", "404", "429", "502", "504", "dropped"}

Task ==
  [pc            : PC,
   start_index   : Indices,
   cursor        : Indices,         \* of the any_healthy scan
   any_healthy   : BOOLEAN,
   offset        : 0 .. N,
   attempts_made : Nat,
   outcome       : Outcomes,        \* of the latest attempt
   last_error    : {"none", "UpstreamFailure", "UpstreamTimeout"},
   status        : Statuses,
   held          : Indices \cup {N},  \* history: the index a record_start
                                      \* awaits its record_done for, else N
   tried         : SUBSET Indices]    \* history: the indices attempted

NewTask ==
  [pc |-> "new", start_index |-> 0, cursor |-> 0, any_healthy |-> FALSE,
   offset |-> 0, attempts_made |-> 0, outcome |-> "ok", last_error |-> "none",
   status |-> "pending", held |-> N, tried |-> {}]

Metrics ==
  [requests_total : [{"ok", "404", "502", "504"} -> Nat],
   errors_total   : [Failures -> Nat],
   retries_total  : Nat]

Init ==
  /\ Health!Init
  /\ requests = {}
  /\ retries = {}
  /\ active = [i \in Indices |-> 0]
  /\ metrics = [requests_total |-> [s \in {"ok", "404", "502", "504"} |-> 0],
                errors_total   |-> [e \in Failures |-> 0],
                retries_total  |-> 0]
  /\ task = [r \in Requests |-> NewTask]

TypeOK ==
  /\ now \in Nat
  /\ health \in [Indices -> Health!UpstreamHealth]
  /\ requests \in SUBSET Budget!Entry
  /\ retries \in SUBSET Budget!Entry
  /\ active \in [Indices -> 0 .. USIZE - 1]
  /\ metrics \in Metrics
  /\ task \in [Requests -> Task]

-----------------------------------------------------------------------------
budget == <<requests, retries>>

(* Mutant of At: past the end of the pool it stays at the last upstream. *)
At_clamped(t, offset) ==
  IF t.start_index + offset < N THEN t.start_index + offset ELSE N - 1

(* index = (start_index + offset) % upstream_count *)
At(t, offset) == (t.start_index + offset) % N
index(r) == At(task[r], task[r].offset)

(* Mutant of CountRequest: every request is counted under one status. *)
CountRequest_one_label(status) ==
  metrics' = [metrics EXCEPT !.requests_total["ok"] = @ + 1]

(* metrics.requests_total.with_label_values(.., status).inc() *)
CountRequest(status) ==
  metrics' = [metrics EXCEPT !.requests_total[status] = @ + 1]

(* A step of r's task changes that task alone. *)
Become(r, t) == task' = [task EXCEPT ![r] = t]

(* The task ends and the client is sent a response. *)
Respond(r, status) ==
  Become(r, [task[r] EXCEPT !.pc = "done", !.status = status])

(***************************************************************************)
(* The rate limiter refuses the request before the handler sees it.  Which *)
(* requests it refuses is RateLimiter's business; here it may be any.      *)
(***************************************************************************)
RateLimited(r) ==
  /\ task[r].pc = "new"
  /\ Respond(r, "429")
  /\ UNCHANGED <<now, health, budget, active, metrics>>

(* No route matches the path. *)
NoRoute(r) ==
  /\ task[r].pc = "new"
  /\ CountRequest("404")
  /\ Respond(r, "404")
  /\ UNCHANGED <<now, health, budget, active>>

(* A route matches; the task goes on to buffer the request body. *)
Route(r) ==
  /\ task[r].pc = "new"
  /\ Become(r, [task[r] EXCEPT !.pc = "body"])
  /\ UNCHANGED <<now, health, budget, active, metrics>>

(* to_bytes fails: `?' leaves the handler at once, with nothing counted. *)
BodyFails(r) ==
  /\ task[r].pc = "body"
  /\ Respond(r, "502")
  /\ UNCHANGED <<now, health, budget, active, metrics>>

(* The body is there and the balancer names a first upstream, any of them. *)
BodyRead(r) ==
  /\ task[r].pc = "body"
  /\ \E i \in Indices :
       Become(r, [task[r] EXCEPT !.pc = "scan", !.start_index = i])
  /\ UNCHANGED <<now, health, budget, active, metrics>>

(***************************************************************************)
(* any_healthy: is_healthy is called on one upstream after the other until *)
(* one answers true; each call takes the tracker's mutex anew.             *)
(***************************************************************************)
ScanHealthy(r) ==
  /\ task[r].pc = "scan"
  /\ Health!Healthy(task[r].cursor)
  /\ Health!is_healthy(task[r].cursor)
  /\ Become(r, [task[r] EXCEPT !.pc = "record", !.any_healthy = TRUE])
  /\ UNCHANGED <<now, budget, active, metrics>>

ScanUnhealthy(r) ==
  /\ task[r].pc = "scan"
  /\ ~Health!Healthy(task[r].cursor)
  /\ Health!is_healthy(task[r].cursor)
  /\ IF task[r].cursor = N - 1
       THEN Become(r, [task[r] EXCEPT !.pc = "record"])
       ELSE Become(r, [task[r] EXCEPT !.cursor = @ + 1])
  /\ UNCHANGED <<now, budget, active, metrics>>

RecordRequest(r) ==
  /\ task[r].pc = "record"
  /\ Budget!record_request(<<r, 0>>)
  /\ Become(r, [task[r] EXCEPT !.pc = "select"])
  /\ UNCHANGED <<now, health, active, metrics>>

(* Mutant of LoopHead: one attempt too few. *)
LoopHead_short(r, offset) ==
  IF offset < N /\ task[r].attempts_made + 1 < MaxAttempts THEN "select" ELSE "give_up"

(* The head of the loop for the next offset, or the end of the loop. *)
LoopHead(r, offset) ==
  IF offset < N /\ task[r].attempts_made < MaxAttempts THEN "select" ELSE "give_up"

(* Mutant of Skip: unhealthy upstreams are skipped even if all are. *)
Skip_always(r) ==
  /\ task[r].pc = "select"
  /\ ~Health!Healthy(index(r))
  /\ Health!is_healthy(index(r))
  /\ Become(r, [task[r] EXCEPT !.pc = LoopHead(r, task[r].offset + 1),
                               !.offset = @ + 1])
  /\ UNCHANGED <<now, budget, active, metrics>>

(* The upstream at index(r) is unhealthy and some upstream was not. *)
Skip(r) ==
  /\ task[r].pc = "select"
  /\ task[r].any_healthy
  /\ ~Health!Healthy(index(r))
  /\ Health!is_healthy(index(r))
  /\ Become(r, [task[r] EXCEPT !.pc = LoopHead(r, task[r].offset + 1),
                              !.offset = @ + 1])
  /\ UNCHANGED <<now, budget, active, metrics>>

(* It is to be attempted; a retry needs the budget's permission first. *)
Select(r) ==
  /\ task[r].pc = "select"
  /\ IF task[r].any_healthy
       THEN Health!Healthy(index(r)) /\ Health!is_healthy(index(r))
       ELSE UNCHANGED health
  /\ Become(r, [task[r] EXCEPT
                  !.pc = IF task[r].attempts_made = 0 THEN "start" ELSE "permit"])
  /\ UNCHANGED <<now, budget, active, metrics>>

RetryAllowed(r) ==
  /\ task[r].pc = "permit"
  /\ Budget!Allowed
  /\ Budget!allow_retry(<<r, task[r].attempts_made>>)
  /\ metrics' = [metrics EXCEPT !.retries_total = @ + 1]
  /\ Become(r, [task[r] EXCEPT !.pc = "backoff"])
  /\ UNCHANGED <<now, health, active>>

(* Mutant of RetryDenied: the task waits for the budget to recover. *)
RetryDenied_waits(r) ==
  /\ task[r].pc = "permit"
  /\ ~Budget!Allowed
  /\ Budget!allow_retry(<<r, task[r].attempts_made>>)
  /\ UNCHANGED <<now, health, active, metrics, task>>

(* Mutant of RetryDenied: the retry is counted before it is refused. *)
RetryDenied_counted(r) ==
  /\ task[r].pc = "permit"
  /\ ~Budget!Allowed
  /\ Budget!allow_retry(<<r, task[r].attempts_made>>)
  /\ metrics' = [metrics EXCEPT !.retries_total = @ + 1]
  /\ Become(r, [task[r] EXCEPT !.pc = "give_up"])
  /\ UNCHANGED <<now, health, active>>

RetryDenied(r) ==
  /\ task[r].pc = "permit"
  /\ ~Budget!Allowed
  /\ Budget!allow_retry(<<r, task[r].attempts_made>>)
  /\ Become(r, [task[r] EXCEPT !.pc = "give_up"])
  /\ UNCHANGED <<now, health, active, metrics>>

(* Mutant of record_done: the trait's default, which does nothing. *)
record_done_default(i) == UNCHANGED active

(* fetch_add and fetch_sub on an AtomicUsize wrap around. *)
record_start(i) == active' = [active EXCEPT ![i] = (@ + 1) % USIZE]
record_done(i) == active' = [active EXCEPT ![i] = (@ - 1) % USIZE]

(* The attempt begins: at once for the first, after the sleep for a retry. *)
StartAttempt(r) ==
  /\ task[r].pc \in {"start", "backoff"}
  /\ record_start(index(r))
  /\ Become(r, [task[r] EXCEPT !.pc = "forward",
                               !.attempts_made = @ + 1,
                               !.held = index(r),
                               !.tried = @ \cup {index(r)}])
  /\ UNCHANGED <<now, health, budget, metrics>>

(***************************************************************************)
(* forward_once returns: a response below 500 ("ok"), a 5xx response, the  *)
(* per-attempt timeout, or a failure of the URI or the connection.  The    *)
(* hyper client is external: any of them may happen, save that a Reliable  *)
(* upstream answers well.                                                  *)
(***************************************************************************)
forward_once(r, o) ==
  /\ task[r].pc = "forward"
  /\ index(r) \in Reliable => o = "ok"
  /\ record_done(index(r))
  /\ Become(r, [task[r] EXCEPT !.pc = "settle", !.outcome = o, !.held = N])
  /\ UNCHANGED <<now, health, budget, metrics>>

Succeed(r) ==
  /\ task[r].pc = "settle"
  /\ task[r].outcome = "ok"
  /\ Health!record_success(index(r))
  /\ CountRequest("ok")
  /\ Respond(r, "ok")
  /\ UNCHANGED <<now, budget, active>>

(* Mutant of AttemptFails: the loop moves on before the failure is recorded. *)
AttemptFails_next(r) ==
  LET o == task[r].outcome IN
  /\ task[r].pc = "settle"
  /\ o \in Failures
  /\ Health!record_failure(At(task[r], task[r].offset + 1))
  /\ metrics' = [metrics EXCEPT !.errors_total[o] = @ + 1]
  /\ Become(r, [task[r] EXCEPT
                  !.pc = LoopHead(r, task[r].offset + 1),
                  !.offset = @ + 1,
                  !.outcome = "ok",
                  !.last_error = IF o = "timeout" THEN "UpstreamTimeout"
                                                  ELSE "UpstreamFailure"])
  /\ UNCHANGED <<now, budget, active>>

AttemptFails(r) ==
  LET o == task[r].outcome IN
  /\ task[r].pc = "settle"
  /\ o \in Failures
  /\ Health!record_failure(index(r))
  /\ metrics' = [metrics EXCEPT !.errors_total[o] = @ + 1]
  /\ Become(r, [task[r] EXCEPT
                  !.pc = LoopHead(r, task[r].offset + 1),
                  !.offset = @ + 1,
                  !.outcome = "ok",
                  !.last_error = IF o = "timeout" THEN "UpstreamTimeout"
                                                  ELSE "UpstreamFailure"])
  /\ UNCHANGED <<now, budget, active>>

(* The loop is over without a response; no error at all counts as 502. *)
GiveUp(r) ==
  LET status == IF task[r].last_error = "UpstreamTimeout" THEN "504" ELSE "502" IN
  /\ task[r].pc = "give_up"
  /\ CountRequest(status)
  /\ Respond(r, status)
  /\ UNCHANGED <<now, health, budget, active>>

-----------------------------------------------------------------------------
(* Mutant of OverallTimeout: a guard gives the connection back on every      *)
(* drop, also when none is held.                                           *)
OverallTimeout_releases(r) ==
  /\ task[r].pc \in Awaits
  /\ record_done(index(r))
  /\ Become(r, [task[r] EXCEPT !.pc = "done", !.status = "504", !.held = N])
  /\ UNCHANGED <<now, health, budget, metrics>>

(***************************************************************************)
(* The overall timeout elapses: the layer drops the handler's future where *)
(* it awaits, and answers in its place.  Nothing runs in the handler after *)
(* that await, record_done and the metrics included.                       *)
(***************************************************************************)
OverallTimeout(r) ==
  /\ task[r].pc \in Awaits
  /\ Respond(r, "504")
  /\ UNCHANGED <<now, health, budget, active, metrics>>

(* The client disconnects, and hyper drops the whole request's future. *)
ClientGone(r) ==
  /\ task[r].pc \in Awaits
  /\ Respond(r, "dropped")
  /\ UNCHANGED <<now, health, budget, active, metrics>>

(***************************************************************************)
(* One probe of the active health checker ends.  Its order and its period  *)
(* are left open: a probe of any of its upstreams may end at any time.     *)
(***************************************************************************)
Probe(u) ==
  /\ \/ Health!record_success(u)
     \/ u \notin Reliable /\ Health!record_failure(u)
  /\ UNCHANGED <<now, budget, active, metrics, task>>

Tick == Health!Tick /\ UNCHANGED <<health, budget, active, metrics, task>>

(* What a task does without waiting for anybody. *)
Compute(r) ==
  \/ ScanHealthy(r) \/ ScanUnhealthy(r) \/ RecordRequest(r)
  \/ Skip(r) \/ Select(r) \/ RetryAllowed(r) \/ RetryDenied(r) \/ StartAttempt(r)
  \/ Succeed(r) \/ AttemptFails(r) \/ GiveUp(r)

Forward(r) == \E o \in Outcomes : forward_once(r, o)

Arrive(r) == RateLimited(r) \/ NoRoute(r) \/ Route(r)

Next ==
  \/ \E r \in Requests :
       \/ Arrive(r) \/ BodyFails(r) \/ BodyRead(r)
       \/ Compute(r) \/ Forward(r)
       \/ OverallTimeout(r) \/ ClientGone(r)
  \/ \E u \in HealthChecked : Probe(u)
  \/ Tick

Spec == Init /\ [][Next]_vars

(***************************************************************************)
(* The runtime polls every task that can go on; sleep returns, and every   *)
(* attempt ends, if only by its own timeout.  Nobody owes the proxy the    *)
(* rest of a body: if it does not come, the overall timeout ends the wait. *)
(***************************************************************************)
Fairness ==
  \A r \in Requests :
    /\ WF_vars(Compute(r))
    /\ WF_vars(Forward(r))
    /\ WF_vars(BodyFails(r) \/ BodyRead(r) \/ OverallTimeout(r))

FairSpec == Spec /\ Fairness

-----------------------------------------------------------------------------
(***************************************************************************)
(* proxy.rs:187 - a request is sent to no upstream twice, and to no more   *)
(* than max_retries + 1 of them, whatever its start, its skips and the     *)
(* health changes in between: every attempt counted is another upstream.   *)
(***************************************************************************)
AttemptsAreDistinct ==
  \A r \in Requests :
    /\ Cardinality(task[r].tried) = task[r].attempts_made
    /\ task[r].attempts_made <= MaxAttempts

(***************************************************************************)
(* balancer.rs:79 - the connection counts add up under concurrent starts   *)
(* and ends: a count is the number of requests that have started on the    *)
(* upstream without a record_done, so fetch_sub never takes it below zero. *)
(***************************************************************************)
Holders(i) == {r \in Requests : task[r].held = i}

ActiveAccounting ==
  \A i \in Indices : active[i] = Cardinality(Holders(i))

(***************************************************************************)
(* proxy.rs:177 - the fallback is a real one: a request that found every   *)
(* upstream unhealthy passes over none.  When it gives up it has attempted *)
(* one at least, and every upstream it has got to, wherever the budget or  *)
(* its own limit stopped it and whatever others did to the marks since.    *)
(***************************************************************************)
Visited(t, n) == {At(t, k) : k \in 0 .. n - 1}

FallbackTriesAll ==
  \A r \in Requests :
    (task[r].pc = "give_up" /\ ~task[r].any_healthy) =>
      /\ task[r].attempts_made >= 1
      /\ task[r].tried = Visited(task[r], task[r].offset)

(***************************************************************************)
(* The inductive invariant behind the three.  Until a task attempts the    *)
(* upstream at its offset, it has attempted only upstreams before it on    *)
(* the way around the pool, and in the fallback all of them; its first     *)
(* attempt needs no permit and the others do; and it holds a connection    *)
(* only while it waits for an attempt, or if it was dropped there.         *)
(***************************************************************************)
LoopInv(t) ==
  /\ t.pc \in {"new", "body", "scan", "record"} =>
       t.offset = 0 /\ t.attempts_made = 0 /\ t.tried = {}
  /\ t.pc \in {"select", "permit", "start", "backoff"} =>
       /\ t.offset < N
       /\ t.attempts_made <= t.offset
       /\ t.attempts_made < MaxAttempts
       /\ t.tried \subseteq Visited(t, t.offset)
  /\ t.pc \in {"forward", "settle"} =>
       /\ t.offset < N
       /\ t.attempts_made <= t.offset + 1
       /\ t.tried \subseteq Visited(t, t.offset + 1)

FallbackInv(t) ==
  ~t.any_healthy =>
    /\ t.pc \in {"select", "permit", "start", "backoff", "give_up"} =>
         t.tried = Visited(t, t.offset)
    /\ t.pc \in {"forward", "settle"} => t.tried = Visited(t, t.offset + 1)
    /\ t.pc = "give_up" => t.attempts_made >= 1

PermitInv(t) ==
  /\ t.pc = "start" => t.attempts_made = 0
  /\ t.pc \in {"permit", "backoff", "forward", "settle"} => t.attempts_made >= 1
  /\ t.pc # "done" => t.status = "pending"

HeldInv(t) ==
  /\ t.pc = "forward" => t.held = At(t, t.offset)
  /\ t.pc \notin {"forward", "done"} => t.held = N

ProxyInv ==
  /\ TypeOK
  /\ \A r \in Requests :
       LoopInv(task[r]) /\ FallbackInv(task[r]) /\ PermitInv(task[r]) /\ HeldInv(task[r])
  /\ AttemptsAreDistinct
  /\ ActiveAccounting

(***************************************************************************)
(* proxy.rs:273 - every attempt that came back is in exactly one counter,  *)
(* as an error of one type or as a success; the attempts missing are those *)
(* still under way, being settled, or dropped on the way.                  *)
(***************************************************************************)
Attempts == SumFunction([r \in Requests |-> task[r].attempts_made])
Errors == SumFunction(metrics.errors_total)

Holding == {r \in Requests : task[r].held # N}
Settling == {r \in Requests : task[r].pc = "settle"}

EveryAttemptCounted ==
  Errors + metrics.requests_total["ok"]
    = Attempts - Cardinality(Holding) - Cardinality(Settling)

(***************************************************************************)
(* proxy.rs:215 - proxy_retries_total against the retries really made: it  *)
(* misses none of them and none that is slept for, and it is ahead by one  *)
(* more at most for each request that has ended in a 504 or without its    *)
(* client, and so perhaps in that sleep, with its permit used up.          *)
(***************************************************************************)
RetriesOf(t) == IF t.attempts_made > 0 THEN t.attempts_made - 1 ELSE 0
RetriesMade == SumFunction([r \in Requests |-> RetriesOf(task[r])])

Sleeping == {r \in Requests : task[r].pc = "backoff"}
CutShort == {r \in Requests : task[r].status \in {"504", "dropped"}}

RetriesCounted ==
  /\ RetriesMade + Cardinality(Sleeping) <= metrics.retries_total
  /\ metrics.retries_total <= RetriesMade + Cardinality(Sleeping \cup CutShort)

(* A budget no number of retries can exhaust while a request is in it. *)
AmpleBudget == budget_percent >= 100 * N * Cardinality(Requests)

(***************************************************************************)
(* proxy.rs:187 - failover works: where one upstream always answers well,  *)
(* the retries reach around the whole pool and the budget does not forbid  *)
(* them, no request ever gives up, however the other upstreams and the     *)
(* health checks behave.                                                   *)
(***************************************************************************)
ReliableUpstreamServes ==
  (Reliable # {} /\ MaxAttempts >= N /\ AmpleBudget)
    => \A r \in Requests : task[r].pc # "give_up"

(***************************************************************************)
(* The inductive invariant behind it: an upstream that answers well is     *)
(* never marked nor passed, and the budget holds one permit at most for    *)
(* each of a request's attempts after the first.                           *)
(***************************************************************************)
ReliableUnmarked ==
  /\ \A u \in Reliable : ~Health!Marked(u)
  /\ \A r \in Requests :
       task[r].pc = "settle" /\ index(r) \in Reliable => task[r].outcome = "ok"

NonePassed(t) == t.pc # "done" => Visited(t, t.offset) \cap Reliable = {}

PermitsOnce ==
  \A e \in retries :
    LET t == task[e.by[1]]
        a == e.by[2]
    IN
    /\ a \in 1 .. N - 1
    /\ t.pc # "done" => a < t.attempts_made + IF t.pc = "backoff" THEN 1 ELSE 0
    /\ \A f \in retries : f.by = e.by => f = e

FailoverInv ==
  /\ ReliableUnmarked
  /\ \A r \in Requests : NonePassed(task[r])
  /\ IsFiniteSet(requests)
  /\ PermitsOnce
  /\ ReliableUpstreamServes

(***************************************************************************)
(* middleware.rs:160 - every request that arrives is answered, or its      *)
(* client is gone: no interleaving, cooldown or budget leaves it waiting.  *)
(***************************************************************************)
EventuallyAnswered ==
  \A r \in Requests : (task[r].pc # "new") ~> (task[r].pc = "done")

-----------------------------------------------------------------------------
(* What the repository says of the program and the code does not keep.     *)

AllDone == \A r \in Requests : task[r].pc = "done"

(***************************************************************************)
(* README.md:183 and balancer.rs:17 - the counts are of active             *)
(* connections: when no request is left, no upstream has any.              *)
(***************************************************************************)
ConnectionsReleased == AllDone => \A i \in Indices : active[i] = 0

(***************************************************************************)
(* proxy.rs:177 - upstreams are skipped "unless all are unhealthy": so a   *)
(* request does not give up before it has attempted one.                   *)
(***************************************************************************)
AttemptBeforeGivingUp ==
  \A r \in Requests : task[r].pc = "give_up" => task[r].attempts_made >= 1

(***************************************************************************)
(* README.md:373 - proxy_requests_total is "Total requests processed" by   *)
(* method, route and status: it counts every 504 that a client was sent.   *)
(***************************************************************************)
TimeoutsAreCounted ==
  AllDone => metrics.requests_total["504"]
               = Cardinality({r \in Requests : task[r].status = "504"})
=============================================================================
