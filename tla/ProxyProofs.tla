---------------------------- MODULE ProxyProofs ----------------------------
(***************************************************************************)
(* Proofs about the request path (src/src/proxy.rs) for every number of    *)
(* requests and upstreams.  ProxyInv is inductive; its proof is split by   *)
(* what it speaks of: the local variables of one task (TasksInv), the type *)
(* of the shared state (SharedTypeOK), and the relation between the two    *)
(* that the connection counts keep (ActiveAccounting).                     *)
(***************************************************************************)
EXTENDS Proxy, FiniteSetTheorems, TLAPS

(* A remainder is an index of the pool. *)
LEMMA ModRange ==
  ASSUME NEW a \in Int, NEW n \in Nat \ {0}
  PROVE  a % n \in 0 .. n - 1
OBVIOUS

(* An index advanced by less than N wraps at most once. *)
LEMMA ModSum ==
  ASSUME NEW n \in Nat \ {0}, NEW a \in 0 .. n - 1, NEW b \in 0 .. n - 1
  PROVE  (a + b) % n = IF a + b < n THEN a + b ELSE a + b - n
OBVIOUS

(***************************************************************************)
(* What ProxyInv says of one task, its type included.                      *)
(***************************************************************************)
TaskInv(t) ==
  /\ t \in Task
  /\ LoopInv(t)
  /\ FallbackInv(t)
  /\ PermitInv(t)
  /\ HeldInv(t)
  /\ Cardinality(t.tried) = t.attempts_made
  /\ t.attempts_made <= MaxAttempts

(* The shared state's part of the type invariant. *)
SharedTypeOK ==
  /\ now \in Nat
  /\ health \in [Indices -> Health!UpstreamHealth]
  /\ requests \in SUBSET Budget!Entry
  /\ retries \in SUBSET Budget!Entry
  /\ active \in [Indices -> 0 .. USIZE - 1]
  /\ metrics \in Metrics

TasksInv ==
  /\ task \in [Requests -> Task]
  /\ \A r \in Requests : TaskInv(task[r])

(* The invariant in its three parts: shared state, tasks, counts. *)
LEMMA ProxyInvParts == ProxyInv <=> SharedTypeOK /\ TasksInv /\ ActiveAccounting
BY DEF ProxyInv, TypeOK, SharedTypeOK, TasksInv, TaskInv, AttemptsAreDistinct

-----------------------------------------------------------------------------
(* The index of the loop is an upstream (proxy.rs:192). *)
LEMMA AtTyped ==
  ASSUME NEW t \in Task, NEW k \in Nat
  PROVE  At(t, k) \in Indices
<1>1. t.start_index + k \in Int
  BY ProxyAssumption DEF Task, Indices
<1> QED
  BY <1>1, ModRange, ProxyAssumption DEF At, Indices

(* Two different offsets below N name two different upstreams. *)
LEMMA AtInjective ==
  ASSUME NEW t \in Task, NEW j \in 0 .. N - 1, NEW k \in 0 .. N - 1, At(t, j) = At(t, k)
  PROVE  j = k
<1> DEFINE s == t.start_index
<1>1. N \in Nat \ {0} /\ s \in 0 .. N - 1
  BY ProxyAssumption DEF Task, Indices
<1> HIDE DEF s
<1>2. (s + j) % N = IF s + j < N THEN s + j ELSE s + j - N
  BY <1>1, ModSum
<1>3. (s + k) % N = IF s + k < N THEN s + k ELSE s + k - N
  BY <1>1, ModSum
<1>4. (s + j) % N = (s + k) % N
  BY DEF At, s
<1> QED
  BY <1>1, <1>2, <1>3, <1>4

(* A step that changes one task keeps TasksInv if the new task is right. *)
LEMMA TaskBecomes ==
  ASSUME TasksInv, NEW r \in Requests, NEW t, TaskInv(t), Become(r, t)
  PROVE  TasksInv'
<1>1. t \in Task
  BY DEF TaskInv
<1>2. task' \in [Requests -> Task]
  BY <1>1 DEF TasksInv, Become
<1>3. ASSUME NEW q \in Requests PROVE TaskInv(task'[q])
  <2>1. task'[q] = IF q = r THEN t ELSE task[q]
    BY DEF TasksInv, Become
  <2> QED
    BY <2>1 DEF TasksInv
<1>4. ASSUME NEW q \in Requests PROVE TaskInv(task[q])'
  <2>1. TaskInv(task'[q])
    BY <1>3
  <2> QED
    BY <2>1 DEF TaskInv, LoopInv, FallbackInv, PermitInv, HeldInv, Visited, At
<1> QED
  BY <1>2, <1>4 DEF TasksInv

-----------------------------------------------------------------------------
(***************************************************************************)
(* What each step makes of its task satisfies TaskInv again.  First the    *)
(* steps that end the task, wherever it is.                                *)
(***************************************************************************)
LEMMA DoneKeeps ==
  ASSUME NEW t, TaskInv(t), NEW s \in Statuses
  PROVE  TaskInv([t EXCEPT !.pc = "done", !.status = s])
BY DEF TaskInv, Task, PC, LoopInv, FallbackInv, PermitInv, HeldInv

(* Steps before the loop. *)
LEMMA RouteKeeps ==
  ASSUME NEW t, TaskInv(t), t.pc = "new"
  PROVE  TaskInv([t EXCEPT !.pc = "body"])
BY DEF TaskInv, Task, PC, Awaits, LoopInv, FallbackInv, PermitInv, HeldInv

(* The balancer has named a first upstream (proxy.rs:175). *)
LEMMA BodyReadKeeps ==
  ASSUME NEW t, TaskInv(t), t.pc = "body", NEW i \in Indices
  PROVE  TaskInv([t EXCEPT !.pc = "scan", !.start_index = i])
BY DEF TaskInv, Task, PC, LoopInv, FallbackInv, PermitInv, HeldInv

(* One question of the any_healthy scan (proxy.rs:178-180). *)
LEMMA ScanKeeps ==
  ASSUME NEW t, TaskInv(t), t.pc = "scan"
  PROVE  /\ TaskInv([t EXCEPT !.pc = "record", !.any_healthy = TRUE])
         /\ TaskInv([t EXCEPT !.pc = "record"])
         /\ t.cursor # N - 1 => TaskInv([t EXCEPT !.cursor = @ + 1])
<1>1. TaskInv([t EXCEPT !.pc = "record", !.any_healthy = TRUE])
  BY DEF TaskInv, Task, PC, LoopInv, FallbackInv, PermitInv, HeldInv
<1>2. TaskInv([t EXCEPT !.pc = "record"])
  BY DEF TaskInv, Task, PC, LoopInv, FallbackInv, PermitInv, HeldInv
<1>3. ASSUME t.cursor # N - 1 PROVE TaskInv([t EXCEPT !.cursor = @ + 1])
  BY <1>3, ProxyAssumption DEF TaskInv, Task, Indices, LoopInv, FallbackInv, PermitInv, HeldInv
<1> QED
  BY <1>1, <1>2, <1>3

(* The request enters the budget and the loop begins (proxy.rs:185-187). *)
LEMMA RecordKeeps ==
  ASSUME NEW t, TaskInv(t), t.pc = "record"
  PROVE  TaskInv([t EXCEPT !.pc = "select"])
<1> DEFINE u == [t EXCEPT !.pc = "select"]
<1>1. t \in Task /\ t.offset = 0 /\ t.attempts_made = 0 /\ t.tried = {} /\ t.held = N
      /\ t.status = "pending" /\ Cardinality(t.tried) = t.attempts_made
  BY DEF TaskInv, LoopInv, PermitInv, HeldInv
<1>2. u \in Task
  BY <1>1 DEF Task, PC
<1>3. u.tried = Visited(u, u.offset)
  BY <1>1 DEF Task, Visited
<1>4. LoopInv(u)
  BY <1>1, <1>3, ProxyAssumption DEF LoopInv, Task, MaxAttempts
<1>5. FallbackInv(u) /\ PermitInv(u) /\ HeldInv(u)
  BY <1>1, <1>3 DEF FallbackInv, PermitInv, HeldInv, Task
<1> QED
  BY <1>1, <1>2, <1>4, <1>5, ProxyAssumption DEF TaskInv, Task, MaxAttempts

(* Steps of the loop. *)
LEMMA SelectKeeps ==
  ASSUME NEW t, TaskInv(t), t.pc \in {"select", "permit"},
         NEW pc \in {"start", "permit", "backoff", "give_up"},
         pc = "start" <=> t.attempts_made = 0
  PROVE  TaskInv([t EXCEPT !.pc = pc])
<1> DEFINE u == [t EXCEPT !.pc = pc]
<1>1. t \in Task /\ LoopInv(t) /\ FallbackInv(t) /\ PermitInv(t) /\ HeldInv(t)
  BY DEF TaskInv
<1>2. u \in Task
  BY <1>1 DEF Task, PC, Awaits
<1>3. Visited(u, u.offset) = Visited(t, t.offset)
  BY <1>1 DEF Task, Visited, At
<1>4. LoopInv(u)
  BY <1>1, <1>3 DEF LoopInv, Task
<1>5. FallbackInv(u)
  BY <1>1, <1>3 DEF FallbackInv, Task
<1>6. PermitInv(u) /\ HeldInv(u)
  BY <1>1 DEF PermitInv, HeldInv, Task
<1> QED
  BY <1>1, <1>2, <1>4, <1>5, <1>6 DEF TaskInv, Task

(* The upstream at t.offset was skipped, or the attempt on it has failed. *)
LEMMA AdvanceKeeps ==
  ASSUME NEW t, TaskInv(t), t.pc \in {"select", "settle"},
         NEW o \in Outcomes, NEW e \in {"none", "UpstreamFailure", "UpstreamTimeout"},
         t.pc = "select" => t.any_healthy,
         NEW pc, pc = IF t.offset + 1 < N /\ t.attempts_made < MaxAttempts
                        THEN "select" ELSE "give_up"
  PROVE  TaskInv([t EXCEPT !.pc = pc, !.offset = @ + 1, !.outcome = o, !.last_error = e])
<1> DEFINE u == [t EXCEPT !.pc = pc, !.offset = @ + 1, !.outcome = o, !.last_error = e]
<1>1. /\ t \in Task
      /\ t.offset < N
      /\ t.attempts_made <= t.offset + 1
      /\ t.held = N
  BY DEF TaskInv, Task, LoopInv, HeldInv
<1>2. u \in Task
  <2>1. pc \in PC
    BY DEF PC
  <2>2. t.offset + 1 \in 0 .. N
    BY <1>1, ProxyAssumption DEF Task
  <2> QED
    BY <1>1, <2>1, <2>2 DEF Task
<1>3. t.tried \subseteq Visited(t, t.offset + 1)
  <2>1. CASE t.pc = "select"
    BY <2>1, <1>1 DEF TaskInv, LoopInv, Visited, Task
  <2>2. CASE t.pc = "settle"
    BY <2>2 DEF TaskInv, LoopInv
  <2> QED
    BY <2>1, <2>2
<1>4. u.tried \subseteq Visited(u, u.offset)
  BY <1>1, <1>3 DEF Visited, At, Task
<1>5. LoopInv(u)
  BY <1>1, <1>4, ProxyAssumption DEF LoopInv, Task
<1>6. HeldInv(u) /\ PermitInv(u)
  BY <1>1 DEF TaskInv, HeldInv, PermitInv, Task
<1>8. FallbackInv(u)
  <2>1. Visited(u, u.offset) = Visited(t, t.offset + 1)
    BY <1>1 DEF Visited, At, Task
  <2>2. ~t.any_healthy => t.tried = Visited(t, t.offset + 1) /\ t.attempts_made >= 1
    BY DEF TaskInv, FallbackInv, PermitInv
  <2> QED
    BY <1>1, <2>1, <2>2 DEF FallbackInv, Task
<1>7. Cardinality(u.tried) = u.attempts_made /\ u.attempts_made <= MaxAttempts
  BY <1>1 DEF TaskInv, Task
<1> QED
  BY <1>2, <1>5, <1>6, <1>7, <1>8 DEF TaskInv

(* An attempt starts on an upstream not attempted before (proxy.rs:235-252). *)
LEMMA StartKeeps ==
  ASSUME NEW t, TaskInv(t), t.pc \in {"start", "backoff"},
         NEW i, i = At(t, t.offset)
  PROVE  TaskInv([t EXCEPT !.pc = "forward", !.attempts_made = @ + 1,
                           !.held = i, !.tried = @ \cup {i}])
<1> DEFINE u == [t EXCEPT !.pc = "forward", !.attempts_made = @ + 1,
                          !.held = i, !.tried = @ \cup {i}]
<1>1. /\ t \in Task
      /\ t.offset \in 0 .. N - 1
      /\ t.attempts_made <= t.offset
      /\ t.attempts_made < MaxAttempts
      /\ t.tried \subseteq Visited(t, t.offset)
      /\ ~t.any_healthy => t.tried = Visited(t, t.offset)
      /\ t.status = "pending"
      /\ Cardinality(t.tried) = t.attempts_made
  BY ProxyAssumption DEF TaskInv, Task, LoopInv, FallbackInv, PermitInv
<1>2. i \in Indices
  BY <1>1, AtTyped
<1>3. u \in Task
  <2>1. "forward" \in PC
    BY DEF PC, Awaits
  <2>2. t.attempts_made + 1 \in Nat
    BY <1>1 DEF Task
  <2>3. i \in Indices \cup {N} /\ t.tried \cup {i} \in SUBSET Indices
    BY <1>1, <1>2 DEF Task
  <2> QED
    BY <1>1, <2>1, <2>2, <2>3 DEF Task
<1>4. i \notin t.tried
  <2> SUFFICES ASSUME i \in t.tried PROVE FALSE
    OBVIOUS
  <2>1. PICK k \in 0 .. t.offset - 1 : i = At(t, k)
    BY <1>1 DEF Visited
  <2>2. k \in 0 .. N - 1 /\ k # t.offset
    BY <1>1, <2>1, ProxyAssumption
  <2> QED
    BY <1>1, <2>1, <2>2, AtInjective
<1>5. Cardinality(u.tried) = u.attempts_made
  <2>1. IsFiniteSet(Indices)
    BY FS_Interval, ProxyAssumption DEF Indices
  <2>2. IsFiniteSet(t.tried)
    BY <1>1, <2>1, FS_Subset DEF Task
  <2>3. Cardinality(t.tried \cup {i}) = Cardinality(t.tried) + 1
    BY <1>4, <2>2, FS_AddElement
  <2> QED
    BY <1>1, <2>3 DEF Task
<1>6. u.attempts_made <= MaxAttempts
  BY <1>1, ProxyAssumption DEF Task, MaxAttempts
<1>7. LoopInv(u)
  <2>1. u.tried \subseteq Visited(u, u.offset + 1)
    <3>1. Visited(u, u.offset + 1) = Visited(t, t.offset + 1)
      BY <1>1 DEF Visited, At, Task
    <3>2. t.tried \subseteq Visited(t, t.offset + 1)
      BY <1>1, ProxyAssumption DEF Visited
    <3>3. i \in Visited(t, t.offset + 1)
      BY <1>1, ProxyAssumption DEF Visited
    <3> QED
      BY <1>1, <3>1, <3>2, <3>3 DEF Task
  <2> QED
    BY <1>1, <2>1, ProxyAssumption DEF LoopInv, Task
<1>8. HeldInv(u) /\ PermitInv(u)
  BY <1>1 DEF HeldInv, PermitInv, Task, At
<1>9. FallbackInv(u)
  <2>1. Visited(u, u.offset + 1) = Visited(t, t.offset) \cup {i}
    <3>1. Visited(u, u.offset + 1) = Visited(t, t.offset + 1)
      BY <1>1 DEF Visited, At, Task
    <3>2. 0 .. t.offset + 1 - 1 = (0 .. t.offset - 1) \cup {t.offset}
      BY <1>1
    <3> QED
      BY <3>1, <3>2 DEF Visited
  <2> QED
    BY <1>1, <2>1 DEF FallbackInv, Task
<1> QED
  BY <1>3, <1>5, <1>6, <1>7, <1>8, <1>9 DEF TaskInv

(* forward_once has returned (proxy.rs:254-265). *)
LEMMA ForwardKeeps ==
  ASSUME NEW t, TaskInv(t), t.pc = "forward", NEW o \in Outcomes
  PROVE  TaskInv([t EXCEPT !.pc = "settle", !.outcome = o, !.held = N])
<1> DEFINE u == [t EXCEPT !.pc = "settle", !.outcome = o, !.held = N]
<1>1. t \in Task /\ LoopInv(t) /\ FallbackInv(t) /\ PermitInv(t)
  BY DEF TaskInv
<1>2. u \in Task
  BY <1>1 DEF Task, PC
<1>3. u.tried \subseteq Visited(u, u.offset + 1)
  BY <1>1 DEF LoopInv, Visited, At, Task
<1>4. LoopInv(u)
  BY <1>1, <1>3 DEF LoopInv, Task
<1>5. HeldInv(u) /\ PermitInv(u)
  BY <1>1 DEF HeldInv, PermitInv, Task
<1>6. FallbackInv(u)
  BY <1>1 DEF FallbackInv, Visited, At, Task
<1> QED
  BY <1>1, <1>2, <1>4, <1>5, <1>6 DEF TaskInv, Task

(***************************************************************************)
(* Every step of the system preserves what is known of every task.         *)
(***************************************************************************)
LEMMA TasksStep == TasksInv /\ [Next]_vars => TasksInv'
<1> SUFFICES ASSUME TasksInv, [Next]_vars PROVE TasksInv'
  OBVIOUS
<1>1. ASSUME NEW r \in Requests PROVE TaskInv(task[r]) /\ task[r] \in Task
  BY DEF TasksInv, TaskInv
<1>2. ASSUME NEW r \in Requests, NEW s \in Statuses, Respond(r, s) PROVE TasksInv'
  BY <1>1, <1>2, DoneKeeps, TaskBecomes DEF Respond
<1>3. ASSUME UNCHANGED task PROVE TasksInv'
  BY <1>3 DEF TasksInv, TaskInv, LoopInv, FallbackInv, PermitInv, HeldInv, Visited, At
<1>4. ASSUME NEW r \in Requests, Arrive(r) PROVE TasksInv'
  <2>1. CASE RateLimited(r)
    BY <2>1, <1>2 DEF RateLimited, Statuses
  <2>2. CASE NoRoute(r)
    BY <2>2, <1>2 DEF NoRoute, Statuses
  <2>3. CASE Route(r)
    BY <2>3, <1>1, RouteKeeps, TaskBecomes DEF Route
  <2> QED
    BY <1>4, <2>1, <2>2, <2>3 DEF Arrive
<1>5. ASSUME NEW r \in Requests, BodyFails(r) PROVE TasksInv'
  BY <1>5, <1>2 DEF BodyFails, Statuses
<1>6. ASSUME NEW r \in Requests, BodyRead(r) PROVE TasksInv'
  BY <1>6, <1>1, BodyReadKeeps, TaskBecomes DEF BodyRead
<1>7. ASSUME NEW r \in Requests, ScanHealthy(r) \/ ScanUnhealthy(r) PROVE TasksInv'
  BY <1>7, <1>1, ScanKeeps, TaskBecomes DEF ScanHealthy, ScanUnhealthy
<1>8. ASSUME NEW r \in Requests, RecordRequest(r) PROVE TasksInv'
  BY <1>8, <1>1, RecordKeeps, TaskBecomes DEF RecordRequest
<1>9. ASSUME NEW r \in Requests, Skip(r) PROVE TasksInv'
  <2> DEFINE t == task[r]
             pc == LoopHead(r, t.offset + 1)
             u == [t EXCEPT !.pc = pc, !.offset = @ + 1]
  <2>1. u = [t EXCEPT !.pc = pc, !.offset = @ + 1,
                      !.outcome = t.outcome, !.last_error = t.last_error]
    BY <1>1 DEF Task
  <2>2. TaskInv(t) /\ t.outcome \in Outcomes
        /\ t.last_error \in {"none", "UpstreamFailure", "UpstreamTimeout"}
    BY <1>1 DEF Task
  <2>3. TaskInv(u)
    <3>1. TaskInv([t EXCEPT !.pc = pc, !.offset = @ + 1,
                            !.outcome = t.outcome, !.last_error = t.last_error])
      BY <1>9, <2>2, AdvanceKeeps DEF Skip, LoopHead
    <3> QED
      BY <2>1, <3>1
  <2> QED
    BY <1>9, <2>3, TaskBecomes DEF Skip
<1>10. ASSUME NEW r \in Requests, Select(r) PROVE TasksInv'
  BY <1>10, <1>1, SelectKeeps, TaskBecomes DEF Select
<1>11. ASSUME NEW r \in Requests, RetryAllowed(r) \/ RetryDenied(r) PROVE TasksInv'
  <2>1. task[r].attempts_made # 0
    BY <1>11, <1>1 DEF RetryAllowed, RetryDenied, TaskInv, PermitInv, Task
  <2> QED
    BY <1>11, <1>1, <2>1, SelectKeeps, TaskBecomes DEF RetryAllowed, RetryDenied
<1>12. ASSUME NEW r \in Requests, StartAttempt(r) PROVE TasksInv'
  BY <1>12, <1>1, StartKeeps, TaskBecomes DEF StartAttempt, index
<1>13. ASSUME NEW r \in Requests, Forward(r) PROVE TasksInv'
  BY <1>13, <1>1, ForwardKeeps, TaskBecomes DEF Forward, forward_once
<1>14. ASSUME NEW r \in Requests, Succeed(r) PROVE TasksInv'
  BY <1>14, <1>2 DEF Succeed, Statuses
<1>15. ASSUME NEW r \in Requests, AttemptFails(r) PROVE TasksInv'
  <2> DEFINE t == task[r]
             pc == LoopHead(r, t.offset + 1)
             e == IF t.outcome = "timeout" THEN "UpstreamTimeout" ELSE "UpstreamFailure"
  <2>1. TaskInv([t EXCEPT !.pc = pc, !.offset = @ + 1, !.outcome = "ok", !.last_error = e])
    BY <1>1, <1>15, AdvanceKeeps DEF AttemptFails, LoopHead, Outcomes
  <2> QED
    BY <1>15, <2>1, TaskBecomes DEF AttemptFails
<1>16. ASSUME NEW r \in Requests, GiveUp(r) PROVE TasksInv'
  BY <1>16, <1>2 DEF GiveUp, Statuses
<1>17. ASSUME NEW r \in Requests, OverallTimeout(r) \/ ClientGone(r) PROVE TasksInv'
  BY <1>17, <1>2 DEF OverallTimeout, ClientGone, Statuses
<1>18. ASSUME NEW u \in HealthChecked, Probe(u) PROVE TasksInv'
  BY <1>18, <1>3 DEF Probe
<1>19. ASSUME Tick PROVE TasksInv'
  BY <1>19, <1>3 DEF Tick
<1>20. ASSUME UNCHANGED vars PROVE TasksInv'
  BY <1>20, <1>3 DEF vars
<1> QED
  BY <1>4, <1>5, <1>6, <1>7, <1>8, <1>9, <1>10, <1>11, <1>12, <1>13, <1>14, <1>15,
     <1>16, <1>17, <1>18, <1>19, <1>20
  DEF Next, Compute

-----------------------------------------------------------------------------
(***************************************************************************)
(* The type of the shared state.  The operations of the health tracker and *)
(* of the retry budget are taken one by one.                               *)
(***************************************************************************)
LEMMA HealthTyped ==
  ASSUME SharedTypeOK, NEW u \in Indices,
         \/ Health!record_failure(u)
         \/ Health!record_success(u)
         \/ Health!is_healthy(u)
  PROVE  health' \in [Indices -> Health!UpstreamHealth]
BY ProxyAssumption
DEF SharedTypeOK, Health!record_failure, Health!record_success, Health!is_healthy,
    Health!UpstreamHealth, Health!Fresh, Health!None

(* The budget stays well typed (retry_budget.rs:30-54). *)
LEMMA BudgetTyped ==
  ASSUME SharedTypeOK, NEW c \in Callers,
         Budget!record_request(c) \/ Budget!allow_retry(c)
  PROVE  requests' \in SUBSET Budget!Entry /\ retries' \in SUBSET Budget!Entry
BY DEF SharedTypeOK, Budget!record_request, Budget!allow_retry, Budget!retain, Budget!Entry

(* Counting a request keeps the metrics well typed. *)
LEMMA CountTyped ==
  ASSUME SharedTypeOK, NEW s \in {"ok", "404", "502", "504"}, CountRequest(s)
  PROVE  metrics' \in Metrics
BY DEF SharedTypeOK, CountRequest, Metrics

(* An AtomicUsize stays below its modulus (balancer.rs:73-83). *)
LEMMA ActiveTyped ==
  ASSUME SharedTypeOK, NEW i \in Indices, record_start(i) \/ record_done(i)
  PROVE  active' \in [Indices -> 0 .. USIZE - 1]
<1>1. USIZE \in Nat \ {0} /\ active[i] + 1 \in Int /\ active[i] - 1 \in Int
  BY ProxyAssumption, FS_CardinalityType DEF SharedTypeOK
<1>2. (active[i] + 1) % USIZE \in 0 .. USIZE - 1 /\ (active[i] - 1) % USIZE \in 0 .. USIZE - 1
  BY <1>1, ModRange
<1> QED
  BY <1>2 DEF SharedTypeOK, record_start, record_done

(* Every step of the system keeps the shared state well typed. *)
LEMMA SharedStep == SharedTypeOK /\ TasksInv /\ [Next]_vars => SharedTypeOK'
<1> SUFFICES ASSUME SharedTypeOK, TasksInv, [Next]_vars PROVE SharedTypeOK'
  OBVIOUS
<1> USE DEF budget
<1>1. ASSUME NEW r \in Requests
      PROVE  /\ TaskInv(task[r])
             /\ task[r] \in Task
             /\ task[r].cursor \in Indices
             /\ index(r) \in Indices
  <2>1. TaskInv(task[r]) /\ task[r] \in Task
    BY DEF TasksInv, TaskInv
  <2>2. task[r].cursor \in Indices /\ task[r].offset \in Nat
    BY <2>1, ProxyAssumption DEF Task
  <2> QED
    BY <2>1, <2>2, AtTyped DEF index
<1>2. ASSUME NEW r \in Requests, task[r].pc = "permit"
      PROVE  <<r, task[r].attempts_made>> \in Callers
  <2>1. task[r].attempts_made \in 0 .. N
    BY <1>1, <1>2, ProxyAssumption DEF TaskInv, LoopInv, Task
  <2> QED
    BY <2>1 DEF Callers
<1>3. ASSUME NEW r \in Requests,
             \/ RateLimited(r) \/ Route(r) \/ BodyFails(r) \/ BodyRead(r)
             \/ OverallTimeout(r) \/ ClientGone(r)
      PROVE  SharedTypeOK'
  BY <1>3
  DEF RateLimited, Route, BodyFails, BodyRead, OverallTimeout, ClientGone, SharedTypeOK
<1>4. ASSUME NEW r \in Requests, NoRoute(r) PROVE SharedTypeOK'
  BY <1>4, CountTyped DEF NoRoute, SharedTypeOK
<1>5. ASSUME NEW r \in Requests, ScanHealthy(r) \/ ScanUnhealthy(r) PROVE SharedTypeOK'
  BY <1>1, <1>5, HealthTyped DEF ScanHealthy, ScanUnhealthy, SharedTypeOK
<1>6. ASSUME NEW r \in Requests, RecordRequest(r) PROVE SharedTypeOK'
  <2>1. <<r, 0>> \in Callers
    BY ProxyAssumption DEF Callers
  <2> QED
    BY <1>6, <2>1, BudgetTyped DEF RecordRequest, SharedTypeOK
<1>7. ASSUME NEW r \in Requests, Skip(r) \/ Select(r) PROVE SharedTypeOK'
  BY <1>1, <1>7, HealthTyped DEF Skip, Select, SharedTypeOK
<1>8. ASSUME NEW r \in Requests, RetryAllowed(r) PROVE SharedTypeOK'
  <2>1. metrics' \in Metrics
    BY <1>8 DEF RetryAllowed, SharedTypeOK, Metrics
  <2> QED
    BY <1>2, <1>8, <2>1, BudgetTyped DEF RetryAllowed, SharedTypeOK
<1>9. ASSUME NEW r \in Requests, RetryDenied(r) PROVE SharedTypeOK'
  BY <1>2, <1>9, BudgetTyped DEF RetryDenied, SharedTypeOK
<1>10. ASSUME NEW r \in Requests, StartAttempt(r) PROVE SharedTypeOK'
  BY <1>1, <1>10, ActiveTyped DEF StartAttempt, SharedTypeOK
<1>11. ASSUME NEW r \in Requests, Forward(r) PROVE SharedTypeOK'
  BY <1>1, <1>11, ActiveTyped DEF Forward, forward_once, SharedTypeOK
<1>12. ASSUME NEW r \in Requests, Succeed(r) PROVE SharedTypeOK'
  BY <1>1, <1>12, HealthTyped, CountTyped DEF Succeed, SharedTypeOK
<1>13. ASSUME NEW r \in Requests, AttemptFails(r) PROVE SharedTypeOK'
  <2>1. metrics' \in Metrics
    BY <1>13 DEF AttemptFails, SharedTypeOK, Metrics
  <2> QED
    BY <1>1, <1>13, <2>1, HealthTyped DEF AttemptFails, SharedTypeOK
<1>14. ASSUME NEW r \in Requests, GiveUp(r) PROVE SharedTypeOK'
  BY <1>14, CountTyped DEF GiveUp, SharedTypeOK
<1>15. ASSUME NEW u \in HealthChecked, Probe(u) PROVE SharedTypeOK'
  <2>1. u \in Indices
    BY ProxyAssumption DEF Indices
  <2> QED
    BY <1>15, <2>1, HealthTyped DEF Probe, SharedTypeOK
<1>16. ASSUME Tick PROVE SharedTypeOK'
  BY <1>16 DEF Tick, Health!Tick, SharedTypeOK
<1>17. ASSUME UNCHANGED vars PROVE SharedTypeOK'
  BY <1>17 DEF vars, SharedTypeOK
<1> QED
  BY <1>3, <1>4, <1>5, <1>6, <1>7, <1>8, <1>9, <1>10, <1>11, <1>12, <1>13, <1>14, <1>15,
     <1>16, <1>17
  DEF Next, Compute, Arrive

-----------------------------------------------------------------------------
(***************************************************************************)
(* The connection counts.  A step that leaves its task's `held' alone      *)
(* changes no count and no set of holders.                                 *)
(***************************************************************************)
LEMMA HoldersFinite ==
  ASSUME NEW i
  PROVE  /\ IsFiniteSet(Holders(i))
         /\ Cardinality(Holders(i)) \in Nat
         /\ Cardinality(Holders(i)) <= Cardinality(Requests)
<1>1. Holders(i) \subseteq Requests
  BY DEF Holders
<1> QED
  BY <1>1, ProxyAssumption, FS_Subset, FS_CardinalityType

(* A step that leaves `held' and the counts alone keeps them right. *)
LEMMA HoldersSame ==
  ASSUME TasksInv, ActiveAccounting, UNCHANGED active,
         NEW r \in Requests, NEW t, Become(r, t), t.held = task[r].held
  PROVE  ActiveAccounting'
<1>1. ASSUME NEW q \in Requests PROVE task'[q].held = task[q].held
  BY DEF TasksInv, Become
<1>2. ASSUME NEW i \in Indices PROVE Holders(i)' = Holders(i)
  BY <1>1 DEF Holders
<1> QED
  BY <1>2 DEF ActiveAccounting

(* record_start adds the new holder to its count (balancer.rs:73). *)
LEMMA StartAccounted ==
  ASSUME TasksInv, SharedTypeOK, ActiveAccounting, NEW r \in Requests, StartAttempt(r)
  PROVE  ActiveAccounting'
<1>1. task[r] \in Task /\ task[r].held = N
  BY DEF TasksInv, TaskInv, HeldInv, StartAttempt
<1>2. PICK i \in Indices : i = index(r)
  <2>1. task[r].offset \in Nat
    BY <1>1, ProxyAssumption DEF Task
  <2> QED
    BY <1>1, <2>1, AtTyped DEF index
<1>3. ASSUME NEW q \in Requests PROVE task'[q].held = IF q = r THEN i ELSE task[q].held
  BY <1>1, <1>2 DEF StartAttempt, Become, TasksInv, Task
<1>4. i # N
  BY <1>2, ProxyAssumption DEF Indices
<1>5. Holders(i)' = Holders(i) \cup {r} /\ r \notin Holders(i)
  BY <1>1, <1>3, <1>4 DEF Holders
<1>6. ASSUME NEW j \in Indices, j # i PROVE Holders(j)' = Holders(j)
  <2>1. j # N
    BY ProxyAssumption DEF Indices
  <2> QED
    BY <1>1, <1>3, <1>6, <2>1 DEF Holders
<1>7. Cardinality(Holders(i)') = Cardinality(Holders(i)) + 1
  BY <1>5, HoldersFinite, FS_AddElement
<1>8. Cardinality(Holders(i)') <= Cardinality(Requests)
  <2>1. Holders(i)' \subseteq Requests
    BY DEF Holders
  <2> QED
    BY <2>1, ProxyAssumption, FS_Subset
<1>9. (active[i] + 1) % USIZE = active[i] + 1
  <2> DEFINE c == Cardinality(Holders(i))
  <2>1. active[i] = c /\ c \in Nat /\ c + 1 < USIZE /\ USIZE \in Nat
    BY <1>2, <1>7, <1>8, HoldersFinite, ProxyAssumption, FS_CardinalityType
    DEF ActiveAccounting
  <2> QED
    BY <2>1
<1>10. active' = [active EXCEPT ![i] = active[i] + 1]
  BY <1>2, <1>9 DEF StartAttempt, record_start
<1> QED
  BY <1>2, <1>5, <1>6, <1>7, <1>10 DEF ActiveAccounting, SharedTypeOK

(* record_done takes it off again, from a count above zero (balancer.rs:79). *)
LEMMA ForwardAccounted ==
  ASSUME TasksInv, SharedTypeOK, ActiveAccounting, NEW r \in Requests, Forward(r)
  PROVE  ActiveAccounting'
<1>0. PICK o \in Outcomes : forward_once(r, o)
  BY DEF Forward
<1>1. task[r] \in Task /\ task[r].held = index(r)
  BY <1>0 DEF TasksInv, TaskInv, HeldInv, forward_once, index
<1>2. PICK i \in Indices : i = index(r)
  <2>1. task[r].offset \in Nat
    BY <1>1, ProxyAssumption DEF Task
  <2> QED
    BY <1>1, <2>1, AtTyped DEF index
<1>3. ASSUME NEW q \in Requests PROVE task'[q].held = IF q = r THEN N ELSE task[q].held
  BY <1>0, <1>1 DEF forward_once, Become, TasksInv, Task
<1>4. i # N
  BY <1>2, ProxyAssumption DEF Indices
<1>5. Holders(i)' = Holders(i) \ {r} /\ r \in Holders(i)
  BY <1>1, <1>2, <1>3, <1>4 DEF Holders
<1>6. ASSUME NEW j \in Indices, j # i PROVE Holders(j)' = Holders(j)
  <2>1. j # N
    BY ProxyAssumption DEF Indices
  <2> QED
    BY <1>1, <1>2, <1>3, <1>6, <2>1 DEF Holders
<1>7. Cardinality(Holders(i)') = Cardinality(Holders(i)) - 1
  BY <1>5, HoldersFinite, FS_RemoveElement
<1>8. Cardinality(Holders(i)) # 0
  BY <1>5, HoldersFinite, FS_EmptySet
<1>9. (active[i] - 1) % USIZE = active[i] - 1
  <2> DEFINE c == Cardinality(Holders(i))
  <2>1. active[i] = c /\ c \in Nat /\ c # 0 /\ c < USIZE /\ USIZE \in Nat
    BY <1>2, <1>8, HoldersFinite, ProxyAssumption, FS_CardinalityType
    DEF ActiveAccounting
  <2> QED
    BY <2>1
<1>10. active' = [active EXCEPT ![i] = active[i] - 1]
  BY <1>0, <1>2, <1>9 DEF forward_once, record_done
<1> QED
  BY <1>2, <1>5, <1>6, <1>7, <1>10 DEF ActiveAccounting, SharedTypeOK

(***************************************************************************)
(* Every step of the system keeps the counts right.                        *)
(***************************************************************************)
LEMMA AccountingStep ==
  TasksInv /\ SharedTypeOK /\ ActiveAccounting /\ [Next]_vars => ActiveAccounting'
<1> SUFFICES ASSUME TasksInv, SharedTypeOK, ActiveAccounting, [Next]_vars
             PROVE  ActiveAccounting'
  OBVIOUS
<1>1. ASSUME NEW r \in Requests PROVE task[r] \in Task
  BY DEF TasksInv
<1>2. ASSUME NEW r \in Requests, NEW s, Respond(r, s), UNCHANGED active
      PROVE  ActiveAccounting'
  BY <1>1, <1>2, HoldersSame DEF Respond, Task
<1>3. ASSUME NEW r \in Requests,
             Arrive(r) \/ BodyFails(r) \/ Succeed(r) \/ GiveUp(r)
               \/ OverallTimeout(r) \/ ClientGone(r)
      PROVE  ActiveAccounting'
  <2>1. CASE Route(r)
    BY <1>1, <2>1, HoldersSame DEF Route, Task
  <2> QED
    BY <1>2, <1>3, <2>1
    DEF Arrive, RateLimited, NoRoute, BodyFails, Succeed, GiveUp, OverallTimeout, ClientGone
<1>4. ASSUME NEW r \in Requests,
             BodyRead(r) \/ ScanHealthy(r) \/ ScanUnhealthy(r) \/ RecordRequest(r)
      PROVE  ActiveAccounting'
  BY <1>1, <1>4, HoldersSame
  DEF BodyRead, ScanHealthy, ScanUnhealthy, RecordRequest, Task
<1>5. ASSUME NEW r \in Requests,
             Skip(r) \/ Select(r) \/ RetryAllowed(r) \/ RetryDenied(r) \/ AttemptFails(r)
      PROVE  ActiveAccounting'
  BY <1>1, <1>5, HoldersSame
  DEF Skip, Select, RetryAllowed, RetryDenied, AttemptFails, Task
<1>6. ASSUME NEW r \in Requests, StartAttempt(r) PROVE ActiveAccounting'
  BY <1>6, StartAccounted
<1>7. ASSUME NEW r \in Requests, Forward(r) PROVE ActiveAccounting'
  BY <1>7, ForwardAccounted
<1>8. ASSUME UNCHANGED <<active, task>> PROVE ActiveAccounting'
  BY <1>8 DEF ActiveAccounting, Holders
<1>9. ASSUME NEW u \in HealthChecked, Probe(u) PROVE ActiveAccounting'
  BY <1>8, <1>9 DEF Probe
<1>10. ASSUME Tick PROVE ActiveAccounting'
  BY <1>8, <1>10 DEF Tick
<1>11. ASSUME UNCHANGED vars PROVE ActiveAccounting'
  BY <1>8, <1>11 DEF vars
<1> QED
  BY <1>3, <1>4, <1>5, <1>6, <1>7, <1>9, <1>10, <1>11 DEF Next, Compute

-----------------------------------------------------------------------------
(* No request has arrived and no connection is held. *)
LEMMA ProxyInit == Init => ProxyInv
<1> SUFFICES ASSUME Init PROVE SharedTypeOK /\ TasksInv /\ ActiveAccounting
  BY ProxyInvParts
<1> USE ProxyAssumption
<1>1. now \in Nat /\ health \in [Indices -> Health!UpstreamHealth]
  BY DEF Init, Health!Init, Health!UpstreamHealth, Health!Fresh, Health!None
<1>2. active \in [Indices -> 0 .. USIZE - 1]
  BY FS_CardinalityType DEF Init
<1>3. metrics \in Metrics
  BY DEF Init, Metrics
<1>4. SharedTypeOK
  BY <1>1, <1>2, <1>3 DEF Init, SharedTypeOK
<1>5. TaskInv(NewTask)
  <2>1. NewTask \in Task
    BY DEF Task, NewTask, Indices, PC, Statuses, Outcomes
  <2>2. LoopInv(NewTask) /\ FallbackInv(NewTask) /\ PermitInv(NewTask) /\ HeldInv(NewTask)
    BY DEF NewTask, LoopInv, FallbackInv, PermitInv, HeldInv
  <2>3. Cardinality(NewTask.tried) = 0
    BY FS_EmptySet DEF NewTask
  <2> QED
    BY <2>1, <2>2, <2>3 DEF TaskInv, NewTask, MaxAttempts
<1>6. TasksInv
  BY <1>5 DEF Init, TasksInv, TaskInv
<1>7. ASSUME NEW i \in Indices PROVE Holders(i) = {}
  BY DEF Init, Holders, NewTask, Indices
<1>8. ActiveAccounting
  BY <1>7, FS_EmptySet DEF Init, ActiveAccounting
<1> QED
  BY <1>4, <1>6, <1>8

(***************************************************************************)
(* ProxyInv is inductive: it holds in every reachable state of the request *)
(* path of proxy.rs, for any number of requests and upstreams, any retry,  *)
(* health and budget settings, and any behaviour of upstreams and clients. *)
(***************************************************************************)
THEOREM ProxyInvariant == Spec => []ProxyInv
<1>1. ProxyInv /\ [Next]_vars => ProxyInv'
  <2> SUFFICES ASSUME ProxyInv, [Next]_vars PROVE ProxyInv'
    OBVIOUS
  <2>1. SharedTypeOK /\ TasksInv /\ ActiveAccounting
    BY ProxyInvParts
  <2>2. SharedTypeOK' /\ TasksInv' /\ ActiveAccounting'
    BY <2>1, TasksStep, SharedStep, AccountingStep
  <2> QED
    BY <2>2, ProxyInvParts, PTL
<1> QED
  BY <1>1, ProxyInit, PTL DEF Spec

(***************************************************************************)
(* The retry loop sends a request to no upstream twice and to no more than *)
(* max_retries + 1 of them (proxy.rs:187-192).                             *)
(***************************************************************************)
THEOREM DistinctTheorem == Spec => []AttemptsAreDistinct
<1>1. ProxyInv => AttemptsAreDistinct
  BY DEF ProxyInv
<1> QED
  BY <1>1, ProxyInvariant, PTL

(***************************************************************************)
(* The connection counts are exact and fetch_sub never wraps below zero,   *)
(* whatever is cancelled (balancer.rs:73-83).                              *)
(***************************************************************************)
THEOREM AccountingTheorem == Spec => []ActiveAccounting
<1>1. ProxyInv => ActiveAccounting
  BY DEF ProxyInv
<1> QED
  BY <1>1, ProxyInvariant, PTL

(***************************************************************************)
(* A request that falls back passes over no upstream, and has attempted    *)
(* one at least before it gives up (proxy.rs:177-203).                     *)
(***************************************************************************)
THEOREM FallbackTheorem == Spec => []FallbackTriesAll
<1>1. ProxyInv => FallbackTriesAll
  BY DEF ProxyInv, FallbackInv, FallbackTriesAll
<1> QED
  BY <1>1, ProxyInvariant, PTL
=============================================================================
