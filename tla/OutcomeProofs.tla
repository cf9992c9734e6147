--------------------------- MODULE OutcomeProofs ---------------------------
(***************************************************************************)
(* What comes of the requests of Proxy, proved for every number of them    *)
(* and of upstreams: failover works (FailoverTheorem), and the metrics add *)
(* up (AttemptsTheorem, RetriesTheorem).  Both rest on the invariant of    *)
(* ProxyProofs; the metrics also on what SumFunction of FiniteSetsExt      *)
(* computes, by induction on the set it sums over.                         *)
(***************************************************************************)
EXTENDS ProxyProofs, InductionLemmas

-----------------------------------------------------------------------------
(* FailoverInv without its consequence, in parts: the marks, what is known *)
(* of a task, and the permits.                                             *)
Unmarked == \A u \in Reliable : ~Health!Marked(u)

SettleInv(t) == t.pc = "settle" /\ At(t, t.offset) \in Reliable => t.outcome = "ok"

PassInv(t) == NonePassed(t) /\ SettleInv(t)

Permits(t) == t.attempts_made + IF t.pc = "backoff" THEN 1 ELSE 0

LEMMA FailoverParts ==
  FailoverInv <=> /\ Unmarked
                  /\ \A r \in Requests : PassInv(task[r])
                  /\ IsFiniteSet(requests)
                  /\ PermitsOnce
                  /\ ReliableUpstreamServes
BY DEF FailoverInv, ReliableUnmarked, Unmarked, PassInv, SettleInv, index

-----------------------------------------------------------------------------
(* No step but a failure recorded of an unreliable upstream marks one. *)
LEMMA UnmarkedBy ==
  ASSUME SharedTypeOK, Unmarked, NEW v \in Indices,
         \/ v \notin Reliable /\ Health!record_failure(v)
         \/ Health!record_success(v)
         \/ Health!is_healthy(v)
  PROVE  Unmarked'
<1>1. ASSUME NEW u \in Reliable PROVE ~Health!Marked(u)'
  <2>1. u \in Indices /\ ~Health!Marked(u)
    BY ProxyAssumption DEF Indices, Unmarked
  <2>2. health'[u] = health[u] \/ health'[u] = Health!Fresh
    BY <2>1 DEF SharedTypeOK, Health!record_failure, Health!record_success, Health!is_healthy
  <2> QED
    BY <2>1, <2>2 DEF Health!Marked, Health!Fresh, Health!None
<1> QED
  BY <1>1 DEF Unmarked

(* Every step of the system leaves the reliable upstreams unmarked. *)
LEMMA UnmarkedStep ==
  ASSUME SharedTypeOK, TasksInv, Unmarked, \A r \in Requests : PassInv(task[r]), [Next]_vars
  PROVE  Unmarked'
<1> USE DEF budget
<1>1. ASSUME NEW r \in Requests
      PROVE  task[r].cursor \in Indices /\ index(r) \in Indices
  <2>1. task[r] \in Task
    BY DEF TasksInv
  <2>2. task[r].cursor \in Indices /\ task[r].offset \in Nat
    BY <2>1, ProxyAssumption DEF Task
  <2> QED
    BY <2>1, <2>2, AtTyped DEF index
<1>2. ASSUME UNCHANGED health PROVE Unmarked'
  BY <1>2 DEF Unmarked, Health!Marked
<1>3. ASSUME NEW r \in Requests,
             \/ Arrive(r) \/ BodyFails(r) \/ BodyRead(r) \/ RecordRequest(r)
             \/ RetryAllowed(r) \/ RetryDenied(r) \/ StartAttempt(r) \/ Forward(r)
             \/ GiveUp(r) \/ OverallTimeout(r) \/ ClientGone(r)
      PROVE  Unmarked'
  BY <1>2, <1>3
  DEF Arrive, RateLimited, NoRoute, Route, BodyFails, BodyRead, RecordRequest, RetryAllowed,
      RetryDenied, StartAttempt, Forward, forward_once, GiveUp, OverallTimeout, ClientGone
<1>4. ASSUME NEW r \in Requests,
             ScanHealthy(r) \/ ScanUnhealthy(r) \/ Skip(r) \/ Select(r) \/ Succeed(r)
      PROVE  Unmarked'
  BY <1>1, <1>2, <1>4, UnmarkedBy DEF ScanHealthy, ScanUnhealthy, Skip, Select, Succeed
<1>5. ASSUME NEW r \in Requests, AttemptFails(r) PROVE Unmarked'
  <2>1. index(r) \notin Reliable
    BY <1>5 DEF AttemptFails, PassInv, SettleInv, index, Failures
  <2> QED
    BY <1>1, <1>5, <2>1, UnmarkedBy DEF AttemptFails
<1>6. ASSUME NEW u \in HealthChecked, Probe(u) PROVE Unmarked'
  <2>1. u \in Indices
    BY ProxyAssumption DEF Indices
  <2> QED
    BY <1>6, <2>1, UnmarkedBy DEF Probe
<1>7. ASSUME Tick \/ UNCHANGED vars PROVE Unmarked'
  BY <1>2, <1>7 DEF Tick, vars
<1> QED
  BY <1>3, <1>4, <1>5, <1>6, <1>7 DEF Next, Compute

-----------------------------------------------------------------------------
(* A step that changes one task keeps PassInv if the new task has it. *)
LEMMA PassBecomes ==
  ASSUME TasksInv, \A q \in Requests : PassInv(task[q]),
         NEW r \in Requests, NEW t, PassInv(t), Become(r, t)
  PROVE  \A q \in Requests : PassInv(task[q])'
<1>1. ASSUME NEW q \in Requests PROVE PassInv(task'[q])
  BY DEF TasksInv, Become
<1> QED
  BY <1>1 DEF PassInv, NonePassed, SettleInv, Visited, At

(* No reliable upstream is at an offset passed (proxy.rs:187-203). *)
LEMMA PassStep ==
  ASSUME TasksInv, Unmarked, \A r \in Requests : PassInv(task[r]), [Next]_vars
  PROVE  \A r \in Requests : PassInv(task[r])'
<1> DEFINE Goal == \A r \in Requests : PassInv(task[r])'
<1>1. ASSUME NEW r \in Requests
      PROVE  TaskInv(task[r]) /\ task[r] \in Task /\ PassInv(task[r])
  BY DEF TasksInv, TaskInv
<1>2. ASSUME NEW r \in Requests, NEW s, Respond(r, s) PROVE Goal
  <2>1. PassInv([task[r] EXCEPT !.pc = "done", !.status = s])
    BY <1>1 DEF PassInv, NonePassed, SettleInv, Task
  <2> QED
    BY <1>2, <2>1, PassBecomes DEF Respond
<1>3. ASSUME UNCHANGED task PROVE Goal
  BY <1>3 DEF PassInv, NonePassed, SettleInv, Visited, At
(* Before the loop nothing has been passed. *)
<1>4. ASSUME NEW r \in Requests, NEW t \in Task, t.offset = 0, t.pc # "settle", Become(r, t)
      PROVE  Goal
  <2>1. PassInv(t)
    BY <1>4 DEF PassInv, NonePassed, SettleInv, Visited
  <2> QED
    BY <1>4, <2>1, PassBecomes
(* A step on the spot passes nothing. *)
<1>5. ASSUME NEW r \in Requests, NEW t \in Task, Become(r, t),
             t.offset = task[r].offset, t.start_index = task[r].start_index,
             task[r].pc # "done", SettleInv(t)
      PROVE  Goal
  <2>1. NonePassed(t)
    BY <1>1, <1>5 DEF PassInv, NonePassed, Visited, At
  <2> QED
    BY <1>5, <2>1, PassBecomes DEF PassInv
(* A step to the next offset passes an upstream that is not reliable. *)
<1>6. ASSUME NEW r \in Requests, NEW t \in Task, Become(r, t), t.pc # "settle",
             t.offset = task[r].offset + 1, t.start_index = task[r].start_index,
             task[r].pc # "done", index(r) \notin Reliable
      PROVE  Goal
  <2> DEFINE k == task[r].offset
  <2>1. k \in Nat
    BY <1>1, ProxyAssumption DEF Task
  <2>2. 0 .. (k + 1) - 1 = (0 .. k - 1) \cup {k}
    BY <2>1
  <2>3. Visited(t, t.offset) = Visited(task[r], k) \cup {index(r)}
    BY <1>6, <2>2 DEF Visited, At, index
  <2>4. PassInv(t)
    BY <1>1, <1>6, <2>3 DEF PassInv, NonePassed, SettleInv
  <2> QED
    BY <1>6, <2>4, PassBecomes
<1>7. ASSUME NEW r \in Requests,
             \/ RateLimited(r) \/ NoRoute(r) \/ BodyFails(r) \/ Succeed(r) \/ GiveUp(r)
             \/ OverallTimeout(r) \/ ClientGone(r)
      PROVE  Goal
  BY <1>2, <1>7
  DEF RateLimited, NoRoute, BodyFails, Succeed, GiveUp, OverallTimeout, ClientGone
<1>8. ASSUME NEW r \in Requests, Route(r) PROVE Goal
  <2> DEFINE t == [task[r] EXCEPT !.pc = "body"]
  <2>1. t \in Task /\ t.offset = 0 /\ t.pc = "body" /\ Become(r, t)
    BY <1>1, <1>8 DEF Route, Task, PC, Awaits, TaskInv, LoopInv
  <2> HIDE DEF t
  <2> QED
    BY <1>4, <2>1
<1>9. ASSUME NEW r \in Requests, BodyRead(r) PROVE Goal
  <2>1. PICK i \in Indices : Become(r, [task[r] EXCEPT !.pc = "scan", !.start_index = i])
    BY <1>9 DEF BodyRead
  <2> DEFINE t == [task[r] EXCEPT !.pc = "scan", !.start_index = i]
  <2>2. t \in Task /\ t.offset = 0 /\ t.pc = "scan" /\ Become(r, t)
    BY <1>1, <1>9, <2>1 DEF BodyRead, Task, PC, TaskInv, LoopInv
  <2> HIDE DEF t
  <2> QED
    BY <1>4, <2>2
<1>10. ASSUME NEW r \in Requests, ScanHealthy(r) \/ ScanUnhealthy(r) PROVE Goal
  <2>1. \E t \in Task : t.offset = 0 /\ t.pc # "settle" /\ Become(r, t)
    <3>1. task[r].offset = 0 /\ task[r].pc = "scan"
      BY <1>1, <1>10 DEF ScanHealthy, ScanUnhealthy, TaskInv, LoopInv
    <3>2. CASE Become(r, [task[r] EXCEPT !.pc = "record", !.any_healthy = TRUE])
      BY <1>1, <3>1, <3>2 DEF Task, PC
    <3>3. CASE Become(r, [task[r] EXCEPT !.pc = "record"])
      BY <1>1, <3>1, <3>3 DEF Task, PC
    <3>4. CASE task[r].cursor # N - 1 /\ Become(r, [task[r] EXCEPT !.cursor = @ + 1])
      BY <1>1, <3>1, <3>4, ProxyAssumption DEF Task, Indices
    <3> QED
      BY <1>10, <3>2, <3>3, <3>4 DEF ScanHealthy, ScanUnhealthy
  <2> QED
    BY <1>4, <2>1
<1>11. ASSUME NEW r \in Requests, RecordRequest(r) \/ Select(r) \/ RetryAllowed(r) \/ RetryDenied(r)
       PROVE  Goal
  <2>1. PICK pc \in {"select", "start", "permit", "backoff", "give_up"} :
          Become(r, [task[r] EXCEPT !.pc = pc])
    BY <1>11 DEF RecordRequest, Select, RetryAllowed, RetryDenied
  <2> DEFINE t == [task[r] EXCEPT !.pc = pc]
  <2>2. /\ t \in Task /\ Become(r, t)
        /\ t.offset = task[r].offset /\ t.start_index = task[r].start_index /\ t.pc # "settle"
    BY <1>1, <2>1 DEF Task, PC, Awaits
  <2>3. task[r].pc # "done"
    BY <1>11 DEF RecordRequest, Select, RetryAllowed, RetryDenied
  <2> HIDE DEF t
  <2> QED
    BY <1>5, <2>2, <2>3 DEF SettleInv
<1>12. ASSUME NEW r \in Requests, StartAttempt(r) PROVE Goal
  <2> DEFINE t == [task[r] EXCEPT !.pc = "forward", !.attempts_made = @ + 1,
                                  !.held = index(r), !.tried = @ \cup {index(r)}]
  <2>1. TaskInv(t)
    BY <1>1, <1>12, StartKeeps DEF StartAttempt, index
  <2>2. /\ Become(r, t) /\ t.pc = "forward"
        /\ t.offset = task[r].offset /\ t.start_index = task[r].start_index
    BY <1>1, <1>12 DEF StartAttempt, Task
  <2>3. task[r].pc # "done"
    BY <1>12 DEF StartAttempt
  <2> HIDE DEF t
  <2> QED
    BY <1>5, <2>1, <2>2, <2>3 DEF SettleInv, TaskInv
<1>13. ASSUME NEW r \in Requests, Forward(r) PROVE Goal
  <2>0. PICK o \in Outcomes : forward_once(r, o)
    BY <1>13 DEF Forward
  <2> DEFINE t == [task[r] EXCEPT !.pc = "settle", !.outcome = o, !.held = N]
  <2>1. t \in Task
    BY <1>1 DEF Task, PC
  <2>2. /\ Become(r, t) /\ t.pc = "settle" /\ t.outcome = o
        /\ t.offset = task[r].offset /\ t.start_index = task[r].start_index
    BY <1>1, <2>0 DEF forward_once, Task
  <2>3. SettleInv(t)
    BY <2>0, <2>2 DEF forward_once, SettleInv, index, At
  <2>4. task[r].pc # "done"
    BY <2>0 DEF forward_once
  <2> HIDE DEF t
  <2> QED
    BY <1>5, <2>1, <2>2, <2>3, <2>4
<1>14. ASSUME NEW r \in Requests, Skip(r) PROVE Goal
  <2> DEFINE t == [task[r] EXCEPT !.pc = LoopHead(r, task[r].offset + 1), !.offset = @ + 1]
  <2>1. /\ t \in Task /\ Become(r, t) /\ t.pc # "settle"
        /\ t.offset = task[r].offset + 1 /\ t.start_index = task[r].start_index
    <3>1. task[r].offset + 1 \in 0 .. N
      BY <1>1, <1>14, ProxyAssumption DEF Skip, Task, TaskInv, LoopInv
    <3>2. LoopHead(r, task[r].offset + 1) \in {"select", "give_up"}
      BY DEF LoopHead
    <3> QED
      BY <1>1, <1>14, <3>1, <3>2 DEF Skip, Task, PC
  <2>2. index(r) \notin Reliable /\ task[r].pc # "done"
    BY <1>14 DEF Skip, Unmarked, Health!Healthy
  <2> HIDE DEF t
  <2> QED
    BY <1>6, <2>1, <2>2
<1>15. ASSUME NEW r \in Requests, AttemptFails(r) PROVE Goal
  <2> DEFINE e == IF task[r].outcome = "timeout" THEN "UpstreamTimeout" ELSE "UpstreamFailure"
             t == [task[r] EXCEPT !.pc = LoopHead(r, task[r].offset + 1), !.offset = @ + 1,
                                  !.outcome = "ok", !.last_error = e]
  <2>1. /\ t \in Task /\ Become(r, t) /\ t.pc # "settle"
        /\ t.offset = task[r].offset + 1 /\ t.start_index = task[r].start_index
    <3>1. task[r].offset + 1 \in 0 .. N
      BY <1>1, <1>15, ProxyAssumption DEF AttemptFails, Task, TaskInv, LoopInv
    <3>2. LoopHead(r, task[r].offset + 1) \in {"select", "give_up"}
      BY DEF LoopHead
    <3> QED
      BY <1>1, <1>15, <3>1, <3>2 DEF AttemptFails, Task, PC, Outcomes
  <2>2. index(r) \notin Reliable /\ task[r].pc # "done"
    BY <1>1, <1>15 DEF AttemptFails, PassInv, SettleInv, index, Failures
  <2> HIDE DEF t
  <2> QED
    BY <1>6, <2>1, <2>2
<1>16. ASSUME NEW u \in HealthChecked, Probe(u) PROVE Goal
  BY <1>3, <1>16 DEF Probe
<1>17. ASSUME Tick \/ UNCHANGED vars PROVE Goal
  BY <1>3, <1>17 DEF Tick, vars
<1> QED
  BY <1>7, <1>8, <1>9, <1>10, <1>11, <1>12, <1>13, <1>14, <1>15, <1>16, <1>17
  DEF Next, Compute, Arrive

-----------------------------------------------------------------------------
(* A task that is not over never has fewer permits than before, so that    *)
(* the permits kept in the budget stay those of attempts made or allowed.  *)
LEMMA PermitsKept ==
  ASSUME TasksInv, SharedTypeOK, PermitsOnce, retries' \subseteq retries,
         NEW r \in Requests, NEW t \in Task, Become(r, t),
         t.pc = "done" \/ (task[r].pc # "done" /\ Permits(t) >= Permits(task[r]))
  PROVE  PermitsOnce'
<1> SUFFICES ASSUME NEW e \in retries'
             PROVE  /\ e.by[2] \in 1 .. N - 1
                    /\ task'[e.by[1]].pc # "done" => e.by[2] < Permits(task'[e.by[1]])
                    /\ \A f \in retries' : f.by = e.by => f = e
  BY DEF PermitsOnce, Permits
<1>1. e \in retries /\ e.by[1] \in Requests
  BY DEF SharedTypeOK, Budget!Entry, Callers
<1>2. /\ e.by[2] \in 1 .. N - 1
      /\ task[e.by[1]].pc # "done" => e.by[2] < Permits(task[e.by[1]])
      /\ \A f \in retries : f.by = e.by => f = e
  BY <1>1 DEF PermitsOnce, Permits
<1>3. task[r] \in Task /\ Permits(t) \in Nat /\ Permits(task[r]) \in Nat
  BY DEF TasksInv, Task, Permits
<1>4. task'[e.by[1]] = IF e.by[1] = r THEN t ELSE task[e.by[1]]
  BY <1>1 DEF TasksInv, Become
<1>5. task'[e.by[1]].pc # "done" => e.by[2] < Permits(task'[e.by[1]])
  <2>1. CASE e.by[1] = r
    BY <1>2, <1>3, <1>4, <2>1, ProxyAssumption
  <2>2. CASE e.by[1] # r
    BY <1>2, <1>4, <2>2
  <2> QED
    BY <2>1, <2>2
<1> QED
  BY <1>2, <1>5

(* A permit is recorded under a number that none has yet (proxy.rs:207). *)
LEMMA PermitAdded ==
  ASSUME TasksInv, SharedTypeOK, PermitsOnce, NEW r \in Requests, RetryAllowed(r)
  PROVE  PermitsOnce'
<1> DEFINE a == task[r].attempts_made
           t == [task[r] EXCEPT !.pc = "backoff"]
           new == [by |-> <<r, a>>, at |-> now]
<1>1. /\ task[r] \in Task /\ task[r].pc = "permit"
      /\ a \in 1 .. N - 1 /\ Permits(task[r]) = a
  BY ProxyAssumption DEF RetryAllowed, TasksInv, TaskInv, LoopInv, PermitInv, Permits, Task
<1>2. t \in Task /\ t.pc = "backoff" /\ Permits(t) = a + 1 /\ Become(r, t)
  BY <1>1 DEF RetryAllowed, Task, PC, Awaits, Permits
<1>3. retries' \subseteq retries \cup {new}
  BY DEF RetryAllowed, Budget!allow_retry, Budget!retain
<1>4. ASSUME NEW e \in retries
      PROVE  /\ e.by[1] \in Requests /\ e.by[2] \in 1 .. N - 1
             /\ task[e.by[1]].pc # "done" => e.by[2] < Permits(task[e.by[1]])
             /\ \A f \in retries : f.by = e.by => f = e
  BY DEF PermitsOnce, Permits, SharedTypeOK, Budget!Entry, Callers
<1>5. ASSUME NEW e \in retries PROVE e.by # <<r, a>>
  BY <1>1, <1>4, ProxyAssumption
<1>6. ASSUME NEW q \in Requests PROVE task'[q] = IF q = r THEN t ELSE task[q]
  BY <1>2 DEF TasksInv, Become
<1> HIDE DEF t, a
<1>7. ASSUME NEW e \in retries'
      PROVE  /\ e.by[2] \in 1 .. N - 1
             /\ task'[e.by[1]].pc # "done" => e.by[2] < Permits(task'[e.by[1]])
             /\ \A f \in retries' : f.by = e.by => f = e
  <2>1. CASE e = new
    <3>1. e.by[1] = r /\ e.by[2] = a
      BY <2>1
    <3>2. \A f \in retries' : f.by = e.by => f = e
      BY <1>3, <1>5, <2>1
    <3> QED
      BY <1>1, <1>2, <1>6, <3>1, <3>2, ProxyAssumption
  <2>2. CASE e \in retries
    <3>1. task'[e.by[1]].pc # "done" => e.by[2] < Permits(task'[e.by[1]])
      <4>1. CASE e.by[1] = r
        BY <1>1, <1>2, <1>4, <1>6, <2>2, <4>1, ProxyAssumption
      <4>2. CASE e.by[1] # r
        BY <1>4, <1>6, <2>2, <4>2
      <4> QED
        BY <4>1, <4>2
    <3>2. \A f \in retries' : f.by = e.by => f = e
      BY <1>3, <1>4, <1>5, <2>2
    <3> QED
      BY <1>4, <2>2, <3>1, <3>2
  <2> QED
    BY <1>3, <2>1, <2>2
<1> QED
  BY <1>7 DEF PermitsOnce, Permits

(***************************************************************************)
(* The steps between two accesses to shared state change neither what a    *)
(* task has attempted nor what it holds, and neither begin nor end a       *)
(* sleep, an attempt or the task.                                          *)
(***************************************************************************)
Quiet(r) == \/ Route(r) \/ BodyRead(r) \/ ScanHealthy(r) \/ ScanUnhealthy(r)
            \/ RecordRequest(r) \/ Skip(r) \/ Select(r) \/ RetryDenied(r)

LEMMA QuietStep ==
  ASSUME TasksInv, NEW r \in Requests, Quiet(r)
  PROVE  /\ UNCHANGED metrics
         /\ \E t \in Task :
              /\ Become(r, t)
              /\ t.attempts_made = task[r].attempts_made
              /\ t.held = task[r].held /\ t.status = task[r].status
              /\ task[r].pc \notin {"backoff", "forward", "settle", "done"}
              /\ t.pc \notin {"backoff", "forward", "settle", "done"}
<1>1. TaskInv(task[r]) /\ task[r] \in Task
  BY DEF TasksInv, TaskInv
<1>2. UNCHANGED metrics /\ task[r].pc \notin {"backoff", "forward", "settle", "done"}
  BY DEF Quiet, Route, BodyRead, ScanHealthy, ScanUnhealthy, RecordRequest, Skip, Select,
         RetryDenied
<1> DEFINE Goal == \E t \in Task :
              /\ Become(r, t)
              /\ t.attempts_made = task[r].attempts_made
              /\ t.held = task[r].held /\ t.status = task[r].status
              /\ task[r].pc \notin {"backoff", "forward", "settle", "done"}
              /\ t.pc \notin {"backoff", "forward", "settle", "done"}
<1>3. ASSUME NEW pc \in {"body", "record", "select", "start", "permit", "give_up"},
             Become(r, [task[r] EXCEPT !.pc = pc])
      PROVE  Goal
  BY <1>1, <1>2, <1>3 DEF Task, PC, Awaits
<1>4. CASE Route(r) \/ RecordRequest(r) \/ Select(r) \/ RetryDenied(r)
  BY <1>3, <1>4 DEF Route, RecordRequest, Select, RetryDenied
<1>5. CASE BodyRead(r)
  <2>1. PICK i \in Indices : Become(r, [task[r] EXCEPT !.pc = "scan", !.start_index = i])
    BY <1>5 DEF BodyRead
  <2> DEFINE t == [task[r] EXCEPT !.pc = "scan", !.start_index = i]
  <2>2. /\ t \in Task /\ t.attempts_made = task[r].attempts_made /\ t.pc = "scan"
        /\ t.held = task[r].held /\ t.status = task[r].status
    BY <1>1 DEF Task, PC
  <2> HIDE DEF t
  <2> QED
    BY <1>2, <2>1, <2>2 DEF t
<1>6. CASE ScanHealthy(r)
  <2> DEFINE t == [task[r] EXCEPT !.pc = "record", !.any_healthy = TRUE]
  <2>1. /\ t \in Task /\ t.attempts_made = task[r].attempts_made /\ t.pc = "record"
        /\ t.held = task[r].held /\ t.status = task[r].status
    BY <1>1 DEF Task, PC
  <2>2. Become(r, t)
    BY <1>6 DEF ScanHealthy
  <2> HIDE DEF t
  <2> QED
    BY <1>2, <2>1, <2>2
<1>7. CASE ScanUnhealthy(r)
  <2>1. CASE task[r].cursor = N - 1
    BY <1>3, <1>7, <2>1 DEF ScanUnhealthy
  <2>2. CASE task[r].cursor # N - 1
    BY <1>1, <1>2, <1>7, <2>2, ProxyAssumption DEF ScanUnhealthy, Task, Indices
  <2> QED
    BY <2>1, <2>2
<1>8. CASE Skip(r)
  <2>1. task[r].offset + 1 \in 0 .. N
    BY <1>1, <1>8, ProxyAssumption DEF Skip, Task, TaskInv, LoopInv
  <2>2. LoopHead(r, task[r].offset + 1) \in {"select", "give_up"}
    BY DEF LoopHead
  <2> DEFINE t == [task[r] EXCEPT !.pc = LoopHead(r, task[r].offset + 1), !.offset = @ + 1]
  <2>3. /\ t \in Task /\ t.attempts_made = task[r].attempts_made
        /\ t.pc = LoopHead(r, task[r].offset + 1)
        /\ t.held = task[r].held /\ t.status = task[r].status
    BY <1>1, <2>1, <2>2 DEF Task, PC
  <2>4. Become(r, t)
    BY <1>8 DEF Skip
  <2> HIDE DEF t
  <2> QED
    BY <1>2, <2>2, <2>3, <2>4
<1> QED
  BY <1>2, <1>4, <1>5, <1>6, <1>7, <1>8 DEF Quiet

(* Every step keeps the budget's permits apart, and its lists finite. *)
LEMMA PermitsStep ==
  ASSUME TasksInv, SharedTypeOK, PermitsOnce, IsFiniteSet(requests), [Next]_vars
  PROVE  PermitsOnce' /\ IsFiniteSet(requests)'
<1> USE DEF budget
<1>1. ASSUME NEW r \in Requests PROVE TaskInv(task[r]) /\ task[r] \in Task
  BY DEF TasksInv, TaskInv
<1>2. ASSUME UNCHANGED <<budget, task>> PROVE PermitsOnce' /\ IsFiniteSet(requests)'
  BY <1>2 DEF PermitsOnce
<1>3. ASSUME NEW r \in Requests, NEW s \in Statuses, Respond(r, s), UNCHANGED budget
      PROVE  PermitsOnce' /\ IsFiniteSet(requests)'
  <2> DEFINE t == [task[r] EXCEPT !.pc = "done", !.status = s]
  <2>1. t \in Task /\ t.pc = "done" /\ Become(r, t)
    BY <1>1, <1>3 DEF Respond, Task, PC
  <2> HIDE DEF t
  <2> QED
    BY <1>3, <2>1, PermitsKept
<1>4. ASSUME NEW r \in Requests, retries' \subseteq retries, NEW t \in Task, Become(r, t),
             task[r].pc \notin {"done", "backoff"}, t.attempts_made = task[r].attempts_made
      PROVE  PermitsOnce'
  <2>1. Permits(t) >= Permits(task[r])
    BY <1>1, <1>4 DEF Permits, Task
  <2> QED
    BY <1>4, <2>1, PermitsKept
<1>5. ASSUME NEW r \in Requests,
             \/ RateLimited(r) \/ NoRoute(r) \/ BodyFails(r) \/ Succeed(r) \/ GiveUp(r)
             \/ OverallTimeout(r) \/ ClientGone(r)
      PROVE  PermitsOnce' /\ IsFiniteSet(requests)'
  BY <1>3, <1>5
  DEF RateLimited, NoRoute, BodyFails, Succeed, GiveUp, OverallTimeout, ClientGone, Statuses
<1>6. ASSUME NEW r \in Requests, Quiet(r) PROVE PermitsOnce' /\ IsFiniteSet(requests)'
  <2>1. PICK t \in Task : /\ Become(r, t) /\ t.attempts_made = task[r].attempts_made
                          /\ task[r].pc \notin {"done", "backoff"}
    BY <1>6, QuietStep
  <2>2. CASE RecordRequest(r)
    <3>1. UNCHANGED retries /\ requests' = requests \cup {[by |-> <<r, 0>>, at |-> now]}
      BY <2>2 DEF RecordRequest, Budget!record_request
    <3> QED
      BY <1>4, <2>1, <3>1, FS_AddElement
  <2>3. CASE RetryDenied(r)
    <3>1. requests' \subseteq requests /\ retries' \subseteq retries
      BY <2>3 DEF RetryDenied, Budget!allow_retry, Budget!Allowed, Budget!retain
    <3> QED
      BY <1>4, <2>1, <3>1, FS_Subset
  <2>4. CASE UNCHANGED budget
    BY <1>4, <2>1, <2>4
  <2> QED
    BY <1>6, <2>2, <2>3, <2>4
    DEF Quiet, Route, BodyRead, ScanHealthy, ScanUnhealthy, Skip, Select
<1>7. ASSUME NEW r \in Requests, Forward(r) \/ AttemptFails(r)
      PROVE  PermitsOnce' /\ IsFiniteSet(requests)'
  <2>1. CASE AttemptFails(r)
    <3>1. task[r].offset + 1 \in 0 .. N
      BY <1>1, <2>1, ProxyAssumption DEF AttemptFails, Task, TaskInv, LoopInv
    <3>2. LoopHead(r, task[r].offset + 1) \in {"select", "give_up"}
      BY DEF LoopHead
    <3> DEFINE e == IF task[r].outcome = "timeout" THEN "UpstreamTimeout" ELSE "UpstreamFailure"
               t == [task[r] EXCEPT !.pc = LoopHead(r, task[r].offset + 1), !.offset = @ + 1,
                                    !.outcome = "ok", !.last_error = e]
    <3>3. t \in Task /\ t.attempts_made = task[r].attempts_made
      BY <1>1, <3>1, <3>2 DEF Task, PC, Outcomes
    <3>4. Become(r, t)
      BY <2>1 DEF AttemptFails
    <3> HIDE DEF t
    <3> QED
      BY <1>4, <2>1, <3>3, <3>4 DEF AttemptFails
  <2>2. CASE Forward(r)
    <3>1. PICK o \in Outcomes : forward_once(r, o)
      BY <2>2 DEF Forward
    <3> DEFINE t == [task[r] EXCEPT !.pc = "settle", !.outcome = o, !.held = N]
    <3>2. t \in Task /\ t.attempts_made = task[r].attempts_made
      BY <1>1 DEF Task, PC
    <3>3. Become(r, t)
      BY <3>1 DEF forward_once
    <3> HIDE DEF t
    <3> QED
      BY <1>4, <3>1, <3>2, <3>3 DEF forward_once
  <2> QED
    BY <1>7, <2>1, <2>2
<1>8. ASSUME NEW r \in Requests, RetryAllowed(r) PROVE PermitsOnce' /\ IsFiniteSet(requests)'
  <2>1. requests' \subseteq requests
    BY <1>8 DEF RetryAllowed, Budget!allow_retry, Budget!retain
  <2> QED
    BY <1>8, <2>1, FS_Subset, PermitAdded
<1>9. ASSUME NEW r \in Requests, StartAttempt(r) PROVE PermitsOnce' /\ IsFiniteSet(requests)'
  <2> DEFINE t == [task[r] EXCEPT !.pc = "forward", !.attempts_made = @ + 1,
                                  !.held = index(r), !.tried = @ \cup {index(r)}]
  <2>1. TaskInv(t)
    BY <1>1, <1>9, StartKeeps DEF StartAttempt, index
  <2>2. Become(r, t) /\ task[r].pc # "done" /\ Permits(t) >= Permits(task[r])
    BY <1>1, <1>9 DEF StartAttempt, Permits, Task
  <2>3. UNCHANGED budget
    BY <1>9 DEF StartAttempt
  <2> HIDE DEF t
  <2> QED
    BY <2>1, <2>2, <2>3, PermitsKept DEF TaskInv
<1>10. ASSUME NEW u \in HealthChecked, Probe(u) PROVE PermitsOnce' /\ IsFiniteSet(requests)'
  BY <1>2, <1>10 DEF Probe
<1>11. ASSUME Tick \/ UNCHANGED vars PROVE PermitsOnce' /\ IsFiniteSet(requests)'
  BY <1>2, <1>11 DEF Tick, vars
<1> QED
  BY <1>5, <1>6, <1>7, <1>8, <1>9, <1>10, <1>11 DEF Next, Compute, Arrive, Quiet

-----------------------------------------------------------------------------
(* Arithmetic of the budget's share. *)
LEMMA AmpleShare ==
  ASSUME NEW n \in Nat, NEW c \in Nat, NEW p \in Nat, NEW total \in Nat,
         n >= 1, c >= 1, total >= 1, p >= 100 * n * c
  PROVE  (total * p + 99) \div 100 > c * (n - 1)
<1> DEFINE m == n * c
           x == total * p
<1>1. m \in Nat /\ x \in Nat /\ 100 * n * c = 100 * m /\ c * (n - 1) = m - c
  OBVIOUS
<1>2. x >= p
  <2>1. total - 1 \in Nat
    OBVIOUS
  <2>2. (total - 1) * p \in Nat
    BY <2>1
  <2>3. x = (total - 1) * p + p
    OBVIOUS
  <2> QED
    BY <1>1, <2>2, <2>3
<1>3. x >= 100 * m
  BY <1>1, <1>2
<1> HIDE DEF m, x
<1>4. (x + 99) \div 100 >= m
  BY <1>1, <1>3
<1> QED
  BY <1>1, <1>4 DEF x

(* The Cardinality that the budget's module takes from FiniteSets is ours. *)
LEMMA BudgetCardinality ==
  ASSUME NEW S PROVE Budget!Cardinality(S) = Cardinality(S)
BY DEF Budget!Cardinality, Cardinality

(***************************************************************************)
(* A budget of 100 * N percent for each request never refuses a retry: the *)
(* retries it holds are apart, N - 1 at most for each request.             *)
(***************************************************************************)
LEMMA AllowedWhenAmple ==
  ASSUME SharedTypeOK, PermitsOnce, IsFiniteSet(requests), AmpleBudget, NEW r \in Requests
  PROVE  Budget!Allowed
<1> DEFINE K == Budget!retain(retries)
           P == Requests \X (1 .. N - 1)
           f == [e \in K |-> e.by]
<1>1. K \subseteq retries
  BY DEF Budget!retain
<1>2. ASSUME NEW e \in K
      PROVE  e.by \in P /\ \A g \in K : g.by = e.by => g = e
  <2>1. e.by \in Callers
    BY <1>1 DEF SharedTypeOK, Budget!Entry
  <2>2. e.by[2] \in 1 .. N - 1 /\ \A g \in retries : g.by = e.by => g = e
    BY <1>1 DEF PermitsOnce
  <2> QED
    BY <1>1, <2>1, <2>2 DEF Callers
<1> HIDE DEF K, P
<1>3. f \in Injection(K, P)
  BY <1>2 DEF Injection, IsInjective
<1>4. IsFiniteSet(P) /\ Cardinality(P) = Cardinality(Requests) * (N - 1)
  <2>1. IsFiniteSet(1 .. N - 1) /\ Cardinality(1 .. N - 1) = N - 1
    BY FS_Interval, ProxyAssumption
  <2> QED
    BY <2>1, FS_Product, ProxyAssumption DEF P
<1>5. Cardinality(K) <= Cardinality(P) /\ Cardinality(K) \in Nat
  BY <1>3, <1>4, FS_Injection, FS_CardinalityType
<1>6. Budget!Total \in Nat
  <2>1. Budget!retain(requests) \subseteq requests
    BY DEF Budget!retain
  <2> QED
    BY <2>1, FS_Subset, FS_CardinalityType, BudgetCardinality DEF Budget!Total
<1>7. Cardinality(Requests) \in Nat /\ Cardinality(Requests) >= 1
  BY ProxyAssumption, FS_CardinalityType, FS_EmptySet
<1>8. CASE Budget!Total = 0
  BY <1>8 DEF Budget!Allowed, Budget!WindowEmpty
<1>9. CASE Budget!Total # 0
  <2>1. Budget!RetryShare(Budget!Total) > Cardinality(Requests) * (N - 1)
    BY <1>6, <1>7, <1>9, AmpleShare, ProxyAssumption DEF Budget!RetryShare, AmpleBudget
  <2>2. Cardinality(Requests) * (N - 1) \in Nat /\ Budget!RetryShare(Budget!Total) \in Int
    <3>1. N - 1 \in Nat
      BY ProxyAssumption
    <3>2. Budget!Total * budget_percent + 99 \in Int
      BY <1>6, ProxyAssumption
    <3> QED
      BY <1>7, <3>1, <3>2 DEF Budget!RetryShare
  <2>3. Cardinality(K) < Budget!RetryShare(Budget!Total)
    BY <1>4, <1>5, <2>1, <2>2
  <2> QED
    BY <2>3, BudgetCardinality DEF Budget!Allowed, Budget!WithinBudget, K
<1> QED
  BY <1>8, <1>9

(* Around the whole pool every upstream is passed (proxy.rs:192). *)
LEMMA AroundThePool ==
  ASSUME NEW t \in Task, t.offset = N
  PROVE  Visited(t, t.offset) = Indices
<1> DEFINE s == t.start_index
<1>1. N \in Nat \ {0} /\ s \in 0 .. N - 1
  BY ProxyAssumption DEF Task, Indices
<1>2. ASSUME NEW u \in Indices PROVE \E k \in 0 .. N - 1 : At(t, k) = u
  <2> DEFINE k == IF u >= s THEN u - s ELSE u - s + N
  <2>1. k \in 0 .. N - 1
    BY <1>1 DEF Indices
  <2>2. (s + k) % N = IF s + k < N THEN s + k ELSE s + k - N
    BY <1>1, <2>1, ModSum
  <2>3. (s + k) % N = u
    BY <1>1, <2>1, <2>2 DEF Indices
  <2> QED
    BY <2>1, <2>3 DEF At
<1>3. \A k \in 0 .. N - 1 : At(t, k) \in Indices
  BY AtTyped, ProxyAssumption
<1> QED
  BY <1>2, <1>3 DEF Visited

(***************************************************************************)
(* Nobody begins to give up.  A task gives up at the end of the pool, at   *)
(* the end of its attempts, which comes no earlier, or for want of budget. *)
(***************************************************************************)
LEMMA ServesStep ==
  ASSUME SharedTypeOK, TasksInv, [Next]_vars, PermitsOnce, IsFiniteSet(requests),
         \A r \in Requests : PassInv(task[r])', TasksInv', ReliableUpstreamServes
  PROVE  ReliableUpstreamServes'
<1> SUFFICES ASSUME Reliable # {}, MaxAttempts >= N, AmpleBudget,
                    NEW q \in Requests, task'[q].pc = "give_up"
             PROVE  FALSE
  BY DEF ReliableUpstreamServes, AmpleBudget, MaxAttempts
<1>1. task[q].pc # "give_up" /\ task[q] \in Task /\ LoopInv(task[q])
  BY DEF ReliableUpstreamServes, TasksInv, TaskInv
<1>2. task'[q] \in Task /\ task'[q].offset # N
  <2>1. task'[q] \in Task /\ NonePassed(task'[q])
    BY DEF TasksInv, PassInv, NonePassed, Visited, At
  <2>2. Visited(task'[q], task'[q].offset) \cap Reliable = {}
    BY <2>1 DEF NonePassed
  <2> QED
    BY <2>1, <2>2, AroundThePool, ProxyAssumption DEF Indices
<1>3. task'[q] # task[q]
  BY <1>1
<1>4. ASSUME NEW r \in Requests, NEW t, t.pc # "give_up", Become(r, t) PROVE FALSE
  <2>1. task'[q] = IF q = r THEN t ELSE task[q]
    BY <1>4 DEF Become, TasksInv
  <2> QED
    BY <1>3, <1>4, <2>1
<1>5. ASSUME UNCHANGED task PROVE FALSE
  BY <1>3, <1>5
<1>6. ASSUME NEW r \in Requests, NEW s, Respond(r, s) PROVE FALSE
  <2>1. [task[r] EXCEPT !.pc = "done", !.status = s].pc # "give_up"
    BY DEF TasksInv, Task
  <2> QED
    BY <1>4, <1>6, <2>1 DEF Respond
<1>7. ASSUME NEW r \in Requests, NEW pc, pc # "give_up", Become(r, [task[r] EXCEPT !.pc = pc])
      PROVE  FALSE
  <2>1. [task[r] EXCEPT !.pc = pc].pc # "give_up"
    BY <1>7 DEF TasksInv, Task
  <2> QED
    BY <1>4, <1>7, <2>1
(* The next offset: the pool is at its end if the attempts are. *)
<1>8. ASSUME NEW r \in Requests, NEW t, Become(r, t),
             task[r].pc \in {"select", "settle"},
             t.offset = task[r].offset + 1, t.pc = LoopHead(r, task[r].offset + 1)
      PROVE  FALSE
  <2>1. q = r /\ task'[q] = t
    BY <1>3, <1>8 DEF Become, TasksInv
  <2>2. /\ task[q].offset \in 0 .. N - 1
        /\ task[q].attempts_made \in Nat /\ task[q].attempts_made <= task[q].offset + 1
    BY <1>1, <1>8, <2>1, ProxyAssumption DEF Task, LoopInv
  <2>3. ~(task[q].offset + 1 < N /\ task[q].attempts_made < MaxAttempts)
    BY <1>8, <2>1 DEF LoopHead
  <2>4. task[q].offset + 1 = N
    BY <2>2, <2>3, ProxyAssumption DEF MaxAttempts
  <2> QED
    BY <1>2, <1>8, <2>1, <2>4
<1>9. ASSUME NEW r \in Requests,
             \/ RateLimited(r) \/ NoRoute(r) \/ BodyFails(r) \/ Succeed(r) \/ GiveUp(r)
             \/ OverallTimeout(r) \/ ClientGone(r)
      PROVE  FALSE
  BY <1>6, <1>9
  DEF RateLimited, NoRoute, BodyFails, Succeed, GiveUp, OverallTimeout, ClientGone
<1>10. ASSUME NEW r \in Requests, Route(r) \/ RecordRequest(r) \/ RetryAllowed(r) \/ Select(r)
       PROVE  FALSE
  BY <1>7, <1>10 DEF Route, RecordRequest, RetryAllowed, Select
<1>11. ASSUME NEW r \in Requests, RetryDenied(r) PROVE FALSE
  BY <1>11, AllowedWhenAmple DEF RetryDenied
<1>12. ASSUME NEW r \in Requests, BodyRead(r) \/ ScanHealthy(r) \/ ScanUnhealthy(r) PROVE FALSE
  <2>1. task[r] \in Task
    BY DEF TasksInv
  <2>2. CASE BodyRead(r)
    <3>1. PICK i \in Indices : Become(r, [task[r] EXCEPT !.pc = "scan", !.start_index = i])
      BY <2>2 DEF BodyRead
    <3>2. [task[r] EXCEPT !.pc = "scan", !.start_index = i].pc # "give_up"
      BY <2>1 DEF Task
    <3> QED
      BY <1>4, <3>1, <3>2
  <2>3. CASE ScanHealthy(r)
    <3>1. [task[r] EXCEPT !.pc = "record", !.any_healthy = TRUE].pc # "give_up"
      BY <2>1 DEF Task
    <3> QED
      BY <1>4, <2>3, <3>1 DEF ScanHealthy
  <2>4. CASE ScanUnhealthy(r)
    <3>1. task[r].pc = "scan" => [task[r] EXCEPT !.cursor = @ + 1].pc # "give_up"
      BY <2>1 DEF Task
    <3> QED
      BY <1>4, <1>7, <2>4, <3>1 DEF ScanUnhealthy
  <2> QED
    BY <1>12, <2>2, <2>3, <2>4
<1>13. ASSUME NEW r \in Requests, StartAttempt(r) PROVE FALSE
  <2> DEFINE t == [task[r] EXCEPT !.pc = "forward", !.attempts_made = @ + 1,
                                  !.held = index(r), !.tried = @ \cup {index(r)}]
  <2>1. t.pc # "give_up" /\ Become(r, t)
    BY <1>13 DEF StartAttempt, TasksInv, Task
  <2> HIDE DEF t
  <2> QED
    BY <1>4, <2>1
<1>14. ASSUME NEW r \in Requests, Forward(r) PROVE FALSE
  <2>1. PICK o \in Outcomes : forward_once(r, o)
    BY <1>14 DEF Forward
  <2> DEFINE t == [task[r] EXCEPT !.pc = "settle", !.outcome = o, !.held = N]
  <2>2. t.pc # "give_up" /\ Become(r, t)
    BY <2>1 DEF forward_once, TasksInv, Task
  <2> HIDE DEF t
  <2> QED
    BY <1>4, <2>2
<1>15. ASSUME NEW r \in Requests, Skip(r) PROVE FALSE
  <2> DEFINE t == [task[r] EXCEPT !.pc = LoopHead(r, task[r].offset + 1), !.offset = @ + 1]
  <2>1. /\ Become(r, t) /\ t.offset = task[r].offset + 1
        /\ t.pc = LoopHead(r, task[r].offset + 1) /\ task[r].pc = "select"
    BY <1>15 DEF Skip, TasksInv, Task
  <2> HIDE DEF t
  <2> QED
    BY <1>8, <2>1
<1>16. ASSUME NEW r \in Requests, AttemptFails(r) PROVE FALSE
  <2> DEFINE e == IF task[r].outcome = "timeout" THEN "UpstreamTimeout" ELSE "UpstreamFailure"
             t == [task[r] EXCEPT !.pc = LoopHead(r, task[r].offset + 1), !.offset = @ + 1,
                                  !.outcome = "ok", !.last_error = e]
  <2>1. /\ Become(r, t) /\ t.offset = task[r].offset + 1
        /\ t.pc = LoopHead(r, task[r].offset + 1) /\ task[r].pc = "settle"
    BY <1>16 DEF AttemptFails, TasksInv, Task
  <2> HIDE DEF t
  <2> QED
    BY <1>8, <2>1
<1>17. ASSUME (\E u \in HealthChecked : Probe(u)) \/ Tick \/ UNCHANGED vars PROVE FALSE
  BY <1>5, <1>17 DEF Probe, Tick, vars
<1> QED
  BY <1>9, <1>10, <1>11, <1>12, <1>13, <1>14, <1>15, <1>16, <1>17 DEF Next, Compute, Arrive

-----------------------------------------------------------------------------
(***************************************************************************)
(* The failover invariant, relative to ProxyInv, is inductive: it says     *)
(* that an upstream that answers well is never marked nor passed over, and *)
(* that the budget never holds two permits for one attempt.                *)
(***************************************************************************)
THEOREM FailoverInvariant == Spec => []FailoverInv
<1>1. Init => FailoverInv
  <2> SUFFICES ASSUME Init PROVE FailoverInv
    OBVIOUS
  <2>1. \A r \in Requests : task[r] = NewTask
    BY DEF Init
  <2>2. \A r \in Requests : PassInv(task[r]) /\ task[r].pc # "give_up"
    BY <2>1, ProxyAssumption DEF NewTask, PassInv, NonePassed, SettleInv, Visited
  <2>3. Unmarked
    BY ProxyAssumption DEF Init, Health!Init, Health!Fresh, Health!None, Unmarked, Health!Marked,
                           Indices
  <2>4. IsFiniteSet(requests) /\ PermitsOnce
    BY FS_EmptySet DEF Init, PermitsOnce
  <2> QED
    BY <2>2, <2>3, <2>4, FailoverParts DEF ReliableUpstreamServes
<1>2. ProxyInv /\ ProxyInv' /\ FailoverInv /\ [Next]_vars => FailoverInv'
  <2> SUFFICES ASSUME ProxyInv, ProxyInv', FailoverInv, [Next]_vars PROVE FailoverInv'
    OBVIOUS
  <2>1. SharedTypeOK /\ TasksInv /\ TasksInv'
    <3>1. SharedTypeOK /\ TasksInv
      BY ProxyInvParts
    <3> QED
      BY <3>1, TasksStep
  <2>2. Unmarked /\ (\A r \in Requests : PassInv(task[r])) /\ IsFiniteSet(requests) /\ PermitsOnce
        /\ ReliableUpstreamServes
    BY FailoverParts
  <2>3. Unmarked'
    BY <2>1, <2>2, UnmarkedStep
  <2>4. \A r \in Requests : PassInv(task[r])'
    BY <2>1, <2>2, PassStep
  <2>5. PermitsOnce' /\ IsFiniteSet(requests)'
    BY <2>1, <2>2, PermitsStep
  <2>6. ReliableUpstreamServes'
    BY <2>1, <2>2, <2>4, ServesStep
  <2> QED
    BY <2>3, <2>4, <2>5, <2>6
    DEF FailoverInv, ReliableUnmarked, Unmarked, PassInv, SettleInv, index, At, Health!Marked
<1> QED
  BY <1>1, <1>2, ProxyInvariant, PTL DEF Spec

(***************************************************************************)
(* proxy.rs:187 - where one upstream always answers well, the retries      *)
(* reach around the pool and the budget is ample, no request gives up.     *)
(***************************************************************************)
THEOREM FailoverTheorem == Spec => []ReliableUpstreamServes
<1>1. FailoverInv => ReliableUpstreamServes
  BY DEF FailoverInv
<1> QED
  BY <1>1, FailoverInvariant, PTL

-----------------------------------------------------------------------------
(* A set that gains or loses one element of S grows or shrinks by one. *)
Bump(b) == IF b THEN 1 ELSE 0

LEMMA CountDelta ==
  ASSUME NEW S, IsFiniteSet(S), NEW A \in SUBSET S, NEW B \in SUBSET S, NEW r \in S,
         \A q \in S : q # r => (q \in A <=> q \in B)
  PROVE  /\ Cardinality(A) \in Nat
         /\ Cardinality(B) = Cardinality(A) + Bump(r \in B) - Bump(r \in A)
<1>1. IsFiniteSet(A) /\ Cardinality(A) \in Nat
  BY FS_Subset, FS_CardinalityType
<1>2. CASE (r \in A) = (r \in B)
  <2>1. A = B
    BY <1>2
  <2> QED
    BY <1>1, <1>2, <2>1 DEF Bump
<1>3. CASE r \in A /\ r \notin B
  <2>1. B = A \ {r}
    BY <1>3
  <2>2. Cardinality(B) = Cardinality(A) - 1
    BY <1>1, <1>3, <2>1, FS_RemoveElement
  <2> QED
    BY <1>1, <1>3, <2>2 DEF Bump
<1>4. CASE r \notin A /\ r \in B
  <2>1. B = A \cup {r}
    BY <1>4
  <2>2. Cardinality(B) = Cardinality(A) + 1
    BY <1>1, <1>4, <2>1, FS_AddElement
  <2> QED
    BY <1>1, <1>4, <2>2 DEF Bump
<1> QED
  BY <1>2, <1>3, <1>4

(* What one task adds to the two counts of proxy_retries_total. *)
AsleepOrCut(t) == t.pc = "backoff" \/ t.status \in {"504", "dropped"}

(***************************************************************************)
(* A step that changes one task changes the sums and the counts that the   *)
(* metrics are compared with by what it changes of that task.              *)
(***************************************************************************)
LEMMA TotalsStep ==
  ASSUME TasksInv, NEW r \in Requests, NEW t \in Task, Become(r, t)
  PROVE  /\ Attempts \in Int /\ RetriesMade \in Int
         /\ Cardinality(Holding) \in Nat /\ Cardinality(Settling) \in Nat
         /\ Cardinality(Sleeping) \in Nat /\ Cardinality(Sleeping \cup CutShort) \in Nat
         /\ Attempts' = Attempts + t.attempts_made - task[r].attempts_made
         /\ RetriesMade' = RetriesMade + RetriesOf(t) - RetriesOf(task[r])
         /\ Cardinality(Holding)' =
              Cardinality(Holding) + Bump(t.held # N) - Bump(task[r].held # N)
         /\ Cardinality(Settling)' =
              Cardinality(Settling) + Bump(t.pc = "settle") - Bump(task[r].pc = "settle")
         /\ Cardinality(Sleeping)' =
              Cardinality(Sleeping) + Bump(t.pc = "backoff") - Bump(task[r].pc = "backoff")
         /\ Cardinality(Sleeping \cup CutShort)' =
              Cardinality(Sleeping \cup CutShort) + Bump(AsleepOrCut(t)) - Bump(AsleepOrCut(task[r]))
<1>1. IsFiniteSet(Requests) /\ \A q \in Requests : task[q] \in Task
  BY ProxyAssumption DEF TasksInv
<1>2. task'[r] = t /\ \A q \in Requests : q # r => task'[q] = task[q]
  BY DEF Become, TasksInv
<1>3. \A q \in Requests : task'[q] \in Task
  BY <1>1, <1>2
<1>4. Attempts \in Int /\ Attempts' = Attempts + t.attempts_made - task[r].attempts_made
  <2> DEFINE F == [q \in Requests |-> task[q].attempts_made]
             E == [q \in Requests |-> task'[q].attempts_made]
  <2>1. F \in [Requests -> Int] /\ E \in [Requests -> Int]
    BY <1>1, <1>3 DEF Task
  <2>2. /\ \A q \in Requests : q # r => E[q] = F[q]
        /\ E[r] = t.attempts_made /\ F[r] = task[r].attempts_made
    BY <1>2
  <2>3. Attempts = SumFunction(F) /\ Attempts' = SumFunction(E)
    BY DEF Attempts
  <2> HIDE DEF E, F
  <2> QED
    BY <1>1, <2>1, <2>2, <2>3, SumDelta
<1>5. RetriesMade \in Int /\ RetriesMade' = RetriesMade + RetriesOf(t) - RetriesOf(task[r])
  <2> DEFINE F == [q \in Requests |-> RetriesOf(task[q])]
             E == [q \in Requests |-> RetriesOf(task'[q])]
  <2>1. F \in [Requests -> Int] /\ E \in [Requests -> Int]
    BY <1>1, <1>3 DEF Task, RetriesOf
  <2>2. /\ \A q \in Requests : q # r => E[q] = F[q]
        /\ E[r] = RetriesOf(t) /\ F[r] = RetriesOf(task[r])
    BY <1>2
  <2>3. RetriesMade = SumFunction(F) /\ RetriesMade' = SumFunction(E)
    BY DEF RetriesMade, RetriesOf
  <2> HIDE DEF E, F
  <2> QED
    BY <1>1, <2>1, <2>2, <2>3, SumDelta
<1>6. /\ Cardinality(Holding) \in Nat
      /\ Cardinality(Holding') = Cardinality(Holding) + Bump(t.held # N) - Bump(task[r].held # N)
  <2>1. Holding \in SUBSET Requests /\ Holding' \in SUBSET Requests
    BY DEF Holding
  <2>2. /\ \A q \in Requests : q # r => (q \in Holding <=> q \in Holding')
        /\ (r \in Holding) = (task[r].held # N) /\ (r \in Holding') = (t.held # N)
    BY <1>2 DEF Holding
  <2> QED
    BY <1>1, <2>1, <2>2, CountDelta
<1>7. /\ Cardinality(Settling) \in Nat
      /\ Cardinality(Settling') =
           Cardinality(Settling) + Bump(t.pc = "settle") - Bump(task[r].pc = "settle")
  <2>1. Settling \in SUBSET Requests /\ Settling' \in SUBSET Requests
    BY DEF Settling
  <2>2. /\ \A q \in Requests : q # r => (q \in Settling <=> q \in Settling')
        /\ (r \in Settling) = (task[r].pc = "settle") /\ (r \in Settling') = (t.pc = "settle")
    BY <1>2 DEF Settling
  <2> QED
    BY <1>1, <2>1, <2>2, CountDelta
<1>8. /\ Cardinality(Sleeping) \in Nat
      /\ Cardinality(Sleeping') =
           Cardinality(Sleeping) + Bump(t.pc = "backoff") - Bump(task[r].pc = "backoff")
  <2>1. Sleeping \in SUBSET Requests /\ Sleeping' \in SUBSET Requests
    BY DEF Sleeping
  <2>2. /\ \A q \in Requests : q # r => (q \in Sleeping <=> q \in Sleeping')
        /\ (r \in Sleeping) = (task[r].pc = "backoff") /\ (r \in Sleeping') = (t.pc = "backoff")
    BY <1>2 DEF Sleeping
  <2> QED
    BY <1>1, <2>1, <2>2, CountDelta
<1>9. /\ Cardinality(Sleeping \cup CutShort) \in Nat
      /\ Cardinality(Sleeping' \cup CutShort') =
           Cardinality(Sleeping \cup CutShort) + Bump(AsleepOrCut(t)) - Bump(AsleepOrCut(task[r]))
  <2> DEFINE A == Sleeping \cup CutShort
             B == Sleeping' \cup CutShort'
  <2>1. A \in SUBSET Requests /\ B \in SUBSET Requests
    BY DEF Sleeping, CutShort
  <2>2. /\ \A q \in Requests : q # r => (q \in A <=> q \in B)
        /\ (r \in A) = AsleepOrCut(task[r]) /\ (r \in B) = AsleepOrCut(t)
    BY <1>2 DEF Sleeping, CutShort, AsleepOrCut
  <2> HIDE DEF A, B
  <2>3. /\ Cardinality(A) \in Nat
        /\ Cardinality(B) = Cardinality(A) + Bump(AsleepOrCut(t)) - Bump(AsleepOrCut(task[r]))
    BY <1>1, <2>1, <2>2, CountDelta
  <2> QED
    BY <2>3 DEF A, B
<1> QED
  BY <1>4, <1>5, <1>6, <1>7, <1>8, <1>9

(* The metrics keep up with such a step if they change by as much. *)
LEMMA Counted ==
  ASSUME SharedTypeOK, TasksInv, EveryAttemptCounted, RetriesCounted, Errors \in Int,
         NEW r \in Requests, NEW t \in Task, Become(r, t),
         NEW d \in Int, NEW m \in Int,
         Errors' + metrics'.requests_total["ok"] = Errors + metrics.requests_total["ok"] + d,
         metrics'.retries_total = metrics.retries_total + m,
         d = t.attempts_made - task[r].attempts_made
               + Bump(task[r].held # N) - Bump(t.held # N)
               + Bump(task[r].pc = "settle") - Bump(t.pc = "settle"),
         RetriesOf(t) + Bump(t.pc = "backoff")
           <= RetriesOf(task[r]) + Bump(task[r].pc = "backoff") + m,
         RetriesOf(task[r]) + Bump(AsleepOrCut(task[r])) + m
           <= RetriesOf(t) + Bump(AsleepOrCut(t))
  PROVE  EveryAttemptCounted' /\ RetriesCounted'
<1>1. /\ task[r] \in Task /\ t.attempts_made \in Nat /\ task[r].attempts_made \in Nat
      /\ RetriesOf(t) \in Nat /\ RetriesOf(task[r]) \in Nat
  BY DEF TasksInv, Task, RetriesOf
<1>2. metrics.requests_total["ok"] \in Nat /\ metrics.retries_total \in Nat
  BY DEF SharedTypeOK, Metrics
<1>3. \A b : Bump(b) \in {0, 1}
  BY DEF Bump
<1>4. EveryAttemptCounted'
  BY <1>1, <1>2, <1>3, TotalsStep DEF EveryAttemptCounted
<1>5. RetriesCounted'
  <2>1. RetriesMade' + Cardinality(Sleeping)' <= metrics'.retries_total
    BY <1>1, <1>2, <1>3, TotalsStep DEF RetriesCounted
  <2>2. metrics'.retries_total <= RetriesMade' + Cardinality(Sleeping \cup CutShort)'
    <3> DEFINE c == Cardinality(Sleeping \cup CutShort)
               x == Bump(AsleepOrCut(t))
               y == Bump(AsleepOrCut(task[r]))
    <3>0. x \in Nat /\ y \in Nat
      BY DEF Bump
    <3>1. /\ RetriesMade \in Int /\ c \in Nat
          /\ RetriesMade' = RetriesMade + RetriesOf(t) - RetriesOf(task[r])
          /\ c' = c + x - y
          /\ metrics.retries_total <= RetriesMade + c
      <4>1. c' = c + x - y
        BY TotalsStep
      <4> QED
        BY <4>1, TotalsStep DEF RetriesCounted
    <3> HIDE DEF c, x, y
    <3>2. RetriesOf(task[r]) + y + m <= RetriesOf(t) + x
      BY DEF x, y
    <3>3. metrics'.retries_total <= RetriesMade' + c'
      BY <1>1, <1>2, <3>0, <3>1, <3>2
    <3> QED
      BY <3>3 DEF c
  <2> QED
    BY <2>1, <2>2 DEF RetriesCounted
<1> QED
  BY <1>4, <1>5

(* The types of errors are finitely many. *)
LEMMA FailuresFinite == IsFiniteSet(Failures)
<1>1. IsFiniteSet(({"5xx"} \cup {"timeout"}) \cup {"connection"})
  BY FS_Singleton, FS_AddElement
<1>2. Failures = ({"5xx"} \cup {"timeout"}) \cup {"connection"}
  BY DEF Failures
<1> QED
  BY <1>1, <1>2

(* One error more under one of its types is one error more. *)
LEMMA ErrorsStep ==
  ASSUME SharedTypeOK
  PROVE  /\ Errors \in Int
         /\ \A o \in Failures :
              metrics' = [metrics EXCEPT !.errors_total[o] = @ + 1] => Errors' = Errors + 1
<1> DEFINE F == metrics.errors_total
<1>1. F \in [Failures -> Int] /\ metrics \in Metrics /\ F \in [Failures -> Nat]
  BY DEF SharedTypeOK, Metrics
<1>2. Errors \in Int
  <2>1. "5xx" \in Failures
    BY DEF Failures
  <2> QED
    BY FailuresFinite, <1>1, <2>1, SumDelta DEF Errors
<1>3. ASSUME NEW o \in Failures, metrics' = [metrics EXCEPT !.errors_total[o] = @ + 1]
      PROVE  Errors' = Errors + 1
  <2> DEFINE E == [F EXCEPT ![o] = @ + 1]
  <2>1. E = metrics'.errors_total
    BY <1>1, <1>3 DEF Metrics
  <2>2. E \in [Failures -> Int] /\ E[o] = F[o] + 1 /\ F[o] \in Int
        /\ \A x \in Failures : x # o => E[x] = F[x]
    BY <1>1
  <2>3. Errors = SumFunction(F) /\ Errors' = SumFunction(E)
    BY <2>1 DEF Errors
  <2> HIDE DEF E, F
  <2> QED
    BY FailuresFinite, <1>1, <2>2, <2>3, SumDelta
<1> QED
  BY <1>2, <1>3

(* Every step of the system, one action after the other. *)
LEMMA CountsStep ==
  ASSUME SharedTypeOK, TasksInv, EveryAttemptCounted, RetriesCounted, [Next]_vars
  PROVE  EveryAttemptCounted' /\ RetriesCounted'
<1> DEFINE Goal == EveryAttemptCounted' /\ RetriesCounted'
           served == metrics.requests_total["ok"]
<1>1. ASSUME NEW r \in Requests
      PROVE  TaskInv(task[r]) /\ task[r] \in Task /\ task[r].attempts_made \in Nat
  BY DEF TasksInv, TaskInv, Task
<1>2. /\ metrics \in Metrics /\ Errors \in Int
      /\ served \in Nat /\ metrics.retries_total \in Nat
  BY ErrorsStep DEF SharedTypeOK, Metrics
<1>3. ASSUME UNCHANGED metrics
      PROVE  Errors' + served' = Errors + served + 0
             /\ metrics'.retries_total = metrics.retries_total + 0
  <2>1. Errors' = Errors
    BY <1>3 DEF Errors
  <2> QED
    BY <1>2, <1>3, <2>1
<1>4. ASSUME UNCHANGED <<metrics, task>> PROVE Goal
  BY <1>4 DEF EveryAttemptCounted, RetriesCounted, Attempts, Errors, Holding, Settling,
              RetriesMade, Sleeping, CutShort
<1>5. ASSUME NEW r \in Requests, Quiet(r) PROVE Goal
  <2>1. PICK t \in Task :
          /\ Become(r, t)
          /\ t.attempts_made = task[r].attempts_made
          /\ t.held = task[r].held /\ t.status = task[r].status
          /\ task[r].pc \notin {"backoff", "forward", "settle", "done"}
          /\ t.pc \notin {"backoff", "forward", "settle", "done"}
    BY <1>5, QuietStep
  <2>2. /\ RetriesOf(t) = RetriesOf(task[r]) /\ RetriesOf(t) \in Nat
        /\ Bump(t.held # N) = Bump(task[r].held # N) /\ Bump(t.held # N) \in Nat
        /\ Bump(t.pc = "settle") = 0 /\ Bump(task[r].pc = "settle") = 0
        /\ Bump(t.pc = "backoff") = 0 /\ Bump(task[r].pc = "backoff") = 0
        /\ Bump(AsleepOrCut(t)) = Bump(AsleepOrCut(task[r])) /\ Bump(AsleepOrCut(t)) \in Nat
    BY <1>1, <2>1 DEF RetriesOf, Bump, AsleepOrCut
  <2>3. UNCHANGED metrics
    BY <1>5, QuietStep
  <2> QED
    BY <1>1, <1>2, <1>3, <2>1, <2>2, <2>3, Counted
(* The task ends, where no attempt is being settled; only a 504 or a gone *)
(* client may end a sleep.                                                *)
<1>6. ASSUME NEW r \in Requests, NEW s \in Statuses, Respond(r, s),
             task[r].pc \notin {"settle", "done"},
             task[r].pc = "backoff" => s \in {"504", "dropped"},
             Errors' = Errors, served' = served,
             metrics'.retries_total = metrics.retries_total
      PROVE  Goal
  <2> DEFINE t == [task[r] EXCEPT !.pc = "done", !.status = s]
  <2>1. /\ t \in Task /\ Become(r, t) /\ t.attempts_made = task[r].attempts_made
        /\ t.held = task[r].held /\ t.pc = "done" /\ t.status = s
    BY <1>1, <1>6 DEF Respond, Task, PC
  <2>2. task[r].status = "pending"
    BY <1>1, <1>6 DEF TaskInv, PermitInv
  <2> HIDE DEF t
  <2>3. /\ RetriesOf(t) = RetriesOf(task[r]) /\ RetriesOf(t) \in Nat
        /\ Bump(t.held # N) = Bump(task[r].held # N) /\ Bump(t.held # N) \in Nat
        /\ Bump(t.pc = "settle") = 0 /\ Bump(task[r].pc = "settle") = 0
        /\ Bump(t.pc = "backoff") = 0 /\ Bump(task[r].pc = "backoff") \in {0, 1}
        /\ Bump(AsleepOrCut(t)) \in {0, 1} /\ Bump(AsleepOrCut(task[r])) \in {0, 1}
        /\ Bump(AsleepOrCut(task[r])) <= Bump(AsleepOrCut(t))
    BY <1>1, <1>6, <2>1, <2>2 DEF RetriesOf, Bump, AsleepOrCut
  <2> QED
    BY <1>1, <1>2, <1>6, <2>1, <2>3, Counted
<1>7. ASSUME NEW r \in Requests,
             RateLimited(r) \/ BodyFails(r) \/ OverallTimeout(r) \/ ClientGone(r)
      PROVE  Goal
  <2>1. UNCHANGED metrics
    BY <1>7 DEF RateLimited, BodyFails, OverallTimeout, ClientGone
  <2>2. Errors' = Errors /\ served' = served
    BY <2>1 DEF Errors
  <2> QED
    BY <1>6, <1>7, <2>1, <2>2
    DEF RateLimited, BodyFails, OverallTimeout, ClientGone, Awaits, Statuses
<1>8. ASSUME NEW r \in Requests, NEW s \in {"404", "502", "504"}, CountRequest(s)
      PROVE  Errors' = Errors /\ served' = served
             /\ metrics'.retries_total = metrics.retries_total
  BY <1>2, <1>8 DEF CountRequest, Metrics, Errors
<1>9. ASSUME NEW r \in Requests, NoRoute(r) \/ GiveUp(r) PROVE Goal
  <2>1. PICK s \in {"404", "502", "504"} : CountRequest(s) /\ Respond(r, s)
    BY <1>9 DEF NoRoute, GiveUp
  <2>2. task[r].pc \in {"new", "give_up"}
    BY <1>9 DEF NoRoute, GiveUp
  <2> QED
    BY <1>6, <1>8, <2>1, <2>2 DEF Statuses
<1>10. ASSUME NEW r \in Requests, RetryAllowed(r) PROVE Goal
  <2> DEFINE t == [task[r] EXCEPT !.pc = "backoff"]
  <2>1. /\ t \in Task /\ Become(r, t) /\ t.attempts_made = task[r].attempts_made
        /\ t.held = task[r].held /\ t.pc = "backoff" /\ task[r].pc = "permit"
    BY <1>1, <1>10 DEF RetryAllowed, Task, PC, Awaits
  <2>2. task[r].status = "pending"
    BY <1>1, <2>1 DEF TaskInv, PermitInv
  <2>3. /\ metrics'.retries_total = metrics.retries_total + 1
        /\ Errors' = Errors /\ served' = served
    BY <1>2, <1>10 DEF RetryAllowed, Metrics, Errors
  <2> HIDE DEF t
  <2>4. /\ RetriesOf(t) = RetriesOf(task[r]) /\ RetriesOf(t) \in Nat
        /\ Bump(t.held # N) = Bump(task[r].held # N) /\ Bump(t.held # N) \in Nat
        /\ Bump(t.pc = "settle") = 0 /\ Bump(task[r].pc = "settle") = 0
        /\ Bump(t.pc = "backoff") = 1 /\ Bump(task[r].pc = "backoff") = 0
        /\ Bump(AsleepOrCut(t)) = 1 /\ Bump(AsleepOrCut(task[r])) = 0
    BY <1>1, <2>1, <2>2 DEF RetriesOf, Bump, AsleepOrCut
  <2>5. Errors' + served' = Errors + served + 0
    BY <1>2, <2>3
  <2> QED
    BY <1>1, <1>2, <2>1, <2>3, <2>4, <2>5, Counted
<1>11. ASSUME NEW r \in Requests, StartAttempt(r) PROVE Goal
  <2> DEFINE t == [task[r] EXCEPT !.pc = "forward", !.attempts_made = @ + 1,
                                  !.held = index(r), !.tried = @ \cup {index(r)}]
  <2>1. TaskInv(t)
    BY <1>1, <1>11, StartKeeps DEF StartAttempt, index
  <2>2. /\ Become(r, t) /\ t.attempts_made = task[r].attempts_made + 1 /\ t.held = index(r)
        /\ t.pc = "forward" /\ t.status = task[r].status /\ task[r].pc \in {"start", "backoff"}
    BY <1>1, <1>11 DEF StartAttempt, Task
  <2> HIDE DEF t
  <2>3. index(r) # N
    <3>1. task[r].offset \in Nat
      BY <1>1, ProxyAssumption DEF Task
    <3> QED
      BY <1>1, <3>1, AtTyped, ProxyAssumption DEF index, Indices
  <2>4. /\ task[r].status = "pending" /\ task[r].held = N
        /\ task[r].pc = "start" => task[r].attempts_made = 0
        /\ task[r].pc = "backoff" => task[r].attempts_made >= 1
    BY <1>1, <2>2 DEF TaskInv, PermitInv, HeldInv
  <2>5. UNCHANGED metrics
    BY <1>11 DEF StartAttempt
  <2>6. /\ RetriesOf(t) = task[r].attempts_made
        /\ RetriesOf(task[r]) + Bump(task[r].pc = "backoff") = task[r].attempts_made
        /\ RetriesOf(task[r]) \in Nat /\ Bump(task[r].pc = "backoff") \in Nat
        /\ Bump(t.held # N) = 1 /\ Bump(task[r].held # N) = 0
        /\ Bump(t.pc = "settle") = 0 /\ Bump(task[r].pc = "settle") = 0
        /\ Bump(t.pc = "backoff") = 0
        /\ Bump(AsleepOrCut(t)) = 0
        /\ Bump(AsleepOrCut(task[r])) = Bump(task[r].pc = "backoff")
    BY <1>1, <2>2, <2>3, <2>4 DEF RetriesOf, Bump, AsleepOrCut
  <2>7. /\ 0 = t.attempts_made - task[r].attempts_made
                 + Bump(task[r].held # N) - Bump(t.held # N)
                 + Bump(task[r].pc = "settle") - Bump(t.pc = "settle")
        /\ RetriesOf(t) + Bump(t.pc = "backoff")
             <= RetriesOf(task[r]) + Bump(task[r].pc = "backoff") + 0
        /\ RetriesOf(task[r]) + Bump(AsleepOrCut(task[r])) + 0
             <= RetriesOf(t) + Bump(AsleepOrCut(t))
    BY <1>1, <2>2, <2>6
  <2>8. t \in Task
    BY <2>1 DEF TaskInv
  <2> QED
    BY <1>2, <1>3, <2>2, <2>5, <2>7, <2>8, Counted
<1>12. ASSUME NEW r \in Requests, Forward(r) PROVE Goal
  <2>0. PICK o \in Outcomes : forward_once(r, o)
    BY <1>12 DEF Forward
  <2> DEFINE t == [task[r] EXCEPT !.pc = "settle", !.outcome = o, !.held = N]
  <2>1. /\ t \in Task /\ Become(r, t) /\ t.attempts_made = task[r].attempts_made
        /\ t.held = N /\ t.pc = "settle" /\ t.status = task[r].status /\ task[r].pc = "forward"
    BY <1>1, <2>0 DEF forward_once, Task, PC
  <2> HIDE DEF t
  <2>2. task[r].held # N
    <3>1. task[r].offset \in Nat
      BY <1>1, ProxyAssumption DEF Task
    <3>2. task[r].held = At(task[r], task[r].offset)
      BY <1>1, <2>1 DEF TaskInv, HeldInv
    <3> QED
      BY <1>1, <3>1, <3>2, AtTyped, ProxyAssumption DEF Indices
  <2>3. UNCHANGED metrics
    BY <2>0 DEF forward_once
  <2>4. /\ RetriesOf(t) = RetriesOf(task[r]) /\ RetriesOf(t) \in Nat
        /\ Bump(t.held # N) = 0 /\ Bump(task[r].held # N) = 1
        /\ Bump(t.pc = "settle") = 1 /\ Bump(task[r].pc = "settle") = 0
        /\ Bump(t.pc = "backoff") = 0 /\ Bump(task[r].pc = "backoff") = 0
        /\ Bump(AsleepOrCut(t)) = Bump(AsleepOrCut(task[r])) /\ Bump(AsleepOrCut(t)) \in Nat
    BY <1>1, <2>1, <2>2 DEF RetriesOf, Bump, AsleepOrCut
  <2> QED
    BY <1>1, <1>2, <1>3, <2>1, <2>3, <2>4, Counted
(* A settled attempt is counted, as a success or as an error. *)
<1>13. ASSUME NEW r \in Requests, NEW t \in Task, Become(r, t), task[r].pc = "settle",
              t.pc \notin {"settle", "backoff"}, t.attempts_made = task[r].attempts_made,
              t.held = task[r].held, t.status \in {"ok", task[r].status},
              Errors' + served' = Errors + served + 1,
              metrics'.retries_total = metrics.retries_total
       PROVE  Goal
  <2>1. task[r].status = "pending"
    BY <1>1, <1>13 DEF TaskInv, PermitInv
  <2>2. /\ RetriesOf(t) = RetriesOf(task[r]) /\ RetriesOf(t) \in Nat
        /\ Bump(t.held # N) = Bump(task[r].held # N) /\ Bump(t.held # N) \in Nat
        /\ Bump(t.pc = "settle") = 0 /\ Bump(task[r].pc = "settle") = 1
        /\ Bump(t.pc = "backoff") = 0 /\ Bump(task[r].pc = "backoff") = 0
        /\ Bump(AsleepOrCut(t)) = 0 /\ Bump(AsleepOrCut(task[r])) = 0
    BY <1>1, <1>13, <2>1 DEF RetriesOf, Bump, AsleepOrCut
  <2>3. metrics'.retries_total = metrics.retries_total + 0
    BY <1>2, <1>13
  <2> QED
    BY <1>1, <1>2, <1>13, <2>2, <2>3, Counted
<1>14. ASSUME NEW r \in Requests, Succeed(r) PROVE Goal
  <2> DEFINE t == [task[r] EXCEPT !.pc = "done", !.status = "ok"]
  <2>1. /\ t \in Task /\ Become(r, t) /\ t.attempts_made = task[r].attempts_made
        /\ t.held = task[r].held /\ t.pc = "done" /\ t.status = "ok" /\ task[r].pc = "settle"
    BY <1>1, <1>14 DEF Succeed, Respond, Task, PC, Statuses
  <2>2. /\ Errors' = Errors /\ served' = served + 1
        /\ metrics'.retries_total = metrics.retries_total
    BY <1>2, <1>14 DEF Succeed, CountRequest, Metrics, Errors
  <2>3. Errors' + served' = Errors + served + 1
    BY <1>2, <2>2
  <2> HIDE DEF t
  <2> QED
    BY <1>13, <2>1, <2>2, <2>3
<1>15. ASSUME NEW r \in Requests, AttemptFails(r) PROVE Goal
  <2> DEFINE e == IF task[r].outcome = "timeout" THEN "UpstreamTimeout" ELSE "UpstreamFailure"
             t == [task[r] EXCEPT !.pc = LoopHead(r, task[r].offset + 1), !.offset = @ + 1,
                                  !.outcome = "ok", !.last_error = e]
  <2>1. task[r].offset + 1 \in 0 .. N /\ task[r].pc = "settle"
    BY <1>1, <1>15, ProxyAssumption DEF AttemptFails, Task, TaskInv, LoopInv
  <2>2. LoopHead(r, task[r].offset + 1) \in {"select", "give_up"}
    BY DEF LoopHead
  <2>3. /\ t \in Task /\ t.attempts_made = task[r].attempts_made /\ t.held = task[r].held
        /\ t.pc = LoopHead(r, task[r].offset + 1) /\ t.status = task[r].status
    BY <1>1, <2>1, <2>2 DEF Task, PC, Outcomes
  <2>4. Become(r, t)
    BY <1>15 DEF AttemptFails
  <2>5. Errors' = Errors + 1
    BY <1>15, ErrorsStep DEF AttemptFails
  <2>6. served' = served /\ metrics'.retries_total = metrics.retries_total
    BY <1>2, <1>15 DEF AttemptFails, Metrics
  <2>7. Errors' + served' = Errors + served + 1
    BY <1>2, <2>5, <2>6
  <2> HIDE DEF t
  <2> QED
    BY <1>13, <2>1, <2>2, <2>3, <2>4, <2>6, <2>7
<1>16. ASSUME (\E u \in HealthChecked : Probe(u)) \/ Tick \/ UNCHANGED vars PROVE Goal
  BY <1>4, <1>16 DEF Probe, Tick, vars
<1> QED
  BY <1>5, <1>7, <1>9, <1>10, <1>11, <1>12, <1>14, <1>15, <1>16
  DEF Next, Compute, Arrive, Quiet

(***************************************************************************)
(* proxy.rs:215, 273 - the two counts of the metrics, together.            *)
(***************************************************************************)
LEMMA CountsHold == Spec => [](EveryAttemptCounted /\ RetriesCounted)
<1>1. Init => EveryAttemptCounted /\ RetriesCounted
  <2> SUFFICES ASSUME Init PROVE EveryAttemptCounted /\ RetriesCounted
    OBVIOUS
  <2>1. \A r \in Requests : task[r] = NewTask
    BY DEF Init
  <2>2. /\ [r \in Requests |-> task[r].attempts_made] = [r \in Requests |-> 0]
        /\ [r \in Requests |-> RetriesOf(task[r])] = [r \in Requests |-> 0]
    BY <2>1 DEF NewTask, RetriesOf
  <2>3. Attempts = 0 /\ RetriesMade = 0
    BY <2>2, SumZero, ProxyAssumption DEF Attempts, RetriesMade
  <2>4. Holding = {} /\ Settling = {} /\ Sleeping = {} /\ CutShort = {}
    BY <2>1 DEF NewTask, Holding, Settling, Sleeping, CutShort
  <2>5. Errors = 0
    BY FailuresFinite, SumZero DEF Init, Errors
  <2>6. metrics.requests_total["ok"] = 0 /\ metrics.retries_total = 0
    BY DEF Init
  <2>7. Cardinality({}) = 0 /\ Sleeping \cup CutShort = {}
    BY <2>4, FS_EmptySet
  <2> QED
    BY <2>3, <2>4, <2>5, <2>6, <2>7 DEF EveryAttemptCounted, RetriesCounted
<1>2. ProxyInv /\ EveryAttemptCounted /\ RetriesCounted /\ [Next]_vars
        => EveryAttemptCounted' /\ RetriesCounted'
  BY ProxyInvParts, CountsStep
<1> QED
  BY <1>1, <1>2, ProxyInvariant, PTL DEF Spec

(* proxy.rs:273 - every attempt that came back is in exactly one counter. *)
THEOREM AttemptsTheorem == Spec => []EveryAttemptCounted
BY CountsHold, PTL

(* proxy.rs:215 - proxy_retries_total against the retries really made. *)
THEOREM RetriesTheorem == Spec => []RetriesCounted
BY CountsHold, PTL
=============================================================================
