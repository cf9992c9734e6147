--------------------------- MODULE HealthTracker ---------------------------
(***************************************************************************)
(* The passive health tracker, src/src/health.rs: a mutex around a map     *)
(* from upstream to UpstreamHealth, three operations, and the clock they   *)
(* read.  Every operation holds the mutex from its first line to its last, *)
(* so each is one atomic step.                                             *)
(*                                                                         *)
(* The operators record_failure, record_success and is_healthy constrain   *)
(* only `state': Proxy conjoins them with its own steps, and HealthHistory *)
(* is the tracker alone, called by anybody in any order.                   *)
(***************************************************************************)
EXTENDS Integers

CONSTANTS
  Upstreams,          \* the keys of the map
  failure_threshold,  \* HealthTracker.failure_threshold
  cooldown,           \* HealthTracker.cooldown, in ticks of the clock
  MaxTime             \* bound: the clock stops here

ASSUME TrackerAssumption ==
  /\ failure_threshold \in Nat
  /\ cooldown \in Nat
  /\ MaxTime \in Nat

VARIABLES
  state,  \* HealthTracker.state
  now     \* what Instant::now() returns

(* Option::None of marked_unhealthy_at; an instant is a natural number. *)
None == -1

UpstreamHealth ==
  [consecutive_failures : 0 .. failure_threshold,
   marked_unhealthy_at  : Nat \cup {None}]

(***************************************************************************)
(* A key absent from the map and a key holding this entry cannot be told   *)
(* apart by any operation, so the map is total and starts out with it.     *)
(***************************************************************************)
Fresh == [consecutive_failures |-> 0, marked_unhealthy_at |-> None]

Init ==
  /\ state = [u \in Upstreams |-> Fresh]
  /\ now = 0

TypeOK ==
  /\ state \in [Upstreams -> UpstreamHealth]
  /\ now \in Nat

-----------------------------------------------------------------------------
(* Mutants of record_failure: marked one failure late; a mark not renewed. *)
record_failure_late(u) ==
  LET failures == state[u].consecutive_failures + 1 IN
  state' = [state EXCEPT ![u] =
              IF failures > failure_threshold
                THEN [consecutive_failures |-> failure_threshold,
                      marked_unhealthy_at  |-> now]
                ELSE [@ EXCEPT !.consecutive_failures = failures]]

record_failure_first_mark(u) ==
  LET failures == state[u].consecutive_failures + 1 IN
  state' = [state EXCEPT ![u] =
              IF failures >= failure_threshold
                THEN [consecutive_failures |-> failure_threshold,
                      marked_unhealthy_at  |->
                        IF @.marked_unhealthy_at = None THEN now ELSE @.marked_unhealthy_at]
                ELSE [@ EXCEPT !.consecutive_failures = failures]]

(* One more consecutive failure; at the threshold the count is capped and  *)
(* the upstream is marked, or marked again, with the current instant.      *)
record_failure(u) ==
  LET failures == state[u].consecutive_failures + 1 IN
  state' = [state EXCEPT ![u] =
              IF failures >= failure_threshold
                THEN [consecutive_failures |-> failure_threshold,
                      marked_unhealthy_at  |-> now]
                ELSE [consecutive_failures |-> failures,
                      marked_unhealthy_at  |-> @.marked_unhealthy_at]]

record_success(u) == state' = [state EXCEPT ![u] = Fresh]

Marked(u) == state[u].marked_unhealthy_at # None

(* Mutant of CooldownExpired: the comparison is strict. *)
CooldownExpired_strict(u) == now - state[u].marked_unhealthy_at > cooldown

(* marked_at.elapsed() >= self.cooldown *)
CooldownExpired(u) == now - state[u].marked_unhealthy_at >= cooldown

(* The value is_healthy returns ... *)
Healthy(u) == Marked(u) => CooldownExpired(u)

(* Mutant of is_healthy: the expired mark goes, the count of failures stays. *)
is_healthy_keeps_count(u) ==
  state' = IF Marked(u) /\ CooldownExpired(u)
             THEN [state EXCEPT ![u].marked_unhealthy_at = None]
             ELSE state

(* ... and what it does: it forgets a mark whose cooldown has expired. *)
is_healthy(u) ==
  state' = IF Marked(u) /\ CooldownExpired(u)
             THEN [state EXCEPT ![u] = Fresh]
             ELSE state

(* Time passes. *)
Tick ==
  /\ now < MaxTime
  /\ now' = now + 1
=============================================================================
