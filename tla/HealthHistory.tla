--------------------------- MODULE HealthHistory ---------------------------
(***************************************************************************)
(* HealthTracker with the history that its promises are about: each        *)
(* upstream's run of failures, how many there were and when the last came. *)
(* The tracker keeps neither: it caps its count, and it forgets lazily,    *)
(* when somebody next asks.                                                *)
(***************************************************************************)
EXTENDS HealthTracker

CONSTANT MaxStreak  \* bound: a longer run of failures counts as this long

ASSUME StreakAssumption == MaxStreak \in Nat /\ MaxStreak > failure_threshold

VARIABLES
  streak,       \* failures since the last success or fresh chance
  last_failure  \* the instant of the latest of them, or None

hvars == <<state, now, streak, last_failure>>

HInit ==
  /\ Init
  /\ streak = [u \in Upstreams |-> 0]
  /\ last_failure = [u \in Upstreams |-> None]

HTypeOK ==
  /\ TypeOK
  /\ streak \in [Upstreams -> Nat]
  /\ last_failure \in [Upstreams -> Nat \cup {None}]

Failure(u) ==
  /\ record_failure(u)
  /\ streak' = [streak EXCEPT ![u] = IF @ < MaxStreak THEN @ + 1 ELSE @]
  /\ last_failure' = [last_failure EXCEPT ![u] = now]
  /\ UNCHANGED now

Success(u) ==
  /\ record_success(u)
  /\ streak' = [streak EXCEPT ![u] = 0]
  /\ last_failure' = [last_failure EXCEPT ![u] = None]
  /\ UNCHANGED now

(* A threshold of 0 marks on the first failure, as a threshold of 1 does. *)
EffectiveThreshold == IF failure_threshold = 0 THEN 1 ELSE failure_threshold

(* By its history u has failed often enough to be out, ... *)
FailedOut(u) == streak[u] >= EffectiveThreshold

(* ... and long enough ago to be given a fresh chance. *)
CooledDown(u) == last_failure[u] # None /\ now - last_failure[u] >= cooldown

(* A caller asks; a fresh chance ends the run. *)
Ask(u) ==
  LET chance == FailedOut(u) /\ CooledDown(u) IN
  /\ is_healthy(u)
  /\ streak' = [streak EXCEPT ![u] = IF chance THEN 0 ELSE @]
  /\ last_failure' = [last_failure EXCEPT ![u] = IF chance THEN None ELSE @]
  /\ UNCHANGED now

HTick == Tick /\ UNCHANGED <<state, streak, last_failure>>

HNext ==
  \/ \E u \in Upstreams : Failure(u) \/ Success(u) \/ Ask(u)
  \/ HTick

HSpec == HInit /\ [][HNext]_hvars

-----------------------------------------------------------------------------
(***************************************************************************)
(* health.rs:34 - the capped counter never loses or invents a failure: an  *)
(* upstream is marked exactly when its run of failures, uninterrupted by a *)
(* success or an expired cooldown, has reached the threshold.              *)
(***************************************************************************)
MarkedExactlyAtThreshold ==
  \A u \in Upstreams : Marked(u) <=> FailedOut(u)

(***************************************************************************)
(* health.rs:58 - an upstream comes back: once `cooldown' has passed since *)
(* its last failure, whoever asks is told that it is healthy, whatever     *)
(* happened before.                                                        *)
(***************************************************************************)
BackAfterCooldown ==
  \A u \in Upstreams : CooledDown(u) => Healthy(u)

(***************************************************************************)
(* health.rs:36 - and not before: an upstream that has failed too often in *)
(* a row is reported unhealthy until `cooldown' has passed since the last  *)
(* of its failures, not the one that marked it; questions do not end it.   *)
(***************************************************************************)
OutUntilCooldown ==
  \A u \in Upstreams : FailedOut(u) /\ ~CooledDown(u) => ~Healthy(u)

(***************************************************************************)
(* The inductive invariant behind the three: the count is the streak up to *)
(* the cap, and a mark is always as young as the last failure.             *)
(***************************************************************************)
CountIsCappedStreak(u) ==
  state[u].consecutive_failures =
    IF streak[u] < failure_threshold THEN streak[u] ELSE failure_threshold

MarkIsLastFailure(u) == Marked(u) => state[u].marked_unhealthy_at = last_failure[u]

HealthInv ==
  /\ HTypeOK
  /\ MarkedExactlyAtThreshold
  /\ \A u \in Upstreams : CountIsCappedStreak(u) /\ MarkIsLastFailure(u)
=============================================================================
