---------------------------- MODULE RetryBackoff ----------------------------
(***************************************************************************)
(* The wait before a retry in proxy_request, src/src/proxy.rs, in the      *)
(* arithmetic of a release build: the product saturates, a shift takes its *)
(* distance modulo the width, and the sum of delay and jitter wraps.       *)
(***************************************************************************)
EXTENDS Integers

CONSTANTS
  W,           \* the width of u64 in bits
  MaxAttempts  \* bound: the attempts of a request

ASSUME BackoffAssumption == W \in Nat \ {0} /\ MaxAttempts \in Nat

(* 2^n for the widths there are, by doubling. *)
Pow2[n \in 0 .. W] == IF n = 0 THEN 1 ELSE 2 * Pow2[n - 1]

U64 == 0 .. Pow2[W] - 1

VARIABLES
  backoff_base_ms,  \* config.server.retry_backoff_ms
  attempts_made,    \* the attempts before this retry
  delay,            \* total_delay of the latest sleep
  previous          \* history: total_delay of the one before

backoffvars == <<backoff_base_ms, attempts_made, delay, previous>>

BackoffInit ==
  /\ backoff_base_ms \in U64
  /\ attempts_made = 0
  /\ delay = 0
  /\ previous = 0

-----------------------------------------------------------------------------
saturating_mul(a, b) == IF a * b \in U64 THEN a * b ELSE Pow2[W] - 1

(* 1 << n, with the distance masked to the width. *)
Shl(n) == Pow2[n % W]

exp_delay == saturating_mul(backoff_base_ms, Shl(attempts_made - 1))

(* Mutant of Jitter: up to the delay itself. *)
Jitter_full(d) == 0 .. d

(* random_range(0..=exp_delay / 2) *)
Jitter(d) == 0 .. d \div 2

FirstAttempt ==
  /\ attempts_made = 0
  /\ attempts_made' = 1
  /\ UNCHANGED <<backoff_base_ms, delay, previous>>

(* The budget has allowed a retry: the task sleeps and then attempts. *)
Retry ==
  /\ attempts_made \in 1 .. MaxAttempts - 1
  /\ \E jitter \in Jitter(exp_delay) : delay' = (exp_delay + jitter) % Pow2[W]
  /\ previous' = delay
  /\ attempts_made' = attempts_made + 1
  /\ UNCHANGED backoff_base_ms

BackoffNext == FirstAttempt \/ Retry

BackoffSpec == BackoffInit /\ [][BackoffNext]_backoffvars

-----------------------------------------------------------------------------
Retries == attempts_made - 1

(* The longest wait of the latest retry is still a number of this width. *)
Fits == Retries <= W /\ (3 * backoff_base_ms * Pow2[Retries - 1]) \div 2 \in U64

(***************************************************************************)
(* proxy.rs:222 - the backoff really grows: as long as the waits fit their *)
(* width, each is longer than the one before it, however the jitter falls, *)
(* and no shorter than the base doubled for every retry before it.         *)
(***************************************************************************)
WaitsGrow ==
  (Retries >= 1 /\ Fits /\ backoff_base_ms > 0) =>
    /\ delay > previous
    /\ delay >= backoff_base_ms * Pow2[Retries - 1]
=============================================================================
