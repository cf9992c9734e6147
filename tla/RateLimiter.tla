---------------------------- MODULE RateLimiter ----------------------------
(***************************************************************************)
(* The rate limiter, src/src/rate_limiter.rs, called by the rate-limit     *)
(* layer of src/src/middleware.rs from many threads at once: a counter of  *)
(* calls, and a mutex around a map from client to token bucket.  A call    *)
(* to check takes the mutex once to clean up, on every CLEANUP_EVERY-th    *)
(* call, and once to acquire; between them other threads may run.          *)
(*                                                                         *)
(* Tokens are f64 in the code.  Here they are counted in equal parts of a  *)
(* token, fine enough that a tick's refill is a whole number of parts;     *)
(* rounding is left out.  A disabled limiter admits everything and has no  *)
(* state.                                                                  *)
(***************************************************************************)
EXTENDS Integers

CONSTANTS
  Clients,        \* the IP addresses
  Threads,        \* who calls check
  capacity,       \* RateLimiter.capacity, in parts of a token
  refill_rate,    \* RateLimiter.refill_rate, in parts per tick
  TOKEN,          \* the parts of a token
  CLEANUP_EVERY,  \* 1000
  IDLE,           \* 300 seconds, in ticks
  MaxTime         \* bound: the clock stops here

ASSUME LimiterAssumption ==
  /\ capacity \in Nat
  /\ refill_rate \in Nat
  /\ TOKEN \in Nat \ {0}
  /\ CLEANUP_EVERY \in Nat \ {0}
  /\ IDLE \in Nat
  /\ MaxTime \in Nat

VARIABLES
  now,              \* the clock
  buckets,          \* RateLimiter.buckets, a function on the clients in the map
  cleanup_counter,  \* RateLimiter.cleanup_counter, modulo CLEANUP_EVERY
  call,             \* each thread's call of check: where it is, and for whom
  admitted,         \* history: how many requests of each client were admitted
  refused           \* history: how many were refused, modulo 2

vars == <<now, buckets, cleanup_counter, call, admitted, refused>>

TokenBucket == [tokens : 0 .. capacity, last_refill : Nat]

Call == [pc : {"idle", "cleanup", "acquire"}, ip : Clients]

Init ==
  /\ now = 0
  /\ buckets = [c \in {} |-> [tokens |-> capacity, last_refill |-> 0]]
  /\ cleanup_counter = 0
  /\ call \in [Threads -> {k \in Call : k.pc = "idle"}]
  /\ admitted = [c \in Clients |-> 0]
  /\ refused = [c \in Clients |-> 0]

TypeOK ==
  /\ now \in Nat
  /\ DOMAIN buckets \subseteq Clients
  /\ buckets \in [DOMAIN buckets -> TokenBucket]
  /\ cleanup_counter \in 0 .. CLEANUP_EVERY - 1
  /\ call \in [Threads -> Call]
  /\ admitted \in [Clients -> Nat]
  /\ refused \in [Clients -> {0, 1}]

-----------------------------------------------------------------------------
Capped(parts) == IF parts < capacity THEN parts ELSE capacity

(* fetch_add on the counter; the call that finds a multiple cleans up first. *)
check(th, c) ==
  /\ call[th].pc = "idle"
  /\ cleanup_counter' = (cleanup_counter + 1) % CLEANUP_EVERY
  /\ call' = [call EXCEPT ![th] =
                [pc |-> IF cleanup_counter = 0 THEN "cleanup" ELSE "acquire", ip |-> c]]
  /\ UNCHANGED <<now, buckets, admitted, refused>>

(* Mutant of Retained: a bucket is thrown away a tick early. *)
Retained_early == {c \in DOMAIN buckets : buckets[c].last_refill > now - IDLE + 1}

(* retain(|_, bucket| bucket.last_refill > cutoff) *)
Retained == {c \in DOMAIN buckets : buckets[c].last_refill > now - IDLE}

cleanup(th) ==
  /\ call[th].pc = "cleanup"
  /\ buckets' = [c \in Retained |-> buckets[c]]
  /\ call' = [call EXCEPT ![th].pc = "acquire"]
  /\ UNCHANGED <<now, cleanup_counter, admitted, refused>>

(* Mutant of refill: the capacity is not enforced. *)
refill_uncapped(c) ==
  IF c \in DOMAIN buckets
    THEN buckets[c].tokens + (now - buckets[c].last_refill) * refill_rate
    ELSE capacity

(* What the bucket of c holds once it is refilled; a new bucket is full. *)
refill(c) ==
  IF c \in DOMAIN buckets
    THEN Capped(buckets[c].tokens + (now - buckets[c].last_refill) * refill_rate)
    ELSE capacity

(* Mutant of Refilled: last_refill is not moved on. *)
Refilled_stale(c, left) ==
  buckets' = [d \in DOMAIN buckets \cup {c} |->
                IF d \notin DOMAIN buckets THEN [tokens |-> left, last_refill |-> now]
                ELSE IF d = c THEN [buckets[d] EXCEPT !.tokens = left]
                ELSE buckets[d]]

(* entry(c).or_insert_with(new), with its refill, leaving the given tokens. *)
Refilled(c, left) ==
  buckets' = [d \in DOMAIN buckets \cup {c} |->
                IF d = c THEN [tokens |-> left, last_refill |-> now] ELSE buckets[d]]

(* try_acquire finds a token, ... *)
Admit(th) ==
  LET c == call[th].ip IN
  /\ call[th].pc = "acquire"
  /\ refill(c) >= TOKEN
  /\ Refilled(c, refill(c) - TOKEN)
  /\ admitted' = [admitted EXCEPT ![c] = @ + 1]
  /\ call' = [call EXCEPT ![th].pc = "idle"]
  /\ UNCHANGED <<now, cleanup_counter, refused>>

(* ... or it does not, and the request is answered 429. *)
Refuse(th) ==
  LET c == call[th].ip IN
  /\ call[th].pc = "acquire"
  /\ refill(c) < TOKEN
  /\ Refilled(c, refill(c))
  /\ refused' = [refused EXCEPT ![c] = 1 - @]
  /\ call' = [call EXCEPT ![th].pc = "idle"]
  /\ UNCHANGED <<now, cleanup_counter, admitted>>

Tick ==
  /\ now < MaxTime
  /\ now' = now + 1
  /\ UNCHANGED <<buckets, cleanup_counter, call, admitted, refused>>

Next ==
  \/ \E th \in Threads :
       \/ \E c \in Clients : check(th, c)
       \/ cleanup(th) \/ Admit(th) \/ Refuse(th)
  \/ Tick

Spec == Init /\ [][Next]_vars

-----------------------------------------------------------------------------
(* What the client's bucket would hold if it were always there. *)
Level == [c \in Clients |-> refill(c)]

Ideal == INSTANCE IdealBucket WITH level <- Level

(* A bucket that is idle long enough to be thrown away is full again. *)
IdleBucketsAreFull == IDLE * refill_rate >= capacity

(***************************************************************************)
(* rate_limiter.rs:34-39, 89-93 - creating, refilling and throwing away    *)
(* buckets on demand cannot be told from one ideal bucket per client that  *)
(* is always there: every admission and every refusal is one that the      *)
(* ideal bucket would make (provided that IdleBucketsAreFull).             *)
(***************************************************************************)
ImplementsIdealBucket == Ideal!Spec

(***************************************************************************)
(* README.md:165 - "Token bucket refill rate per IP": from the start to    *)
(* any instant a client is admitted no more than one burst and the refill  *)
(* of the time passed.  What holds from another instant on follows from    *)
(* ImplementsIdealBucket, as no ideal bucket ever holds more than a burst. *)
(***************************************************************************)
AdmittedWithinRate ==
  \A c \in Clients : TOKEN * admitted[c] <= capacity + refill_rate * now

(***************************************************************************)
(* The inductive invariant: no bucket was refilled in the future.          *)
(***************************************************************************)
LimiterInv ==
  /\ TypeOK
  /\ \A c \in DOMAIN buckets : buckets[c].last_refill <= now
=============================================================================
