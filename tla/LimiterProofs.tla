---------------------------- MODULE LimiterProofs ----------------------------
(***************************************************************************)
(* The rate limiter implements one ideal token bucket per client, for any  *)
(* number of clients and threads and any rate and burst, provided that a   *)
(* bucket is full again by the time it may be thrown away.  The argument   *)
(* needs only that no bucket was refilled in the future (LimiterInv): the  *)
(* ideal level is then a number between nothing and the capacity that the  *)
(* passing of time can only bring nearer to the capacity.                  *)
(***************************************************************************)
EXTENDS RateLimiter, TLAPS

(* A refill leaves a bucket within its capacity (rate_limiter.rs:37). *)
LEMMA RefillTyped ==
  ASSUME LimiterInv, NEW c
  PROVE  refill(c) \in 0 .. capacity
<1>1. CASE c \in DOMAIN buckets
  <2>1. /\ buckets[c].tokens \in 0 .. capacity
        /\ now - buckets[c].last_refill \in Nat
    BY <1>1 DEF LimiterInv, TypeOK, TokenBucket
  <2>2. ASSUME NEW n \in Nat PROVE n * refill_rate \in Nat
    BY LimiterAssumption
  <2> QED
    BY <1>1, <2>1, <2>2, LimiterAssumption DEF refill, Capped
<1>2. CASE c \notin DOMAIN buckets
  BY <1>2, LimiterAssumption DEF refill
<1> QED
  BY <1>1, <1>2

(* After a call of try_acquire the client's bucket holds what it left. *)
LEMMA AcquireLevels ==
  ASSUME LimiterInv, NEW c, NEW left \in 0 .. capacity,
         Refilled(c, left), UNCHANGED now
  PROVE  \A d : refill(d)' = IF d = c THEN left ELSE refill(d)
<1> TAKE d
<1>1. CASE d = c
  <2>1. buckets'[d].tokens = left /\ buckets'[d].last_refill = now /\ d \in DOMAIN buckets'
    BY <1>1 DEF Refilled
  <2>2. (now - now) * refill_rate = 0
    BY LimiterAssumption DEF LimiterInv, TypeOK
  <2> QED
    BY <1>1, <2>1, <2>2, LimiterAssumption DEF refill, Capped
<1>2. CASE d # c
  <2>1. /\ d \in DOMAIN buckets' <=> d \in DOMAIN buckets
        /\ d \in DOMAIN buckets => buckets'[d] = buckets[d]
    BY <1>2 DEF Refilled
  <2> QED
    BY <1>2, <2>1 DEF refill, Capped
<1> QED
  BY <1>1, <1>2

-----------------------------------------------------------------------------
(* A new limiter has no buckets and no call under way. *)
LEMMA LimiterInit == Init => LimiterInv
<1> SUFFICES ASSUME Init PROVE LimiterInv
  OBVIOUS
<1>1. DOMAIN buckets = {} /\ buckets \in [DOMAIN buckets -> TokenBucket]
  BY DEF Init
<1>2. call \in [Threads -> Call]
  BY DEF Init
<1> QED
  BY <1>1, <1>2, LimiterAssumption DEF Init, LimiterInv, TypeOK

(* Each step of check, and the clock, preserves LimiterInv                 *)
(* (rate_limiter.rs:71-93).                                                *)
LEMMA LimiterStep == LimiterInv /\ [Next]_vars => LimiterInv'
<1> SUFFICES ASSUME LimiterInv, [Next]_vars PROVE LimiterInv'
  OBVIOUS
<1> USE LimiterAssumption
<1>1. ASSUME NEW th \in Threads, NEW c \in Clients, check(th, c) PROVE LimiterInv'
  BY <1>1 DEF check, LimiterInv, TypeOK, Call
<1>2. ASSUME NEW th \in Threads, cleanup(th) PROVE LimiterInv'
  BY <1>2 DEF cleanup, Retained, LimiterInv, TypeOK, Call
<1>3. ASSUME NEW c \in Clients, NEW left \in 0 .. capacity, Refilled(c, left), UNCHANGED now
      PROVE  /\ DOMAIN buckets' \subseteq Clients
             /\ buckets' \in [DOMAIN buckets' -> TokenBucket]
             /\ \A d \in DOMAIN buckets' : buckets'[d].last_refill <= now'
  BY <1>3 DEF Refilled, LimiterInv, TypeOK, TokenBucket
<1>4. ASSUME NEW th \in Threads, Admit(th) PROVE LimiterInv'
  <2>1. call[th].ip \in Clients /\ refill(call[th].ip) - TOKEN \in 0 .. capacity
    BY <1>4, RefillTyped DEF Admit, LimiterInv, TypeOK, Call
  <2>2. /\ DOMAIN buckets' \subseteq Clients
        /\ buckets' \in [DOMAIN buckets' -> TokenBucket]
        /\ \A d \in DOMAIN buckets' : buckets'[d].last_refill <= now'
    BY <1>3, <1>4, <2>1 DEF Admit
  <2> QED
    BY <1>4, <2>1, <2>2 DEF Admit, LimiterInv, TypeOK, Call
<1>5. ASSUME NEW th \in Threads, Refuse(th) PROVE LimiterInv'
  <2>1. call[th].ip \in Clients /\ refill(call[th].ip) \in 0 .. capacity
    BY RefillTyped DEF LimiterInv, TypeOK, Call
  <2>2. /\ DOMAIN buckets' \subseteq Clients
        /\ buckets' \in [DOMAIN buckets' -> TokenBucket]
        /\ \A d \in DOMAIN buckets' : buckets'[d].last_refill <= now'
    BY <1>3, <1>5, <2>1 DEF Refuse
  <2> QED
    BY <1>5, <2>2 DEF Refuse, LimiterInv, TypeOK, Call
<1>6. ASSUME Tick PROVE LimiterInv'
  BY <1>6 DEF Tick, LimiterInv, TypeOK, TokenBucket
<1>7. ASSUME UNCHANGED vars PROVE LimiterInv'
  BY <1>7 DEF vars, LimiterInv, TypeOK
<1> QED
  BY <1>1, <1>2, <1>4, <1>5, <1>6, <1>7 DEF Next

(***************************************************************************)
(* The limiter's state is well formed and its clock runs forward.          *)
(***************************************************************************)
THEOREM LimiterInvariant == Spec => []LimiterInv
<1> QED
  BY LimiterInit, LimiterStep, PTL DEF Spec

-----------------------------------------------------------------------------
(* A bucket that cleanup throws away was full, so the client has lost      *)
(* nothing and gained nothing (rate_limiter.rs:89-93).                     *)
LEMMA CleanupLevels ==
  ASSUME IdleBucketsAreFull, LimiterInv, NEW th, cleanup(th)
  PROVE  \A c : refill(c)' = refill(c)
<1> TAKE c
<1>1. CASE c \in Retained
  BY <1>1 DEF cleanup, Retained, refill, Capped
<1>2. CASE c \in DOMAIN buckets \ Retained
  <2>1. /\ buckets[c].tokens \in Nat
        /\ now - buckets[c].last_refill \in Nat
        /\ now - buckets[c].last_refill >= IDLE
    BY <1>2, LimiterAssumption DEF Retained, LimiterInv, TypeOK, TokenBucket
  <2>2. ASSUME NEW n \in Nat, n >= IDLE PROVE n * refill_rate >= capacity
    BY <2>2, LimiterAssumption DEF IdleBucketsAreFull
  <2>3. ASSUME NEW n \in Nat PROVE n * refill_rate \in Nat
    BY LimiterAssumption
  <2>4. refill(c) = capacity
    <3> DEFINE p == (now - buckets[c].last_refill) * refill_rate
    <3>1. p \in Nat /\ p >= capacity
      BY <2>1, <2>2, <2>3
    <3>2. refill(c) = Capped(buckets[c].tokens + p)
      BY <1>2 DEF refill
    <3> HIDE DEF p
    <3> QED
      BY <2>1, <3>1, <3>2, LimiterAssumption DEF Capped
  <2>5. refill(c)' = capacity
    BY <1>2 DEF cleanup, refill
  <2> QED
    BY <2>4, <2>5
<1>3. CASE c \notin DOMAIN buckets
  BY <1>3 DEF cleanup, Retained, refill
<1> QED
  BY <1>1, <1>2, <1>3

(* The level of a bucket, were it refilled now, grows with the clock as the *)
(* ideal bucket does (rate_limiter.rs:34-39).                              *)
LEMMA TickLevels ==
  ASSUME LimiterInv, Tick, NEW c
  PROVE  refill(c)' = Capped(refill(c) + refill_rate)
<1>1. CASE c \in DOMAIN buckets
  <2> DEFINE tok == buckets[c].tokens
             n == now - buckets[c].last_refill
  <2>1. tok \in Nat /\ n \in Nat
    BY <1>1 DEF LimiterInv, TypeOK, TokenBucket
  <2>2. now' - buckets'[c].last_refill = n + 1 /\ buckets'[c].tokens = tok
    BY <1>1 DEF Tick, LimiterInv, TypeOK, TokenBucket
  <2>3. ASSUME NEW m \in Nat
        PROVE  (m + 1) * refill_rate = m * refill_rate + refill_rate /\ m * refill_rate \in Nat
    BY LimiterAssumption
  <2>4. refill(c) = Capped(tok + n * refill_rate)
    BY <1>1 DEF refill
  <2>5. refill(c)' = Capped(tok + (n + 1) * refill_rate)
    BY <1>1, <2>2 DEF refill, Tick, Capped
  <2>6. (n + 1) * refill_rate = n * refill_rate + refill_rate /\ n * refill_rate \in Nat
    BY <2>1, <2>3
  <2> DEFINE p == n * refill_rate
  <2>7. /\ p \in Nat
        /\ refill(c) = Capped(tok + p)
        /\ refill(c)' = Capped(tok + (p + refill_rate))
    BY <2>4, <2>5, <2>6
  <2> HIDE DEF p, tok, n
  <2> QED
    BY <2>1, <2>7, LimiterAssumption DEF Capped
<1>2. CASE c \notin DOMAIN buckets
  BY <1>2, LimiterAssumption DEF refill, Tick, Capped
<1> QED
  BY <1>1, <1>2

(***************************************************************************)
(* Every step is a step of the ideal buckets or changes nothing of them.   *)
(***************************************************************************)
LEMMA StepRefines ==
  ASSUME IdleBucketsAreFull, LimiterInv, [Next]_vars
  PROVE  [Ideal!Next]_(Ideal!vars)
<1>1. ASSUME UNCHANGED <<now, admitted, refused>>, \A c : refill(c)' = refill(c)
      PROVE  UNCHANGED Ideal!vars
  BY <1>1 DEF Ideal!vars, Level
<1>2. ASSUME NEW th \in Threads, NEW c \in Clients, check(th, c)
      PROVE  UNCHANGED Ideal!vars
  BY <1>1, <1>2 DEF check, refill, Capped
<1>3. ASSUME NEW th \in Threads, cleanup(th) PROVE UNCHANGED Ideal!vars
  BY <1>1, <1>3, CleanupLevels DEF cleanup
<1>4. ASSUME NEW th \in Threads, Admit(th) PROVE Ideal!Next
  <2>1. PICK c \in Clients : c = call[th].ip
    BY DEF LimiterInv, TypeOK, Call
  <2>2. refill(c) >= TOKEN /\ refill(c) - TOKEN \in 0 .. capacity
    BY <1>4, <2>1, RefillTyped, LimiterAssumption DEF Admit
  <2>3. \A d : refill(d)' = IF d = c THEN refill(c) - TOKEN ELSE refill(d)
    BY <1>4, <2>1, <2>2, AcquireLevels DEF Admit
  <2>4. Level' = [Level EXCEPT ![c] = @ - TOKEN] /\ Level[c] >= TOKEN
    BY <2>2, <2>3 DEF Level
  <2>5. Ideal!Admit(c)
    BY <1>4, <2>1, <2>4 DEF Admit, Ideal!Admit
  <2> QED
    BY <2>5 DEF Ideal!Next
<1>5. ASSUME NEW th \in Threads, Refuse(th) PROVE Ideal!Next
  <2>1. PICK c \in Clients : c = call[th].ip
    BY DEF LimiterInv, TypeOK, Call
  <2>2. \A d : refill(d)' = refill(d)
    BY <1>5, <2>1, RefillTyped, AcquireLevels DEF Refuse
  <2>3. Level' = Level /\ Level[c] < TOKEN
    BY <1>5, <2>1, <2>2 DEF Refuse, Level
  <2>4. Ideal!Refuse(c)
    BY <1>5, <2>1, <2>3 DEF Refuse, Ideal!Refuse
  <2> QED
    BY <2>4 DEF Ideal!Next
<1>6. ASSUME Tick PROVE Ideal!Next
  <2>1. Level' = [c \in Clients |-> Ideal!Capped(Level[c] + refill_rate)]
    BY <1>6, TickLevels DEF Level, Capped, Ideal!Capped
  <2>2. Ideal!Tick
    BY <1>6, <2>1 DEF Tick, Ideal!Tick
  <2> QED
    BY <2>2 DEF Ideal!Next
<1>7. ASSUME UNCHANGED vars PROVE UNCHANGED Ideal!vars
  BY <1>1, <1>7 DEF vars, refill, Capped
<1> QED
  BY <1>2, <1>3, <1>4, <1>5, <1>6, <1>7 DEF Next

(***************************************************************************)
(* The lazy limiter with its clean-up implements the ideal token buckets   *)
(* (rate_limiter.rs:34-39, 89-93).                                         *)
(***************************************************************************)
THEOREM Refinement ==
  ASSUME IdleBucketsAreFull
  PROVE  Spec => ImplementsIdealBucket
<1>1. Init => Ideal!Init
  BY DEF Init, Ideal!Init, Level, refill
<1>2. LimiterInv /\ [Next]_vars => [Ideal!Next]_(Ideal!vars)
  BY StepRefines
<1> QED
  BY <1>1, <1>2, LimiterInvariant, PTL DEF Spec, ImplementsIdealBucket, Ideal!Spec

(***************************************************************************)
(* From that: a client is admitted no more than one burst and the refill   *)
(* of the time since the start (README.md:165).  Conservation of tokens is *)
(* inductive for the ideal buckets, and AdmittedWithinRate follows because *)
(* a bucket never holds less than nothing.                                 *)
(***************************************************************************)
THEOREM RateTheorem ==
  ASSUME IdleBucketsAreFull
  PROVE  Spec => []AdmittedWithinRate
<1> DEFINE Good == LimiterInv /\ Ideal!Conservation
<1> USE LimiterAssumption
<1>1. Init => Good
  BY LimiterInit DEF Init, Ideal!Conservation, Level, refill
<1>2. ASSUME Good, [Next]_vars PROVE Good'
  <2>1. LimiterInv'
    BY <1>2, LimiterStep
  <2>2. ASSUME NEW c \in Clients
        PROVE  Level[c] \in 0 .. capacity /\ admitted[c] \in Nat /\ now \in Nat
               /\ Level[c] + TOKEN * admitted[c] <= capacity + refill_rate * now
    BY <1>2, RefillTyped DEF Level, LimiterInv, TypeOK, Ideal!Conservation
  <2>3. ASSUME NEW n \in Nat
        PROVE  /\ TOKEN * (n + 1) = TOKEN * n + TOKEN /\ TOKEN * n \in Nat
               /\ refill_rate * (n + 1) = refill_rate * n + refill_rate
               /\ refill_rate * n \in Nat
    OBVIOUS
  <2>4. ASSUME NEW d \in Clients, Ideal!Admit(d) PROVE Ideal!Conservation'
    <3> SUFFICES ASSUME NEW c \in Clients
                 PROVE  Level'[c] + TOKEN * admitted'[c] <= capacity + refill_rate * now'
      BY DEF Ideal!Conservation
    <3>1. CASE c = d
      <4>1. /\ Level'[c] = Level[c] - TOKEN
            /\ admitted'[c] = admitted[c] + 1
            /\ now' = now
        BY <1>2, <2>4, <3>1 DEF Ideal!Admit, Level, LimiterInv, TypeOK
      <4>2. TOKEN * admitted'[c] = TOKEN * admitted[c] + TOKEN /\ TOKEN * admitted[c] \in Nat
        BY <2>2, <2>3, <4>1
      <4>3. refill_rate * now \in Nat
        BY <2>2, <2>3
      <4> QED
        BY <2>2, <4>1, <4>2, <4>3
    <3>2. CASE c # d
      BY <1>2, <2>2, <2>4, <3>2 DEF Ideal!Admit, Level, LimiterInv, TypeOK
    <3> QED
      BY <3>1, <3>2
  <2>5. ASSUME Ideal!Tick PROVE Ideal!Conservation'
    <3> SUFFICES ASSUME NEW c \in Clients
                 PROVE  Level'[c] + TOKEN * admitted'[c] <= capacity + refill_rate * now'
      BY DEF Ideal!Conservation
    <3>1. /\ Level'[c] <= Level[c] + refill_rate
          /\ Level'[c] \in Int
          /\ admitted'[c] = admitted[c]
          /\ now' = now + 1
      BY <2>2, <2>5 DEF Ideal!Tick, Ideal!Capped
    <3>2. refill_rate * now' = refill_rate * now + refill_rate /\ refill_rate * now \in Nat
      BY <2>2, <2>3, <3>1
    <3>3. TOKEN * admitted[c] \in Nat /\ TOKEN * admitted'[c] = TOKEN * admitted[c]
      BY <2>2, <2>3, <3>1
    <3> QED
      BY <2>2, <3>1, <3>2, <3>3
  <2>6. ASSUME UNCHANGED <<now, Level, admitted>> PROVE Ideal!Conservation'
    BY <1>2, <2>6 DEF Ideal!Conservation
  <2>7. [Ideal!Next]_(Ideal!vars)
    BY <1>2, StepRefines
  <2> QED
    BY <2>1, <2>4, <2>5, <2>6, <2>7 DEF Ideal!Next, Ideal!Refuse, Ideal!vars
<1>3. Good => AdmittedWithinRate
  <2> SUFFICES ASSUME Good, NEW c \in Clients
               PROVE  TOKEN * admitted[c] <= capacity + refill_rate * now
    BY DEF AdmittedWithinRate
  <2>1. /\ Level[c] \in Nat
        /\ Level[c] + TOKEN * admitted[c] <= capacity + refill_rate * now
    BY RefillTyped DEF Level, Ideal!Conservation
  <2>2. TOKEN * admitted[c] \in Nat /\ refill_rate * now \in Nat
    BY DEF LimiterInv, TypeOK
  <2> QED
    BY <2>1, <2>2
<1> QED
  BY <1>1, <1>2, <1>3, PTL DEF Spec
=============================================================================
