---------------------------- MODULE HealthProofs ----------------------------
(***************************************************************************)
(* The passive health tracker keeps its promises for every set of          *)
(* upstreams, every threshold and every cooldown.  All three follow from   *)
(* the inductive invariant HealthInv: the capped count determines the      *)
(* length of the streak only together with the mark, and a mark's age is   *)
(* known only as the age of the last failure.                              *)
(*                                                                         *)
(* The active health checker keeps its own, for every list of upstreams,   *)
(* interval and timeout, however long its probes take and whatever the     *)
(* requests record beside them: they follow from CheckInv, which bounds    *)
(* when each upstream's next probe is over.                                *)
(***************************************************************************)
EXTENDS HealthCheck, FiniteSetTheorems, TLAPS

(* One upstream's part of HealthInv. *)
Kept(u) ==
  /\ Marked(u) <=> streak[u] >= EffectiveThreshold
  /\ CountIsCappedStreak(u)
  /\ MarkIsLastFailure(u)

(* HealthInv speaks of one upstream at a time (health.rs keeps one entry   *)
(* each), so a step is checked for the upstream it touches.                *)
LEMMA HealthInvParts == HealthInv <=> HTypeOK /\ \A u \in Upstreams : Kept(u)
BY DEF HealthInv, Kept, MarkedExactlyAtThreshold, FailedOut

(***************************************************************************)
(* A new tracker has no failures and no marks.                             *)
(***************************************************************************)
LEMMA HealthInit == HInit => HealthInv
<1> SUFFICES ASSUME HInit PROVE HealthInv
  OBVIOUS
<1>1. HTypeOK
  BY TrackerAssumption
  DEF HInit, Init, HTypeOK, TypeOK, UpstreamHealth, Fresh, None
<1>2. ASSUME NEW u \in Upstreams PROVE Kept(u)
  BY TrackerAssumption
  DEF HInit, Init, Kept, Marked, CountIsCappedStreak, MarkIsLastFailure,
      EffectiveThreshold, Fresh, None
<1> QED
  BY <1>1, <1>2, HealthInvParts

(***************************************************************************)
(* Each operation of health.rs, and the clock, preserves HealthInv.        *)
(***************************************************************************)
LEMMA HealthStep == HealthInv /\ [HNext]_hvars => HealthInv'
<1> SUFFICES ASSUME HealthInv, [HNext]_hvars PROVE HTypeOK' /\ \A u \in Upstreams : Kept(u)'
  BY HealthInvParts DEF HealthInv, Kept, MarkedExactlyAtThreshold, FailedOut
<1> USE TrackerAssumption, StreakAssumption
<1>0. /\ HTypeOK
      /\ \A u \in Upstreams : Kept(u)
  BY HealthInvParts
<1>1. ASSUME NEW v \in Upstreams, Failure(v)
      PROVE  HTypeOK' /\ \A u \in Upstreams : Kept(u)'
  <2>1. HTypeOK'
    BY <1>0, <1>1
    DEF Failure, record_failure, HTypeOK, TypeOK, UpstreamHealth, None
  <2>2. ASSUME NEW u \in Upstreams PROVE Kept(u)'
    <3>1. CASE u = v
      BY <1>0, <1>1, <3>1
      DEF Failure, record_failure, HTypeOK, TypeOK, UpstreamHealth, None, Kept,
          Marked, CountIsCappedStreak, MarkIsLastFailure, EffectiveThreshold
    <3>2. CASE u # v
      BY <1>0, <1>1, <3>2
      DEF Failure, record_failure, HTypeOK, TypeOK, Kept,
          Marked, CountIsCappedStreak, MarkIsLastFailure
    <3> QED
      BY <3>1, <3>2
  <2> QED
    BY <2>1, <2>2
<1>2. ASSUME NEW v \in Upstreams, Success(v)
      PROVE  HTypeOK' /\ \A u \in Upstreams : Kept(u)'
  <2>1. HTypeOK'
    BY <1>0, <1>2
    DEF Success, record_success, HTypeOK, TypeOK, UpstreamHealth, Fresh, None
  <2>2. ASSUME NEW u \in Upstreams PROVE Kept(u)'
    BY <1>0, <1>2
    DEF Success, record_success, HTypeOK, TypeOK, Fresh, None, Kept,
        Marked, CountIsCappedStreak, MarkIsLastFailure, EffectiveThreshold
  <2> QED
    BY <2>1, <2>2
<1>3. ASSUME NEW v \in Upstreams, Ask(v)
      PROVE  HTypeOK' /\ \A u \in Upstreams : Kept(u)'
  <2>1. HTypeOK'
    BY <1>0, <1>3
    DEF Ask, is_healthy, HTypeOK, TypeOK, UpstreamHealth, Fresh, None
  <2>2. ASSUME NEW u \in Upstreams PROVE Kept(u)'
    BY <1>0, <1>3
    DEF Ask, is_healthy, CooldownExpired, FailedOut, CooledDown, HTypeOK, TypeOK, Fresh, None, Kept,
        Marked, CountIsCappedStreak, MarkIsLastFailure, EffectiveThreshold
  <2> QED
    BY <2>1, <2>2
<1>4. ASSUME HTick
      PROVE  HTypeOK' /\ \A u \in Upstreams : Kept(u)'
  BY <1>0, <1>4
  DEF HTick, Tick, HTypeOK, TypeOK, Kept, Marked, CountIsCappedStreak, MarkIsLastFailure
<1>5. ASSUME UNCHANGED hvars
      PROVE  HTypeOK' /\ \A u \in Upstreams : Kept(u)'
  BY <1>0, <1>5
  DEF hvars, HTypeOK, TypeOK, Kept, Marked, CountIsCappedStreak, MarkIsLastFailure
<1> QED
  BY <1>1, <1>2, <1>3, <1>4, <1>5 DEF HNext

(***************************************************************************)
(* The tracker's count is its streak up to the cap, and its mark as young  *)
(* as the last failure (health.rs:32-36), in every reachable state.        *)
(***************************************************************************)
THEOREM HealthInvariant == HSpec => []HealthInv
<1> QED
  BY HealthInit, HealthStep, PTL DEF HSpec

(***************************************************************************)
(* An upstream is marked exactly when its failures in a row have reached   *)
(* the threshold (health.rs:34).                                           *)
(***************************************************************************)
THEOREM MarkTheorem == HSpec => []MarkedExactlyAtThreshold
<1>1. HealthInv => MarkedExactlyAtThreshold
  BY DEF HealthInv
<1> QED
  BY <1>1, HealthInvariant, PTL

(***************************************************************************)
(* Once the cooldown has passed since its last failure, an upstream is     *)
(* reported healthy (health.rs:58).                                        *)
(***************************************************************************)
THEOREM RecoveryTheorem == HSpec => []BackAfterCooldown
<1>1. HealthInv => BackAfterCooldown
  BY DEF HealthInv, BackAfterCooldown, CooledDown, MarkIsLastFailure, Healthy, CooldownExpired
<1> QED
  BY <1>1, HealthInvariant, PTL

(***************************************************************************)
(* Before that, an upstream that has failed out is reported unhealthy      *)
(* (health.rs:36, 58).                                                     *)
(***************************************************************************)
THEOREM NoEarlyRecoveryTheorem == HSpec => []OutUntilCooldown
<1>1. ASSUME HealthInv, NEW u \in Upstreams, FailedOut(u), ~CooledDown(u)
      PROVE  ~Healthy(u)
  <2>1. HTypeOK /\ Marked(u) /\ MarkIsLastFailure(u)
    BY <1>1 DEF HealthInv, MarkedExactlyAtThreshold
  <2>2. /\ state[u].marked_unhealthy_at = last_failure[u]
        /\ last_failure[u] # None
    BY <2>1 DEF MarkIsLastFailure, Marked
  <2> QED
    BY <1>1, <2>1, <2>2 DEF CooledDown, Healthy, CooldownExpired
<1>2. HealthInv => OutUntilCooldown
  BY <1>1 DEF OutUntilCooldown
<1> QED
  BY <1>2, HealthInvariant, PTL

-----------------------------------------------------------------------------
(***************************************************************************)
(* The active health checker (health_check.rs).  When the next probe of    *)
(* the upstream in place p is due, as a function of where the checker is.  *)
(***************************************************************************)
DueOf(c, p) ==
  IF c.at = 0 THEN c.since + interval + p * timeout
  ELSE IF c.at <= p THEN c.since + (p - c.at + 1) * timeout
  ELSE c.since + interval + (N - c.at + 1 + p) * timeout

(* What CheckInv says of an upstream whose next probe is due at d. *)
Timely(u, d) ==
  /\ (u \in Alive /\ Marked(u)) => d <= state[u].marked_unhealthy_at + RoundTime
  /\ (u \in Dead /\ u \in fallen /\ RoundTime < cooldown) =>
       Marked(u) /\ d <= state[u].marked_unhealthy_at + RoundTime
  /\ (u \in Dead /\ u \notin fallen) => d <= (streak[u] + 1) * RoundTime

LEMMA CheckInvParts ==
  CheckInv <=> /\ CTypeOK
               /\ checker.since <= now /\ now <= Deadline
               /\ \A u \in Probed : \E p \in 1 .. N : upstreams[p] = u
               /\ \A u \in Upstreams : Marked(u) => u \in fallen
               /\ \A p \in 1 .. N : Timely(upstreams[p], DueOf(checker, p))
BY DEF CheckInv, InTime, Due, Timely, DueOf, Probing

(* A product of a natural number grows with its other factor. *)
LEMMA Times ==
  ASSUME NEW a \in Int, NEW b \in Int, NEW t \in Nat, a <= b
  PROVE  a * t <= b * t /\ a * t \in Int /\ b * t \in Int
<1>1. (b - a) * t \in Nat
  <2>1. b - a \in Nat
    OBVIOUS
  <2> QED
    BY <2>1
<1>2. (b - a) * t = b * t - a * t /\ a * t \in Int /\ b * t \in Int
  OBVIOUS
<1> QED
  BY <1>1, <1>2

LEMMA RoundTyped == N \in Nat /\ N * timeout \in Nat /\ RoundTime \in Nat
<1>1. N \in Nat
  BY CheckAssumption, FS_CardinalityType DEF N
<1>2. N * timeout \in Nat
  BY <1>1, CheckAssumption
<1> QED
  BY <1>1, <1>2, CheckAssumption DEF RoundTime

(* A probe is due no earlier than the clock's next deadline, and within a  *)
(* round of now.                                                           *)
LEMMA DueBounds ==
  ASSUME NEW c \in Checker, NEW p \in 1 .. N, NEW n \in Nat,
         c.since <= n, n <= c.since + IF c.at # 0 THEN timeout ELSE interval
  PROVE  DueOf(c, p) \in Int /\ n <= DueOf(c, p) /\ DueOf(c, p) <= n + RoundTime
<1>1. /\ N \in Nat /\ N * timeout \in Nat /\ timeout \in Nat /\ interval \in Nat
      /\ c.at \in 0 .. N /\ c.since \in Nat /\ p \in Int /\ p >= 1 /\ p <= N
      /\ RoundTime = interval + N * timeout
  BY RoundTyped, CheckAssumption DEF Checker, RoundTime
<1>2. ASSUME NEW k \in 1 .. N
      PROVE  /\ k * timeout \in Int /\ timeout <= k * timeout /\ k * timeout <= N * timeout
  <2>1. k \in Int /\ 1 <= k /\ k <= N
    BY <1>1
  <2>2. 1 * timeout <= k * timeout /\ k * timeout <= N * timeout /\ k * timeout \in Int
    BY <1>1, <2>1, Times
  <2> QED
    BY <1>1, <2>2
<1>3. CASE c.at = 0
  BY <1>1, <1>2, <1>3 DEF DueOf
<1>4. CASE c.at # 0 /\ c.at <= p
  <2>1. p - c.at + 1 \in 1 .. N
    BY <1>1, <1>4
  <2> QED
    BY <1>1, <1>2, <1>4, <2>1 DEF DueOf
<1>5. CASE c.at # 0 /\ ~(c.at <= p)
  <2>1. N - c.at + 1 + p \in 1 .. N
    BY <1>1, <1>5
  <2> QED
    BY <1>1, <1>2, <1>5, <2>1 DEF DueOf
<1> QED
  BY <1>3, <1>4, <1>5

(* The end of the sleep moves no probe's due time ... *)
LEMMA DueWakes ==
  ASSUME NEW c \in Checker, NEW p \in 1 .. N, c.at = 0
  PROVE  DueOf([at |-> 1, since |-> c.since + interval], p) = DueOf(c, p)
<1>1. c.since + interval \in Int /\ p \in Int /\ p >= 1 /\ p - 1 + 1 = p
  BY RoundTyped, CheckAssumption DEF Checker
<1> QED
  BY <1>1 DEF DueOf

(* ... and the end of a probe puts none off but that upstream's own, which *)
(* is due again a round later.                                             *)
LEMMA DueMoves ==
  ASSUME NEW c \in Checker, NEW p \in 1 .. N, NEW n \in Nat, c.at # 0,
         n <= c.since + timeout,
         NEW d, d = [at |-> IF c.at + 1 <= N THEN c.at + 1 ELSE 0, since |-> n]
  PROVE  p # c.at => DueOf(d, p) <= DueOf(c, p)
<1>1. /\ N \in Nat /\ timeout \in Nat /\ interval \in Nat
      /\ c.at \in 1 .. N /\ c.since \in Nat /\ p \in Int /\ p >= 1 /\ p <= N
  BY RoundTyped, CheckAssumption DEF Checker
<1>2. ASSUME NEW k \in Int PROVE k * timeout \in Int /\ (k + 1) * timeout = k * timeout + timeout
  BY <1>1
<1>3. CASE c.at < p
  <2>1. DueOf(d, p) = n + (p - c.at) * timeout
    <3>1. c.at + 1 <= N /\ d.since = n
      BY <1>1, <1>3
    <3>2. d.at = c.at + 1
      BY <3>1
    <3>3. d.at <= p /\ d.at # 0 /\ p - d.at + 1 = p - c.at
      BY <1>1, <1>3, <3>2
    <3> QED
      BY <3>1, <3>3 DEF DueOf
  <2>2. DueOf(c, p) = c.since + (p - c.at + 1) * timeout
    BY <1>1, <1>3 DEF DueOf
  <2>3. p - c.at \in Int
    BY <1>1
  <2> QED
    BY <1>1, <1>2, <2>1, <2>2, <2>3
<1>4. CASE p < c.at
  <2>1. DueOf(d, p) = n + interval + (N - c.at + p) * timeout
    <3>1. CASE c.at < N
      <4>1. /\ d.at = c.at + 1 /\ d.since = n /\ ~(d.at <= p) /\ d.at # 0
            /\ N - d.at + 1 + p = N - c.at + p
        BY <1>1, <1>4, <3>1
      <4> QED
        BY <4>1 DEF DueOf
    <3>2. CASE c.at = N
      <4>1. d.at = 0 /\ d.since = n /\ N - c.at + p = p
        BY <1>1, <3>2
      <4>2. DueOf(d, p) = n + interval + p * timeout
        BY <4>1 DEF DueOf
      <4> QED
        BY <4>1, <4>2, Zenon
    <3>3. c.at < N \/ c.at = N
      BY <1>1
    <3> QED
      BY <3>1, <3>2, <3>3, Zenon
  <2>2. DueOf(c, p) = c.since + interval + ((N - c.at + p) + 1) * timeout
    <3>1. N - c.at + 1 + p = (N - c.at + p) + 1 /\ ~(c.at <= p)
      BY <1>1, <1>4
    <3> QED
      BY <3>1 DEF DueOf
  <2>3. N - c.at + p \in Int
    BY <1>1
  <2> QED
    BY <1>1, <1>2, <2>1, <2>2, <2>3
<1> QED
  BY <1>1, <1>3, <1>4

-----------------------------------------------------------------------------
(***************************************************************************)
(* One step of the tracker at an upstream u, and the due time of u's next  *)
(* probe before and after it.  A failure renews the mark that is to be     *)
(* kept, since a marked upstream's count is at the threshold.              *)
(***************************************************************************)
LEMMA TimelyStep ==
  ASSUME HealthInv, CTypeOK, \A v \in Upstreams : Marked(v) => v \in fallen,
         NEW u \in Probed, NEW d \in Int, NEW e \in Int, Timely(u, d),
         now <= d, e <= now + RoundTime,
         \/ Failure(u)
         \/ Success(u) /\ u \notin Dead
         \/ Ask(u) /\ e <= d
         \/ e <= d /\ state'[u] = state[u] /\ streak'[u] = streak[u],
         u \in fallen' <=> u \in fallen \/ Marked(u)'
  PROVE  Timely(u, e)' /\ (Marked(u)' => u \in fallen')
<1>1. /\ now \in Nat /\ u \in Upstreams /\ RoundTime \in Nat /\ streak[u] \in Nat
      /\ state[u] \in UpstreamHealth /\ failure_threshold \in Nat /\ cooldown \in Nat
      /\ MaxStreak \in Nat /\ MaxStreak > failure_threshold
  BY CheckAssumption, TrackerAssumption, StreakAssumption, RoundTyped
  DEF CTypeOK, HTypeOK, TypeOK
<1>2. /\ Marked(u) <=> streak[u] >= EffectiveThreshold
      /\ CountIsCappedStreak(u) /\ MarkIsLastFailure(u)
  BY <1>1, HealthInvParts DEF Kept
<1>3. /\ state \in [Upstreams -> UpstreamHealth]
      /\ streak \in [Upstreams -> Nat]
  BY DEF CTypeOK, HTypeOK, TypeOK
<1>4. ASSUME NEW s \in Int PROVE (s + 1) * RoundTime = s * RoundTime + RoundTime
                                 /\ s * RoundTime \in Int
  BY <1>1
<1>5. CASE Failure(u)
  <2>1. Marked(u)' => state'[u].marked_unhealthy_at = now
    BY <1>1, <1>2, <1>3, <1>5
    DEF Failure, record_failure, Marked, CountIsCappedStreak, EffectiveThreshold, None,
        UpstreamHealth
  <2>2. Marked(u) => Marked(u)'
    BY <1>1, <1>3, <1>5 DEF Failure, record_failure, Marked, None, UpstreamHealth
  <2>3. u \notin fallen => ~Marked(u)
    BY <1>1
  <2>4. ASSUME u \in Dead, u \notin fallen' PROVE e <= (streak'[u] + 1) * RoundTime
    <3>1. u \notin fallen /\ ~Marked(u)
      BY <2>3, <2>4
    <3>2. streak[u] < MaxStreak
      BY <1>1, <1>2, <3>1 DEF EffectiveThreshold
    <3>3. streak'[u] = streak[u] + 1
      BY <1>1, <1>3, <1>5, <3>2 DEF Failure
    <3>4. d <= (streak[u] + 1) * RoundTime
      BY <2>4, <3>1 DEF Timely
    <3>5. /\ streak[u] + 1 \in Int /\ (streak[u] + 1) * RoundTime \in Int
          /\ ((streak[u] + 1) + 1) * RoundTime = (streak[u] + 1) * RoundTime + RoundTime
      BY <1>1, <1>4
    <3>6. e <= (streak[u] + 1) * RoundTime + RoundTime
      BY <1>1, <3>4, <3>5
    <3> QED
      BY <3>3, <3>5, <3>6
  <2>5. ASSUME u \in Dead, u \in fallen', RoundTime < cooldown PROVE Marked(u)'
    BY <2>2, <2>3, <2>5 DEF Timely
  <2>6. state'[u].marked_unhealthy_at = now => e <= state'[u].marked_unhealthy_at + RoundTime
    OBVIOUS
  <2> QED
    BY <2>1, <2>4, <2>5, <2>6 DEF Timely, RoundTime, N
<1>6. CASE Success(u) /\ u \notin Dead
  <2>1. ~Marked(u)'
    BY <1>1, <1>3, <1>6 DEF Success, record_success, Marked, Fresh
  <2> QED
    BY <1>6, <2>1 DEF Timely
<1>7. CASE e <= d /\ state'[u] = state[u] /\ streak'[u] = streak[u]
  <2>1. Marked(u)' <=> Marked(u)
    BY <1>7 DEF Marked
  <2>2. u \in fallen' <=> u \in fallen
    BY <1>1, <2>1
  <2>3. Marked(u) => state[u].marked_unhealthy_at \in Int
    BY <1>1 DEF UpstreamHealth, Marked, None
  <2>4. (streak[u] + 1) * RoundTime \in Int
    BY <1>1, <1>4
  <2> QED
    BY <1>1, <1>7, <2>1, <2>2, <2>3, <2>4 DEF Timely, RoundTime, N
<1>8. CASE Ask(u) /\ e <= d
  <2>1. CASE Marked(u) /\ CooldownExpired(u)
    <3>1. ~Marked(u)'
      BY <1>1, <1>3, <1>8, <2>1 DEF Ask, is_healthy, Marked, Fresh
    <3>2. u \in fallen
      BY <1>1, <2>1
    <3>3. ~(u \in Dead /\ RoundTime < cooldown)
      <4>1. SUFFICES ASSUME u \in Dead, RoundTime < cooldown PROVE FALSE
        OBVIOUS
      <4>2. d <= state[u].marked_unhealthy_at + RoundTime
        BY <3>2, <4>1 DEF Timely
      <4>3. state[u].marked_unhealthy_at \in Int
        BY <1>1 DEF UpstreamHealth, None
      <4> QED
        BY <1>1, <2>1, <4>1, <4>2, <4>3 DEF CooldownExpired
    <3> QED
      BY <3>1, <3>2, <3>3 DEF Timely, RoundTime, N
  <2>2. CASE ~(Marked(u) /\ CooldownExpired(u))
    <3>1. state'[u] = state[u]
      BY <1>8, <2>2 DEF Ask, is_healthy
    <3>2. streak'[u] = streak[u]
      BY <1>1, <1>2, <1>3, <1>8, <2>2
      DEF Ask, FailedOut, CooledDown, CooldownExpired, MarkIsLastFailure
    <3> QED
      BY <1>7, <1>8, <3>1, <3>2
  <2> QED
    BY <2>1, <2>2
<1> QED
  BY <1>5, <1>6, <1>7, <1>8

-----------------------------------------------------------------------------
(* The checker starts asleep, over a tracker without marks, and its list   *)
(* holds every upstream of the file.                                       *)
LEMMA CheckInit == CInit => CheckInv
<1> SUFFICES ASSUME CInit PROVE CheckInv
  OBVIOUS
<1>1. HealthInv /\ HTypeOK
  BY HealthInit DEF CInit, HealthInv
<1>2. CTypeOK
  BY <1>1, RoundTyped DEF CInit, CTypeOK, Checker
<1>3. checker.since <= now /\ now <= Deadline
  BY CheckAssumption DEF CInit, HInit, Init, Deadline, Probing
<1>4. ASSUME NEW u \in Probed PROVE \E p \in 1 .. N : upstreams[p] = u
  <2>1. upstreams \in Injection(1 .. N, Probed)
    BY DEF CInit, Injection, IsInjective
  <2>2. Cardinality(1 .. N) = N
    BY RoundTyped, FS_Interval
  <2>3. upstreams \in Surjection(1 .. N, Probed)
    BY <2>1, <2>2, CheckAssumption, FS_Injection DEF N
  <2> QED
    BY <2>3 DEF Surjection
<1>5. ASSUME NEW u \in Upstreams PROVE ~Marked(u)
  BY DEF CInit, HInit, Init, Marked, Fresh
<1>6. ASSUME NEW p \in 1 .. N PROVE Timely(upstreams[p], DueOf(checker, p))
  <2>1. upstreams[p] \in Upstreams /\ streak[upstreams[p]] = 0
    BY CheckAssumption DEF CInit, HInit
  <2>2. checker \in Checker /\ checker.since = 0 /\ checker.at = 0 /\ fallen = {}
    BY <1>2 DEF CInit, CTypeOK
  <2>3. DueOf(checker, p) \in Int /\ DueOf(checker, p) <= 0 + RoundTime
    BY <2>2, CheckAssumption, DueBounds
  <2>4. (0 + 1) * RoundTime = 0 + RoundTime
    BY RoundTyped
  <2> QED
    BY <1>5, <2>1, <2>2, <2>3, <2>4 DEF Timely
<1> QED
  BY <1>2, <1>3, <1>4, <1>5, <1>6, CheckInvParts

(***************************************************************************)
(* What a step of the checker or of a request does: it is a step of the    *)
(* tracker, or leaves it alone.                                            *)
(***************************************************************************)
LEMMA CheckIsTracker == CTypeOK /\ [CNext]_cvars => [HNext]_hvars
<1> SUFFICES ASSUME CTypeOK, [CNext]_cvars PROVE [HNext]_hvars
  OBVIOUS
<1>1. Probing => upstreams[checker.at] \in Upstreams
  BY CheckAssumption, RoundTyped DEF Probing, CTypeOK, Checker
<1> QED
  BY <1>1
  DEF CNext, cvars, Wake, ProbeOk, ProbeFails, RequestFails, RequestSucceeds, RequestAsks, CTick, HNext

(* The clock, the checker's place and the types, step by step. *)
LEMMA ClockStep ==
  ASSUME HealthInv, CheckInv, [CNext]_cvars, HTypeOK'
  PROVE  /\ CTypeOK'
         /\ checker'.since <= now' /\ now' <= Deadline'
         /\ UNCHANGED upstreams
<1>1. /\ CTypeOK /\ checker.since <= now /\ now <= Deadline
      /\ N \in Nat /\ interval \in Nat /\ timeout \in Nat
      /\ now \in Nat /\ checker.since \in Nat /\ checker.at \in 0 .. N
      /\ state \in [Upstreams -> UpstreamHealth]
  BY CheckAssumption, RoundTyped DEF CheckInv, CTypeOK, HTypeOK, TypeOK, Checker
<1>2. UNCHANGED upstreams /\ fallen' \subseteq Upstreams
  BY <1>1
  DEF CNext, cvars, Wake, ProbeOk, ProbeFails, RequestFails, RequestSucceeds, RequestAsks, CTick,
      Note, CTypeOK
<1>3. ASSUME NEW i \in 1 .. N + 1, GoTo(i), UNCHANGED now
      PROVE  checker' \in Checker /\ checker'.since <= now' /\ now' <= Deadline'
  BY <1>1, <1>3 DEF GoTo, Checker, Deadline, Probing
<1>4. ASSUME UNCHANGED <<checker, now>>
      PROVE  checker' \in Checker /\ checker'.since <= now' /\ now' <= Deadline'
  BY <1>1, <1>4 DEF Deadline, Probing, CTypeOK
<1>5. ASSUME CTick
      PROVE  checker' \in Checker /\ checker'.since <= now' /\ now' <= Deadline'
  <2>1. Deadline \in Int
    BY <1>1 DEF Deadline
  <2>2. Deadline' = Deadline /\ now' = now + 1 /\ now < Deadline /\ checker' = checker
    BY <1>5 DEF CTick, HTick, Tick, Deadline, Probing
  <2> QED
    BY <1>1, <2>1, <2>2 DEF CTypeOK
<1>6. ASSUME Wake \/ ProbeOk \/ ProbeFails
      PROVE  checker' \in Checker /\ checker'.since <= now' /\ now' <= Deadline'
  <2>1. \E i \in 1 .. N + 1 : GoTo(i)
    BY <1>1, <1>6 DEF Wake, ProbeOk, ProbeFails, Probing
  <2> QED
    BY <1>3, <1>6, <2>1 DEF Wake, ProbeOk, ProbeFails, Success, Failure, hvars
<1>7. checker' \in Checker /\ checker'.since <= now' /\ now' <= Deadline'
  BY <1>4, <1>5, <1>6
  DEF CNext, cvars, hvars, RequestFails, RequestSucceeds, RequestAsks, Failure, Success, Ask
<1> QED
  BY <1>1, <1>2, <1>7 DEF CTypeOK

(* A step of the tracker at v leaves the other upstreams alone. *)
LEMMA OthersAlone ==
  ASSUME CTypeOK, NEW v \in Upstreams, NEW u \in Upstreams, u # v,
         Failure(v) \/ Success(v) \/ Ask(v)
  PROVE  state'[u] = state[u] /\ streak'[u] = streak[u]
BY DEF Failure, Success, Ask, record_failure, record_success, is_healthy, CTypeOK, HTypeOK, TypeOK

(* A probe or a question that comes in time keeps every upstream in time. *)
LEMMA TimelyAll ==
  ASSUME HealthInv, CheckInv, [CNext]_cvars,
         CTypeOK', checker'.since <= now', now' <= Deadline', UNCHANGED upstreams
  PROVE  /\ \A u \in Upstreams : (Marked(u) => u \in fallen)'
         /\ \A p \in 1 .. N : Timely(upstreams[p], DueOf(checker, p))'
<1>1. /\ CTypeOK /\ checker.since <= now /\ now <= Deadline
      /\ \A u \in Upstreams : Marked(u) => u \in fallen
      /\ \A p \in 1 .. N : Timely(upstreams[p], DueOf(checker, p))
  BY CheckInvParts
<1>2. /\ N \in Nat /\ interval \in Nat /\ timeout \in Nat /\ Probed \subseteq Upstreams
      /\ now \in Nat /\ now' \in Nat /\ checker \in Checker /\ checker' \in Checker
      /\ checker.at \in 0 .. N /\ checker.since \in Nat
      /\ \A p \in 1 .. N : upstreams[p] \in Probed
  BY <1>1, CheckAssumption, RoundTyped DEF CTypeOK, HTypeOK, TypeOK, Checker
<1>3. ASSUME NEW p \in 1 .. N
      PROVE  DueOf(checker, p) \in Int /\ now <= DueOf(checker, p)
  BY <1>1, <1>2, DueBounds DEF Deadline, Probing
<1>4. ASSUME NEW p \in 1 .. N
      PROVE  DueOf(checker', p) \in Int /\ DueOf(checker', p) <= now' + RoundTime
  BY <1>2, DueBounds DEF Deadline, Probing
(* The steps that leave the tracker alone. *)
<1>5. ASSUME UNCHANGED <<state, streak, fallen>>,
             \A p \in 1 .. N : DueOf(checker', p) = DueOf(checker, p)
      PROVE  /\ \A u \in Upstreams : (Marked(u) => u \in fallen)'
             /\ \A p \in 1 .. N : Timely(upstreams[p], DueOf(checker, p))'
  <2>1. \A p \in 1 .. N : DueOf(checker, p)' = DueOf(checker, p)
    BY <1>5 DEF DueOf, N
  <2> QED
    BY <1>1, <1>5, <2>1 DEF Timely, Marked, RoundTime, N
(* The steps at one upstream. *)
<1>6. ASSUME NEW v \in Upstreams, Note, UNCHANGED now,
             \/ Failure(v)
             \/ Success(v) /\ v \notin Dead
             \/ Ask(v) /\ UNCHANGED checker,
             \A p \in 1 .. N : upstreams[p] # v => DueOf(checker', p) <= DueOf(checker, p)
      PROVE  /\ \A u \in Upstreams : (Marked(u) => u \in fallen)'
             /\ \A p \in 1 .. N : Timely(upstreams[p], DueOf(checker, p))'
  <2>1. ASSUME NEW u \in Upstreams PROVE u \in fallen' <=> u \in fallen \/ Marked(u)'
    BY <1>6 DEF Note, Marked
  <2>2. ASSUME NEW p \in 1 .. N PROVE Timely(upstreams[p], DueOf(checker, p))'
    <3>0. PICK u \in Probed, d \in Int, e \in Int :
            u = upstreams[p] /\ d = DueOf(checker, p) /\ e = DueOf(checker', p)
      BY <1>2, <1>3, <1>4
    <3>1. /\ u \in Upstreams /\ Timely(u, d)
          /\ now <= d /\ e <= now + RoundTime
          /\ u \in fallen' <=> u \in fallen \/ Marked(u)'
      BY <1>1, <1>2, <1>3, <1>4, <1>6, <2>1, <3>0
    <3>2. \/ Failure(u)
          \/ Success(u) /\ u \notin Dead
          \/ Ask(u) /\ e <= d
          \/ e <= d /\ state'[u] = state[u] /\ streak'[u] = streak[u]
      <4>1. CASE u = v
        <5>1. CASE UNCHANGED checker
          BY <1>6, <3>0, <4>1, <5>1
        <5> QED
          BY <1>6, <4>1, <5>1
      <4>2. CASE u # v
        <5>1. e <= d
          BY <1>6, <3>0, <4>2
        <5>2. state'[u] = state[u] /\ streak'[u] = streak[u]
          BY <1>1, <1>6, <3>1, <4>2, OthersAlone
        <5> QED
          BY <5>1, <5>2
      <4> QED
        BY <4>1, <4>2
    <3>3. Timely(u, e)'
      BY <1>1, <3>1, <3>2, TimelyStep
    <3>4. upstreams'[p] = u /\ DueOf(checker, p)' = e
      BY <3>0 DEF DueOf, N
    <3> QED
      BY <3>3, <3>4 DEF Timely
  <2> QED
    BY <2>1, <2>2
<1>7. CASE Wake
  <2>1. ASSUME NEW p \in 1 .. N PROVE DueOf(checker', p) = DueOf(checker, p)
    <3>1. checker' = [at |-> 1, since |-> checker.since + interval] /\ checker.at = 0
      BY <1>2, <1>7 DEF Wake, GoTo, Deadline, Probing
    <3> QED
      BY <1>2, <3>1, DueWakes
  <2> QED
    BY <1>5, <1>7, <2>1 DEF Wake, hvars
<1>8. CASE ProbeOk \/ ProbeFails
  <2> DEFINE v == upstreams[checker.at]
  <2>1. checker.at # 0 /\ v \in Upstreams /\ UNCHANGED now /\ Note
        /\ now <= checker.since + timeout
    BY <1>1, <1>2, <1>8 DEF ProbeOk, ProbeFails, Probing, Success, Failure, Deadline
  <2>2. checker' = [at |-> IF checker.at + 1 <= N THEN checker.at + 1 ELSE 0, since |-> now]
    BY <1>8 DEF ProbeOk, ProbeFails, GoTo
  <2>3. ASSUME NEW p \in 1 .. N, upstreams[p] # v
        PROVE  DueOf(checker', p) <= DueOf(checker, p)
    BY <1>2, <2>1, <2>2, <2>3, DueMoves
  <2>4. Failure(v) \/ (Success(v) /\ v \notin Dead)
    BY <1>8 DEF ProbeOk, ProbeFails
  <2> HIDE DEF v
  <2> QED
    BY <1>6, <2>1, <2>3, <2>4
<1>9. CASE \E u \in Upstreams : RequestFails(u) \/ RequestSucceeds(u) \/ RequestAsks(u)
  <2>1. PICK v \in Upstreams : RequestFails(v) \/ RequestSucceeds(v) \/ RequestAsks(v)
    BY <1>9
  <2>2. /\ Note /\ UNCHANGED now /\ checker' = checker
        /\ \/ Failure(v)
           \/ Success(v) /\ v \notin Dead
           \/ Ask(v) /\ UNCHANGED checker
    BY <2>1 DEF RequestFails, RequestSucceeds, RequestAsks, Failure, Success, Ask
  <2>3. \A p \in 1 .. N : DueOf(checker', p) <= DueOf(checker, p)
    BY <1>3, <2>2
  <2> QED
    BY <1>6, <2>2, <2>3
<1>10. CASE CTick \/ UNCHANGED cvars
  <2>1. UNCHANGED <<state, streak, fallen>> /\ checker' = checker
    BY <1>10 DEF CTick, HTick, cvars, hvars
  <2> QED
    BY <1>5, <2>1
<1> QED
  BY <1>7, <1>8, <1>9, <1>10 DEF CNext

LEMMA CheckStep == HealthInv /\ CheckInv /\ [CNext]_cvars => HealthInv' /\ CheckInv'
<1> SUFFICES ASSUME HealthInv, CheckInv, [CNext]_cvars PROVE HealthInv' /\ CheckInv'
  OBVIOUS
<1>1. CTypeOK /\ \A u \in Probed : \E p \in 1 .. N : upstreams[p] = u
  BY DEF CheckInv
<1>2. HealthInv'
  BY <1>1, CheckIsTracker, HealthStep
<1>3. HTypeOK'
  BY <1>2 DEF HealthInv
<1>4. CTypeOK' /\ checker'.since <= now' /\ now' <= Deadline' /\ UNCHANGED upstreams
  BY <1>3, ClockStep
<1>5. /\ \A u \in Upstreams : (Marked(u) => u \in fallen)'
      /\ \A p \in 1 .. N : Timely(upstreams[p], DueOf(checker, p))'
  BY <1>4, TimelyAll
<1>6. (\A u \in Probed : \E p \in 1 .. N : upstreams[p] = u)'
  BY <1>1, <1>4 DEF N
<1> QED
  BY <1>2, <1>4, <1>5, <1>6 DEF CheckInv, InTime, Due, Timely, DueOf, Probing, RoundTime, N

(***************************************************************************)
(* The checker's probes, the sleeps between them and the requests at the   *)
(* same tracker keep CheckInv, and HealthInv with it: the promises of      *)
(* health.rs hold under the checker as well.                               *)
(***************************************************************************)
THEOREM CheckInvariant == CSpec => [](HealthInv /\ CheckInv)
<1>1. CInit => HealthInv
  BY HealthInit DEF CInit
<1> QED
  BY <1>1, CheckInit, CheckStep, PTL DEF CSpec

(***************************************************************************)
(* The tracker under the checker is the tracker called by anybody.         *)
(***************************************************************************)
THEOREM CheckImplementsHistory == CSpec => HSpec
<1>1. CInit => HInit
  BY DEF CInit
<1>2. CheckInv => CTypeOK
  BY DEF CheckInv
<1> QED
  BY <1>1, <1>2, CheckIsTracker, CheckInvariant, PTL DEF CSpec, HSpec

(* The time left: what CheckInv says of an upstream, without the places. *)
LEMMA InTimeNow ==
  ASSUME CheckInv, NEW u \in Probed
  PROVE  \E d \in Int : Timely(u, d) /\ now <= d
<1>1. PICK p \in 1 .. N : upstreams[p] = u
  BY DEF CheckInv
<1>2. DueOf(checker, p) \in Int /\ now <= DueOf(checker, p)
  BY DueBounds DEF CheckInv, CTypeOK, HTypeOK, TypeOK, Deadline, Probing
<1> QED
  BY <1>1, <1>2, CheckInvParts

(***************************************************************************)
(* health_check.rs:52 - a dead upstream that has fallen once stays out.    *)
(***************************************************************************)
LEMMA StaysOut == CheckInv => DeadStaysOut
<1> SUFFICES ASSUME CheckInv, RoundTime < cooldown, NEW u \in Dead \cap fallen PROVE ~Healthy(u)
  BY DEF DeadStaysOut
<1>1. u \in Probed /\ u \in Upstreams
  BY CheckAssumption
<1>2. PICK d \in Int : Timely(u, d) /\ now <= d
  BY <1>1, InTimeNow
<1>3. Marked(u) /\ d <= state[u].marked_unhealthy_at + RoundTime
  BY <1>2 DEF Timely
<1>4. state[u].marked_unhealthy_at \in Int /\ now \in Nat
  BY <1>1 DEF CheckInv, CTypeOK, HTypeOK, TypeOK, UpstreamHealth, None
<1> QED
  BY <1>2, <1>3, <1>4, RoundTyped, TrackerAssumption DEF Healthy, CooldownExpired

(***************************************************************************)
(* health_check.rs:52 - with rounds shorter than the cooldown, a dead      *)
(* upstream that has fallen once is not reported healthy again.            *)
(***************************************************************************)
THEOREM StaysOutTheorem == CSpec => []DeadStaysOut
BY StaysOut, CheckInvariant, PTL

(***************************************************************************)
(* health_check.rs:57 - a mark on an upstream that answers its probes is   *)
(* never older than a round.                                               *)
(***************************************************************************)
THEOREM BackTheorem == CSpec => []BackWithinARound
<1>1. ASSUME CheckInv, NEW u \in Alive, Marked(u)
      PROVE  now - state[u].marked_unhealthy_at <= RoundTime
  <2>1. u \in Probed /\ u \in Upstreams
    BY CheckAssumption
  <2>2. PICK d \in Int : Timely(u, d) /\ now <= d
    BY <1>1, <2>1, InTimeNow
  <2>3. d <= state[u].marked_unhealthy_at + RoundTime
    BY <1>1, <2>2 DEF Timely
  <2>4. state[u].marked_unhealthy_at \in Int /\ now \in Nat
    BY <1>1, <2>1 DEF CheckInv, CTypeOK, HTypeOK, TypeOK, UpstreamHealth, None
  <2> QED
    BY <2>2, <2>3, <2>4, RoundTyped
<1>2. CheckInv => BackWithinARound
  BY <1>1 DEF BackWithinARound
<1> QED
  BY <1>2, CheckInvariant, PTL

(***************************************************************************)
(* health_check.rs:49 - without a single request, a dead upstream is out   *)
(* after as many rounds as the threshold counts.                           *)
(***************************************************************************)
THEOREM DetectionTheorem == CSpec => []DetectedInTime
<1>1. ASSUME HealthInv, CheckInv, RoundTime < cooldown, now > failure_threshold * RoundTime,
             now > RoundTime, NEW u \in Dead
      PROVE  ~Healthy(u)
  <2>1. u \in Probed /\ u \in Upstreams
    BY CheckAssumption
  <2>2. CASE u \in fallen
    BY <1>1, <2>2, StaysOut DEF DeadStaysOut
  <2>3. CASE u \notin fallen
    <3>1. PICK d \in Int : Timely(u, d) /\ now <= d
      BY <1>1, <2>1, InTimeNow
    <3>2. d <= (streak[u] + 1) * RoundTime
      BY <2>3, <3>1 DEF Timely
    <3>3. ~Marked(u) /\ streak[u] \in Nat /\ now \in Nat
      BY <1>1, <2>1, <2>3 DEF CheckInv, CTypeOK, HTypeOK, TypeOK
    <3>4. streak[u] < EffectiveThreshold
      BY <1>1, <2>1, <3>3, TrackerAssumption
      DEF HealthInv, MarkedExactlyAtThreshold, FailedOut, EffectiveThreshold
    <3>5. streak[u] + 1 <= EffectiveThreshold /\ EffectiveThreshold \in Nat
      BY <3>3, <3>4, TrackerAssumption DEF EffectiveThreshold
    <3>6. /\ (streak[u] + 1) * RoundTime <= EffectiveThreshold * RoundTime
          /\ (streak[u] + 1) * RoundTime \in Int /\ EffectiveThreshold * RoundTime \in Int
      BY <3>3, <3>5, RoundTyped, Times
    <3>7. now <= EffectiveThreshold * RoundTime
      BY <3>1, <3>2, <3>3, <3>6
    <3>8. now > EffectiveThreshold * RoundTime
      BY <1>1, RoundTyped DEF EffectiveThreshold
    <3> QED
      BY <3>3, <3>6, <3>7, <3>8
  <2> QED
    BY <2>2, <2>3
<1>2. HealthInv /\ CheckInv => DetectedInTime
  BY <1>1 DEF DetectedInTime
<1> QED
  BY <1>2, CheckInvariant, PTL
=============================================================================
