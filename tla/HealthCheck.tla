----------------------------- MODULE HealthCheck -----------------------------
(***************************************************************************)
(* The active health checker, src/src/health_check.rs, on the tracker it   *)
(* shares with the requests: a task that sleeps for the interval and then  *)
(* probes its upstreams one after the other, each until it answers or the  *)
(* client's timeout ends it.  Timers are taken to fire when they are due   *)
(* and the task to run when it can: the clock does not pass a deadline.    *)
(***************************************************************************)
EXTENDS HealthHistory, FiniteSets

CONSTANTS
  interval,  \* HealthCheckConfig.interval_secs
  timeout,   \* HealthCheckConfig.timeout_secs
  Probed,    \* the upstreams in the file at the start; a reload may bring others
  Dead,      \* environment: upstreams that answer no probe and no request well
  Alive      \* environment: upstreams that answer every probe well

ASSUME CheckAssumption ==
  /\ Probed \subseteq Upstreams
  /\ IsFiniteSet(Probed)
  /\ interval \in Nat
  /\ timeout \in Nat
  /\ Dead \subseteq Probed
  /\ Alive \subseteq Probed \ Dead

VARIABLES
  upstreams,  \* the Vec of upstreams collected at the start, in its order
  checker,    \* where the task is, and since when
  fallen      \* history: the upstreams that have been marked at some time

cvars == <<hvars, upstreams, checker, fallen>>

N == Cardinality(Probed)

Checker == [at : 0 .. N, since : Nat]

(* The HashSet's iteration puts the upstreams in some order. *)
CInit ==
  /\ HInit
  /\ upstreams \in {s \in [1 .. N -> Probed] : \A i, j \in 1 .. N : s[i] = s[j] => i = j}
  /\ checker = [at |-> 0, since |-> 0]
  /\ fallen = {}

CTypeOK ==
  /\ HTypeOK
  /\ upstreams \in [1 .. N -> Probed]
  /\ checker \in Checker
  /\ fallen \subseteq Upstreams

-----------------------------------------------------------------------------
Probing == checker.at # 0
Deadline == checker.since + IF Probing THEN timeout ELSE interval

(* Mutant of GoTo: the last upstream of a round is left out. *)
GoTo_short(i) == checker' = [at |-> IF i < N THEN i ELSE 0, since |-> now]

(* The task goes on to probe i, or to the sleep when the round is over. *)
GoTo(i) == checker' = [at |-> IF i <= N THEN i ELSE 0, since |-> now]

(* Every step notes who is marked after it. *)
Note == fallen' = fallen \cup {u \in Upstreams : state'[u].marked_unhealthy_at # None}

(* The sleep is over and a round begins. *)
Wake ==
  /\ ~Probing
  /\ now = Deadline
  /\ GoTo(1)
  /\ UNCHANGED <<hvars, upstreams, fallen>>

(* Mutant of ProbeOk: a good answer is not recorded. *)
ProbeOk_unrecorded ==
  /\ Probing
  /\ upstreams[checker.at] \notin Dead
  /\ GoTo(checker.at + 1)
  /\ UNCHANGED <<hvars, upstreams, fallen>>

ProbeOk ==
  /\ Probing
  /\ upstreams[checker.at] \notin Dead
  /\ Success(upstreams[checker.at])
  /\ GoTo(checker.at + 1)
  /\ Note
  /\ UNCHANGED upstreams

(* Mutant of ProbeFails: a failed probe ends the round. *)
ProbeFails_ends_round ==
  /\ Probing
  /\ upstreams[checker.at] \notin Alive
  /\ Failure(upstreams[checker.at])
  /\ GoTo(N + 1)
  /\ Note
  /\ UNCHANGED upstreams

(* A bad status, a failed connection, or the timeout. *)
ProbeFails ==
  /\ Probing
  /\ upstreams[checker.at] \notin Alive
  /\ Failure(upstreams[checker.at])
  /\ GoTo(checker.at + 1)
  /\ Note
  /\ UNCHANGED upstreams

(* The requests at the same tracker: any of them may fail, whatever the    *)
(* probes say, and they ask before they choose an upstream.                *)
RequestFails(u) ==
  /\ Failure(u)
  /\ Note
  /\ UNCHANGED <<upstreams, checker>>

RequestSucceeds(u) ==
  /\ u \notin Dead
  /\ Success(u)
  /\ Note
  /\ UNCHANGED <<upstreams, checker>>

RequestAsks(u) ==
  /\ Ask(u)
  /\ Note
  /\ UNCHANGED <<upstreams, checker>>

CTick ==
  /\ now < Deadline
  /\ HTick
  /\ UNCHANGED <<upstreams, checker, fallen>>

CNext ==
  \/ Wake \/ ProbeOk \/ ProbeFails
  \/ \E u \in Upstreams : RequestFails(u) \/ RequestSucceeds(u) \/ RequestAsks(u)
  \/ CTick

CSpec == CInit /\ [][CNext]_cvars

-----------------------------------------------------------------------------
(* The longest a round can take with its sleep: the probes are sequential, *)
(* and each upstream that hangs holds up the others for the timeout.       *)
RoundTime == interval + N * timeout

(***************************************************************************)
(* health_check.rs:52 - where a whole round, every upstream hanging, is    *)
(* shorter than the cooldown, a dead upstream that has fallen once is not  *)
(* handed out again by an expired cooldown: the next failed probe always   *)
(* renews the mark in time.                                                *)
(***************************************************************************)
DeadStaysOut ==
  RoundTime < cooldown => \A u \in Dead \cap fallen : ~Healthy(u)

(***************************************************************************)
(* health_check.rs:57 - an upstream that answers its probes is not kept    *)
(* out for the cooldown by failed requests: a mark on it is never older    *)
(* than a round, however the others hang.                                  *)
(***************************************************************************)
BackWithinARound ==
  \A u \in Alive : Marked(u) => now - state[u].marked_unhealthy_at <= RoundTime

(***************************************************************************)
(* health_check.rs:49 - proactive detection: without a single request, a   *)
(* dead upstream is out after as many rounds as the threshold counts.      *)
(***************************************************************************)
DetectedInTime ==
  (RoundTime < cooldown /\ now > failure_threshold * RoundTime /\ now > RoundTime)
    => \A u \in Dead : ~Healthy(u)

(***************************************************************************)
(* The inductive invariant, with HealthInv: the next probe of the upstream *)
(* in place p is over when it is due, at the latest.  Where a mark is to   *)
(* be cleared or renewed by a probe, that probe is due within a round of   *)
(* the mark; and a dead upstream not marked yet is probed once more in     *)
(* every round, so that its streak grows with the rounds.                  *)
(***************************************************************************)
Due(p) ==
  IF ~Probing THEN checker.since + interval + p * timeout
  ELSE IF checker.at <= p THEN checker.since + (p - checker.at + 1) * timeout
  ELSE checker.since + interval + (N - checker.at + 1 + p) * timeout

InTime(p) == Due(p) <= state[upstreams[p]].marked_unhealthy_at + RoundTime

CheckInv ==
  /\ CTypeOK
  /\ checker.since <= now /\ now <= Deadline
  /\ \A u \in Probed : \E p \in 1 .. N : upstreams[p] = u
  /\ \A u \in Upstreams : Marked(u) => u \in fallen
  /\ \A p \in 1 .. N :
       LET u == upstreams[p] IN
       /\ (u \in Alive /\ Marked(u)) => InTime(p)
       /\ (u \in Dead /\ u \in fallen /\ RoundTime < cooldown) => Marked(u) /\ InTime(p)
       /\ (u \in Dead /\ u \notin fallen) => Due(p) <= (streak[u] + 1) * RoundTime
=============================================================================
