----------------------------- MODULE RoundRobin -----------------------------
(***************************************************************************)
(* The two round-robin balancers, src/src/balancer.rs, as create_balancer  *)
(* builds them from a route of the configuration: nothing checks that the  *)
(* weights are as many as the upstreams, or that one of them is positive.  *)
(* A call is one fetch_add, so the calls of all requests are in one order. *)
(***************************************************************************)
EXTENDS Balancer, SequencesExt, FiniteSetsExt

CONSTANTS
  MaxWeights,  \* bound: the longest list of weights in the file
  MaxWeight    \* bound: the largest weight in it

ASSUME RoundRobinAssumption == {MaxWeights, MaxWeight} \subseteq Nat

VARIABLES
  strategy,  \* the route's strategy: one of the two
  weights,   \* the route's weights: Option<Vec<u32>>
  counter,   \* the AtomicUsize
  recent     \* history: the upstreams tried first by the latest calls

rrvars == <<strategy, weights, counter, recent>>

(* Option::None, told apart by a number that is no u32. *)
NoWeights == <<-1>>

RRInit ==
  /\ strategy \in {"round_robin", "weighted_round_robin"}
  /\ weights \in {NoWeights} \cup UNION {[1 .. n -> 0 .. MaxWeight] : n \in 0 .. MaxWeights}
  /\ counter = 0
  /\ recent = <<>>

-----------------------------------------------------------------------------
(* weights.unwrap_or(&default_weights) *)
Effective == IF weights = NoWeights THEN [i \in 1 .. pool_size |-> 1] ELSE weights

(* Mutant of Schedule: for _ in 0..=w *)
Schedule_inclusive(w) ==
  FlattenSeq([i \in 1 .. Len(w) |-> [n \in 1 .. w[i] + 1 |-> i - 1]])

(* WeightedRoundRobin::new: index i - 1, w[i] times. *)
Schedule(w) == FlattenSeq([i \in 1 .. Len(w) |-> [n \in 1 .. w[i] |-> i - 1]])

(* What next_index cycles through: the indices, or the schedule. *)
Cycle ==
  IF strategy = "round_robin" THEN [i \in 1 .. pool_size |-> i - 1]
                              ELSE Schedule(Effective)

(* next_index; the request then begins with the upstream at that index     *)
(* modulo the pool.  An empty schedule panics after the fetch_add.         *)
next_index ==
  /\ counter' = fetch_add(counter)
  /\ recent' = IF Cycle = <<>> THEN <<>>
               ELSE LET index == Cycle[(counter % Len(Cycle)) + 1]
                        tried == Append(recent, index % pool_size)
                    IN IF Len(tried) > Len(Cycle) THEN Tail(tried) ELSE tried
  /\ UNCHANGED <<strategy, weights>>

RRNext == next_index

RRSpec == RRInit /\ [][RRNext]_rrvars

-----------------------------------------------------------------------------
(* What the file asks for upstream u, computed from the weights alone: its *)
(* own weight and, where there are more weights than upstreams, those that *)
(* come round to it.                                                       *)
Share(u) ==
  IF strategy = "round_robin" THEN 1
  ELSE LET mine == {i \in 1 .. Len(Effective) : (i - 1) % pool_size = u}
       IN SumFunctionOnSet(Effective, mine)

Times(u) == Cardinality({i \in 1 .. Len(recent) : recent[i] = u})

(* The latest calls, one for each entry of the cycle, are on one lap of    *)
(* the counter, or the cycle fits in a lap without remainder.  (A lap is   *)
(* no shorter than the cycle: the length of a Vec is a usize.)             *)
WholeLap ==
  /\ Len(Cycle) <= USIZE
  /\ counter = 0 \/ counter >= Len(Cycle) \/ USIZE % Len(Cycle) = 0

(***************************************************************************)
(* balancer.rs:112 - the shares are kept at every moment, not only at the  *)
(* end of a cycle: of any calls in a row, as many as the cycle is long,    *)
(* each upstream is the first choice of its share, unless the counter has  *)
(* wrapped in between.                                                     *)
(***************************************************************************)
SharesInEveryWindow ==
  (Cycle # <<>> /\ Len(recent) = Len(Cycle) /\ WholeLap)
    => \A u \in Pool : Times(u) = Share(u)
=============================================================================
