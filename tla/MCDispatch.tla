----------------------------- MODULE MCDispatch -----------------------------
(***************************************************************************)
(* The steps that take a request to an upstream: its route and path, the   *)
(* choice of each balancer, and the wait before a retry.  They keep no     *)
(* state in common, so one run explores each of them by itself: `part'     *)
(* says which, and the others stay in one of their initial states.         *)
(*                                                                         *)
(* Every list of up to four weights for three upstreams, and a counter     *)
(* that wraps, with a remainder for most cycles.  Four requests on three   *)
(* upstreams: a scan can be disturbed before and behind its index.  Every  *)
(* hash of up to three upstreams' virtual nodes, two each, to four values, *)
(* so that they collide in all ways.  Every base of a backoff of five bits,*)
(* and retries past the width of the shift.                                *)
(***************************************************************************)
EXTENDS MCRouter, RoundRobin, LeastConnections, HashRing, RetryBackoff, TLC

VARIABLE part

Parts == {"router", "round_robin", "least_connections", "hash_ring", "backoff"}

MCInit ==
  /\ part \in Parts
  /\ part # "router" => routes = <<>> /\ path = <<>> /\ query = <<>>
  /\ part # "round_robin" => strategy = "round_robin" /\ weights = NoWeights
  /\ part # "hash_ring" => size = 1 /\ hash = [v \in VNodes(MaxPool) |-> 0]
  /\ part # "backoff" => backoff_base_ms = 0
  /\ PathInit /\ RRInit /\ LCInit /\ RingInit /\ BackoffInit

MCNext ==
  /\ UNCHANGED part
  /\ \/ part = "router" /\ PathNext /\ UNCHANGED <<rrvars, lcvars, ringvars, backoffvars>>
     \/ part = "round_robin" /\ RRNext /\ UNCHANGED <<pathvars, lcvars, ringvars, backoffvars>>
     \/ part = "least_connections" /\ LCNext /\ UNCHANGED <<pathvars, rrvars, ringvars, backoffvars>>
     \/ part = "hash_ring" /\ RingNext /\ UNCHANGED <<pathvars, rrvars, lcvars, backoffvars>>
     \/ part = "backoff" /\ BackoffNext /\ UNCHANGED <<pathvars, rrvars, lcvars, ringvars>>

MCSpec == MCInit /\ [][MCNext]_<<part, pathvars, rrvars, lcvars, ringvars, backoffvars>>

RequestSymmetry == Permutations(Requests)
=============================================================================
