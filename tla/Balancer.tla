------------------------------ MODULE Balancer ------------------------------
(***************************************************************************)
(* What the balancers of src/src/balancer.rs that keep counters have in    *)
(* common: the pool that create_balancer is given, and the arithmetic of   *)
(* AtomicUsize, whose fetch_add and fetch_sub wrap around.                 *)
(***************************************************************************)
EXTENDS Integers

CONSTANTS
  pool_size,  \* the number of upstreams of the route
  USIZE       \* 2^64, the modulus of AtomicUsize

ASSUME BalancerAssumption == {pool_size, USIZE} \subseteq Nat \ {0}

Pool == 0 .. pool_size - 1

fetch_add(n) == (n + 1) % USIZE
fetch_sub(n) == (n - 1) % USIZE
=============================================================================
