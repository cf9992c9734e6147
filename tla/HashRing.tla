------------------------------ MODULE HashRing ------------------------------
(***************************************************************************)
(* The consistent-hash balancer, src/src/balancer.rs, over the pools that  *)
(* reloads give it.  A virtual node is keyed by the upstream's place in    *)
(* the route and a replica number, never by its name; its hash is any      *)
(* value, the same for every ring, and hashes may collide.  The keys are   *)
(* the request paths, each of them its hash.                               *)
(***************************************************************************)
EXTENDS Integers, FiniteSets

CONSTANTS
  MaxPool,   \* bound: the largest pool
  replicas,  \* virtual nodes for each upstream (150 in create_balancer)
  H          \* hash values are 0 .. H - 1 (2^64)

ASSUME HashRingAssumption == {MaxPool, replicas, H} \subseteq Nat \ {0}

Hashes == 0 .. H - 1
VNodes(n) == (0 .. n - 1) \X (0 .. replicas - 1)

VARIABLES
  hash,  \* hash_key on the keys of the virtual nodes
  size,  \* the number of upstreams of the route
  ring   \* ConsistentHash.ring

ringvars == <<hash, size, ring>>

-----------------------------------------------------------------------------
(* Vnode v is pushed before w: upstream by upstream, replica by replica. *)
Before(v, w) == v[1] < w[1] \/ (v[1] = w[1] /\ v[2] < w[2])

(* sort_by_key is stable: by hash, and among equal hashes as pushed. *)
Rank(h, n, v) == Cardinality({w \in VNodes(n) : h[w] < h[v] \/ (h[w] = h[v] /\ Before(w, v))})

(* Mutant of New: the upstreams are numbered from the last. *)
New_from_the_last(h, n) ==
  [p \in 0 .. n * replicas - 1 |->
     LET v == CHOOSE w \in VNodes(n) : Rank(h, n, w) = p
     IN [hash |-> h[v], index |-> n - 1 - v[1]]]

(* ConsistentHash::new: the sorted vector of (hash, upstream index). *)
New(h, n) ==
  [p \in 0 .. n * replicas - 1 |->
     LET v == CHOOSE w \in VNodes(n) : Rank(h, n, w) = p
     IN [hash |-> h[v], index |-> v[1]]]

(* binary_search_by_key: the places that hold the hash, any of which it    *)
(* may return; where there is none, the place to insert it.                *)
Found(key) == {p \in DOMAIN ring : ring[p].hash = key}
InsertPlace(key) == Cardinality({p \in DOMAIN ring : ring[p].hash < key})

(* Mutant of next_index_for_key: no wrap-around but the last entry. *)
next_index_for_key_no_wrap(key) ==
  IF Found(key) # {} THEN {ring[p].index : p \in Found(key)}
  ELSE IF InsertPlace(key) >= Cardinality(DOMAIN ring)
    THEN {ring[InsertPlace(key) - 1].index}
    ELSE {ring[InsertPlace(key)].index}

(* The upstream indices it may return for a key. *)
next_index_for_key(key) ==
  IF Found(key) # {} THEN {ring[p].index : p \in Found(key)}
  ELSE IF InsertPlace(key) >= Cardinality(DOMAIN ring)
    THEN {ring[0].index}
    ELSE {ring[InsertPlace(key)].index}

-----------------------------------------------------------------------------
RingInit ==
  /\ hash \in [VNodes(MaxPool) -> Hashes]
  /\ size \in 1 .. MaxPool
  /\ ring = New(hash, size)

(* A reload with a pool of another size builds a new ring. *)
Resize(n) ==
  /\ n # size
  /\ size' = n
  /\ ring' = New(hash, n)
  /\ UNCHANGED hash

RingNext == \E n \in 1 .. MaxPool : Resize(n)

RingSpec == RingInit /\ [][RingNext]_ringvars

-----------------------------------------------------------------------------
(* How far it is from the key clockwise to the nearest vnode of upstream i. *)
Distance(key, i) ==
  LET away == {(hash[<<i, r>>] - key) % H : r \in 0 .. replicas - 1}
  IN CHOOSE d \in away : \A e \in away : d <= e

(***************************************************************************)
(* balancer.rs:153 - the search of the sorted vector, its insertion point  *)
(* and the wrap-around amount to consistent hashing: a key goes to an      *)
(* upstream that owns the nearest virtual node clockwise, and to one only  *)
(* unless virtual nodes of several collide with the key itself.            *)
(***************************************************************************)
NearestClockwise ==
  \A key \in Hashes :
    LET to == next_index_for_key(key) IN
    /\ to # {}
    /\ \A i \in to, j \in 0 .. size - 1 : Distance(key, i) <= Distance(key, j)
    /\ Cardinality(to) > 1 => \A i \in to : Distance(key, i) = 0

(***************************************************************************)
(* balancer.rs:131 - growing or shrinking a pool at its end disturbs only  *)
(* the keys of the upstreams that come or go: a key that has a place among *)
(* the upstreams that stay, before and after, has the same place, the      *)
(* choice between colliding virtual nodes included.                        *)
(***************************************************************************)
OnlyTheEndMoves ==
  [][\A key \in Hashes :
       LET stay == 0 .. (IF size < size' THEN size ELSE size') - 1
           before == next_index_for_key(key)
           after == next_index_for_key(key)'
       IN (before \cap stay # {} /\ after \cap stay # {}) => before \cap stay = after \cap stay]_ringvars
=============================================================================
