-------------------------- MODULE LeastConnections --------------------------
(***************************************************************************)
(* The least-connections balancer, src/src/balancer.rs: an atomic counter  *)
(* per upstream and a scan that loads them one by one, while the other     *)
(* requests of the route start and finish on any upstream.  A load and a   *)
(* fetch_add or fetch_sub is a step each; nothing is locked.               *)
(*                                                                         *)
(* A request picks, starts on the pick or, when health says so, elsewhere, *)
(* and may try another upstream after a failure.  A task that is dropped   *)
(* in the middle of an attempt never records its end.                      *)
(***************************************************************************)
EXTENDS Balancer, FiniteSets

CONSTANTS
  Requests,   \* request tasks; each serves one request after the other
  MaxChanges  \* bound: the changes that may fall into one scan

ASSUME LeastAssumption ==
  /\ IsFiniteSet(Requests)
  /\ USIZE > Cardinality(Requests)
  /\ MaxChanges \in Nat

VARIABLES
  active,   \* LeastConnections.active
  task,     \* each request: where it is, and on which upstream
  scan,     \* the locals of its next_index: i, min_idx, min_val
  changes   \* history: starts and ends of others since its scan began

lcvars == <<active, task, scan, changes>>

Task == [pc : {"new", "scan", "ready", "active", "dropped"}, index : Pool]
Scan == [i : 0 .. pool_size, min_idx : Pool, min_val : 0 .. USIZE - 1]

(* A request that is not there yet, and locals that are out of scope. *)
NoTask == [pc |-> "new", index |-> 0]
NoScan == [i |-> 0, min_idx |-> 0, min_val |-> 0]

LCInit ==
  /\ active = [k \in Pool |-> 0]
  /\ task = [r \in Requests |-> NoTask]
  /\ scan = [r \in Requests |-> NoScan]
  /\ changes = [r \in Requests |-> 0]

LCTypeOK ==
  /\ active \in [Pool -> 0 .. USIZE - 1]
  /\ task \in [Requests -> Task]
  /\ scan \in [Requests -> Scan]
  /\ changes \in [Requests -> Nat]

-----------------------------------------------------------------------------
Scanning(r) == task[r].pc = "scan"

(* Mutant of Begin: the minimum starts from zero, not from a load. *)
Begin_from_zero(r) ==
  /\ task[r].pc = "new"
  /\ task' = [task EXCEPT ![r].pc = "scan"]
  /\ scan' = [scan EXCEPT ![r] = [i |-> 1, min_idx |-> 0, min_val |-> 0]]
  /\ changes' = [changes EXCEPT ![r] = 0]
  /\ UNCHANGED active

(* next_index is called: it loads the first counter, ... *)
Begin(r) ==
  /\ task[r].pc = "new"
  /\ task' = [task EXCEPT ![r].pc = "scan"]
  /\ scan' = [scan EXCEPT ![r] = [i |-> 1, min_idx |-> 0, min_val |-> active[0]]]
  /\ changes' = [changes EXCEPT ![r] = 0]
  /\ UNCHANGED active

(* Mutant of Better: the last of equals wins. *)
Better_or_equal(val, min_val) == val <= min_val

(* if val < min_val *)
Better(val, min_val) == val < min_val

(* ... and then the others in turn, keeping the smallest value it has seen. *)
Read(r) ==
  LET i == scan[r].i
      val == active[i]
  IN
  /\ Scanning(r)
  /\ i < pool_size
  /\ scan' = [scan EXCEPT ![r] =
                IF Better(val, @.min_val)
                  THEN [i |-> i + 1, min_idx |-> i, min_val |-> val]
                  ELSE [@ EXCEPT !.i = i + 1]]
  /\ UNCHANGED <<active, task, changes>>

Picked(r) == Scanning(r) /\ scan[r].i = pool_size

-----------------------------------------------------------------------------
(* A start or an end of r is a change in the middle of every other scan. *)
Disturb(r) ==
  /\ \A q \in Requests \ {r} : Scanning(q) => changes[q] < MaxChanges
  /\ changes' = [q \in Requests |-> IF q # r /\ Scanning(q) THEN changes[q] + 1 ELSE 0]

(* Mutant of record_start: a load and a store instead of a fetch_add; the  *)
(* starts between the two are lost.                                        *)
record_start_lost(k) ==
  \E loaded \in 0 .. active[k] : active' = [active EXCEPT ![k] = fetch_add(loaded)]

record_start(k) == active' = [active EXCEPT ![k] = fetch_add(@)]

record_done(k) == active' = [active EXCEPT ![k] = fetch_sub(@)]

(* The first attempt starts on the pick, unless its health is bad, and a   *)
(* later one on some other upstream.                                       *)
Start(r, k) ==
  /\ Picked(r) \/ task[r].pc = "ready"
  /\ record_start(k)
  /\ task' = [task EXCEPT ![r] = [pc |-> "active", index |-> k]]
  /\ Disturb(r)
  /\ scan' = [scan EXCEPT ![r] = NoScan]

(* forward_once returns; after an error the loop may go on. *)
Done(r) ==
  /\ task[r].pc = "active"
  /\ record_done(task[r].index)
  /\ task' = [task EXCEPT ![r].pc = "ready"]
  /\ Disturb(r)
  /\ UNCHANGED scan

(* The task is dropped while it awaits the upstream, by the overall        *)
(* timeout or because its client is gone: record_done never runs.          *)
Drop(r) ==
  /\ task[r].pc = "active"
  /\ task' = [task EXCEPT ![r].pc = "dropped"]
  /\ UNCHANGED <<active, scan, changes>>

(* The request is over: answered, given up after its attempts, or before   *)
(* the first as every upstream was skipped, or dropped between attempts.   *)
Over(r) ==
  /\ Picked(r) \/ task[r].pc = "ready"
  /\ task' = [task EXCEPT ![r] = NoTask]
  /\ scan' = [scan EXCEPT ![r] = NoScan]
  /\ changes' = [changes EXCEPT ![r] = 0]
  /\ UNCHANGED active

LCNext ==
  \E r \in Requests :
    \/ Begin(r) \/ Read(r) \/ Done(r) \/ Drop(r) \/ Over(r)
    \/ \E k \in Pool : Start(r, k)

LCSpec == LCInit /\ [][LCNext]_lcvars

-----------------------------------------------------------------------------
(***************************************************************************)
(* balancer.rs:64 - how wrong an unlocked scan can be: the counter of the  *)
(* upstream picked is above that of any other by at most as much as        *)
(* attempts started or ended during the scan.                              *)
(***************************************************************************)
PickNearlyLeast ==
  \A r \in Requests : Picked(r) =>
    \A k \in Pool : active[scan[r].min_idx] <= active[k] + changes[r]

(***************************************************************************)
(* balancer.rs:65 - a scan nothing falls into finds the lowest counter,    *)
(* and of equal ones the first.                                            *)
(***************************************************************************)
FirstLeastUndisturbed ==
  \A r \in Requests : Picked(r) /\ changes[r] = 0 =>
    \A k \in Pool :
      /\ active[scan[r].min_idx] <= active[k]
      /\ k < scan[r].min_idx => active[scan[r].min_idx] < active[k]

(***************************************************************************)
(* The inductive invariant: both facts hold of the counters read so far,   *)
(* with the value kept for the minimum as far off as the counters are, and *)
(* no counter wraps: each counts the attempts that have started and not    *)
(* ended, those under way and those dropped for good.                      *)
(***************************************************************************)
On(k) == {r \in Requests : task[r].pc \in {"active", "dropped"} /\ task[r].index = k}

ScanInv(r) ==
  LET s == scan[r] IN
  /\ s.i >= 1
  /\ s.min_idx < s.i
  /\ active[s.min_idx] <= s.min_val + changes[r]
  /\ \A k \in 0 .. s.i - 1 :
       /\ s.min_val <= active[k] + changes[r]
       /\ active[s.min_idx] <= active[k] + changes[r]
       /\ changes[r] = 0 /\ k < s.min_idx => active[s.min_idx] < active[k]

LeastInv ==
  /\ LCTypeOK
  /\ \A k \in Pool : active[k] = Cardinality(On(k))
  /\ \A r \in Requests : Scanning(r) => ScanInv(r)
=============================================================================
