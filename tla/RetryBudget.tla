---------------------------- MODULE RetryBudget ----------------------------
(***************************************************************************)
(* The retry budget, src/src/retry_budget.rs: two lists of instants behind *)
(* one mutex.  A list is only counted and filtered, never read in order,   *)
(* so it is a set of entries [by, at]: the instant and who recorded it     *)
(* (a caller records at most one entry of a kind).                         *)
(*                                                                         *)
(* As in HealthTracker, record_request and allow_retry constrain only the  *)
(* component's own variables; Proxy conjoins them with its own steps, and  *)
(* BudgetHistory is the component called by anybody.                       *)
(***************************************************************************)
EXTENDS Integers, FiniteSets

CONSTANTS
  Callers,         \* who records requests and retries
  budget_percent,  \* RetryBudget.budget_percent, a whole number of percent
  window,          \* RetryBudget.window, in ticks of the clock
  MaxTime          \* bound: the clock stops here

ASSUME BudgetAssumption ==
  /\ IsFiniteSet(Callers)
  /\ budget_percent \in Nat
  /\ window \in Nat
  /\ MaxTime \in Nat

VARIABLES
  requests,  \* BudgetState.requests
  retries,   \* BudgetState.retries
  now        \* what Instant::now() returns

Entry == [by : Callers, at : Nat]

Init ==
  /\ requests = {}
  /\ retries = {}
  /\ now = 0

TypeOK ==
  /\ requests \in SUBSET Entry
  /\ retries \in SUBSET Entry
  /\ now \in Nat

-----------------------------------------------------------------------------
(* state.requests.push(Instant::now()); the list is not pruned here. *)
record_request(c) ==
  /\ requests' = requests \cup {[by |-> c, at |-> now]}
  /\ UNCHANGED retries

(* Mutant of retain: an entry at the cutoff stays. *)
retain_cutoff(entries) == {e \in entries : e.at >= now - window}

(* retain(|t| *t > cutoff) *)
retain(entries) == {e \in entries : e.at > now - window}

(* (total as f64 * self.budget_percent / 100.0).ceil() as usize *)
RetryShare(total) == (total * budget_percent + 99) \div 100

Total == Cardinality(retain(requests))

(* What allow_retry finds once the lists are pruned: an empty window, ... *)
WindowEmpty == Total = 0

(* Mutant of WithinBudget: one retry too many. *)
WithinBudget_inclusive == Cardinality(retain(retries)) <= RetryShare(Total)

(* ... or a retry to spare. *)
WithinBudget == Cardinality(retain(retries)) < RetryShare(Total)

(* The value allow_retry returns ... *)
Allowed == WindowEmpty \/ WithinBudget

(* Mutant of allow_retry: a denied retry is recorded as well. *)
allow_retry_records_denied(c) ==
  /\ requests' = retain(requests)
  /\ retries' = IF WindowEmpty THEN retain(retries)
                               ELSE retain(retries) \cup {[by |-> c, at |-> now]}

(* ... and what it does.  The early return on an empty window comes before *)
(* the push: that retry is allowed without being recorded.                 *)
allow_retry(c) ==
  /\ requests' = retain(requests)
  /\ retries' = IF ~WindowEmpty /\ WithinBudget
                  THEN retain(retries) \cup {[by |-> c, at |-> now]}
                  ELSE retain(retries)

(* Time passes. *)
Tick ==
  /\ now < MaxTime
  /\ now' = now + 1
=============================================================================
