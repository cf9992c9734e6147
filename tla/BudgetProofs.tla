---------------------------- MODULE BudgetProofs ----------------------------
(***************************************************************************)
(* The retry budget is a sliding window over the retries it enters, for    *)
(* any callers, any share and any window.  BudgetInv makes the pruned      *)
(* lists equal to the window of the history at every instant; the window   *)
(* of an instant that is over never changes again, so that a budget kept   *)
(* when a retry was entered is kept for good.  The retries let through on  *)
(* an empty window are in the history and in no list.                      *)
(***************************************************************************)
EXTENDS BudgetHistory, FiniteSetTheorems, TLAPS

(* The histories are finite: cardinalities are numbers. *)
Finite == IsFiniteSet(arrived) /\ IsFiniteSet(recorded) /\ IsFiniteSet(uncounted)

Inv == BudgetInv /\ Finite

(* A new budget has empty lists and an empty history. *)
LEMMA BudgetInit == HInit => Inv
BY FS_EmptySet, BudgetAssumption
DEF HInit, Init, Inv, BudgetInv, HTypeOK, TypeOK, ListsCoverWindow, ListsAreHistory,
    NoFutureEntries, EnteredOrNot, InWindow, Finite

(* A new entry raises the size of a finite list by one. *)
LEMMA AddOne ==
  ASSUME NEW S, NEW x, IsFiniteSet(S)
  PROVE  /\ IsFiniteSet(S \cup {x})
         /\ Cardinality(S) \in Nat
         /\ Cardinality(S \cup {x}) \in Nat
         /\ Cardinality(S \cup {x}) <= Cardinality(S) + 1
<1>1. IsFiniteSet(S \cup {x}) /\ Cardinality(S) \in Nat
  BY FS_AddElement, FS_CardinalityType
<1>2. Cardinality(S \cup {x}) = IF x \in S THEN Cardinality(S) ELSE Cardinality(S) + 1
  BY FS_AddElement
<1> QED
  BY <1>1, <1>2

(* The sizes of two lists with nothing in common add up. *)
LEMMA DisjointSizes ==
  ASSUME NEW S, NEW T, IsFiniteSet(S), IsFiniteSet(T), S \cap T = {}
  PROVE  Cardinality(S \cup T) = Cardinality(S) + Cardinality(T)
<1>1. Cardinality(S \cup T) = Cardinality(S) + Cardinality(T) - Cardinality(S \cap T)
  BY FS_Union
<1>2. Cardinality(S \cap T) = 0
  BY FS_EmptySet
<1>3. Cardinality(S) \in Nat /\ Cardinality(T) \in Nat
  BY FS_CardinalityType
<1> QED
  BY <1>1, <1>2, <1>3

(* The pruned lists are the window of the history that ends now. *)
LEMMA PrunedIsWindow ==
  ASSUME BudgetInv
  PROVE  /\ retain(requests) = InWindow(arrived, now)
         /\ retain(retries) = InWindow(recorded, now)
BY BudgetAssumption
DEF BudgetInv, HTypeOK, TypeOK, Entry, ListsCoverWindow, ListsAreHistory, NoFutureEntries,
    InWindow, retain

(* record_request, allow_retry and the clock keep the lists right          *)
(* (retry_budget.rs:30-54).                                                *)
LEMMA BudgetStep == Inv /\ [HNext]_hvars => Inv'
<1> SUFFICES ASSUME Inv, [HNext]_hvars PROVE Inv'
  OBVIOUS
<1> USE BudgetAssumption
<1>1. ASSUME NEW c \in Callers, Request(c) PROVE Inv'
  <2>1. HTypeOK' /\ ListsAreHistory' /\ NoFutureEntries'
    BY <1>1
    DEF Inv, BudgetInv, HTypeOK, TypeOK, Entry, ListsAreHistory, NoFutureEntries,
        Request, record_request
  <2>2. ListsCoverWindow'
    BY <1>1 DEF Inv, BudgetInv, ListsCoverWindow, InWindow, Request, record_request
  <2>3. Finite' /\ EnteredOrNot'
    BY <1>1, FS_AddElement DEF Inv, BudgetInv, Finite, EnteredOrNot, Request
  <2> QED
    BY <2>1, <2>2, <2>3 DEF Inv, BudgetInv
<1>2. ASSUME NEW c \in Callers, Retry(c) PROVE Inv'
  <2>1. HTypeOK' /\ ListsAreHistory' /\ NoFutureEntries'
    <3>1. CASE WindowEmpty
      BY <1>2, <3>1
      DEF Inv, BudgetInv, HTypeOK, TypeOK, Entry, ListsAreHistory, NoFutureEntries,
          Retry, allow_retry, retain
    <3>2. CASE ~WindowEmpty
      BY <1>2, <3>2
      DEF Inv, BudgetInv, HTypeOK, TypeOK, Entry, ListsAreHistory, NoFutureEntries,
          Retry, allow_retry, retain, Allowed
    <3> QED
      BY <3>1, <3>2
  <2>2. ListsCoverWindow'
    <3>1. /\ retain(requests) = InWindow(arrived, now)
          /\ retain(retries) = InWindow(recorded, now)
      BY PrunedIsWindow DEF Inv
    <3> QED
      BY <1>2, <3>1 DEF ListsCoverWindow, InWindow, Retry, allow_retry, Allowed
  <2>3. Finite'
    <3>1. /\ IsFiniteSet(recorded \cup {[by |-> c, at |-> now]})
          /\ IsFiniteSet(uncounted \cup {[by |-> c, at |-> now]})
      BY AddOne DEF Inv, Finite
    <3>2. /\ arrived' = arrived
          /\ recorded' \in {recorded, recorded \cup {[by |-> c, at |-> now]}}
          /\ uncounted' \in {uncounted, uncounted \cup {[by |-> c, at |-> now]}}
      BY <1>2 DEF Retry
    <3> QED
      BY <3>1, <3>2 DEF Inv, Finite
  <2>4. EnteredOrNot'
    <3> DEFINE e == [by |-> c, at |-> now]
    <3>1. e \notin recorded /\ e \notin uncounted
      BY <1>2 DEF Retry, New
    <3>2. \/ recorded' = recorded /\ uncounted' = uncounted \cup {e}
          \/ recorded' = recorded \cup {e} /\ uncounted' = uncounted
      BY <1>2 DEF Retry
    <3> HIDE DEF e
    <3> QED
      BY <3>1, <3>2 DEF Inv, BudgetInv, EnteredOrNot
  <2> QED
    BY <2>1, <2>2, <2>3, <2>4 DEF Inv, BudgetInv
<1>3. ASSUME NEW c \in Callers, Denied(c) PROVE Inv'
  <2>1. HTypeOK' /\ ListsAreHistory' /\ NoFutureEntries'
    BY <1>3
    DEF Inv, BudgetInv, HTypeOK, TypeOK, Entry, ListsAreHistory, NoFutureEntries,
        Denied, allow_retry, retain, Allowed
  <2>2. ListsCoverWindow'
    BY <1>3, PrunedIsWindow
    DEF Inv, ListsCoverWindow, InWindow, Denied, allow_retry, Allowed
  <2> QED
    BY <1>3, <2>1, <2>2 DEF Inv, BudgetInv, Finite, EnteredOrNot, Denied
<1>4. ASSUME HTick PROVE Inv'
  BY <1>4
  DEF Inv, BudgetInv, HTypeOK, TypeOK, Entry, ListsAreHistory, NoFutureEntries,
      ListsCoverWindow, EnteredOrNot, InWindow, Finite, HTick, Tick
<1>5. ASSUME UNCHANGED hvars PROVE Inv'
  BY <1>5
  DEF Inv, BudgetInv, HTypeOK, TypeOK, ListsAreHistory, NoFutureEntries,
      ListsCoverWindow, EnteredOrNot, InWindow, Finite, hvars
<1> QED
  BY <1>1, <1>2, <1>3, <1>4, <1>5 DEF HNext

(***************************************************************************)
(* Pruning lazily loses nothing that is in the window (retry_budget.rs:40).*)
(***************************************************************************)
THEOREM BudgetInvariant == HSpec => []BudgetInv
<1>1. Inv => BudgetInv
  BY DEF Inv
<1> QED
  BY <1>1, BudgetInit, BudgetStep, PTL DEF HSpec

(* The share of a window does not shrink when requests join it             *)
(* (retry_budget.rs:48).                                                   *)
LEMMA ShareMonotone ==
  ASSUME NEW m \in Nat, NEW n \in Nat, m <= n
  PROVE  RetryShare(m) \in Nat /\ RetryShare(n) \in Nat /\ RetryShare(m) <= RetryShare(n)
<1>1. m * budget_percent \in Nat /\ n * budget_percent \in Nat
      /\ m * budget_percent <= n * budget_percent
  BY BudgetAssumption
<1>2. ASSUME NEW a \in Nat, NEW b \in Nat, a <= b
      PROVE  (a + 99) \div 100 \in Nat /\ (a + 99) \div 100 <= (b + 99) \div 100
  BY <1>2
<1> QED
  BY <1>1, <1>2 DEF RetryShare

(***************************************************************************)
(* While there is a request in the window, allow_retry answers as the      *)
(* sliding window over every request and every retry ever allowed would,   *)
(* but for the retries let through on an empty window, which are not held  *)
(* against it (retry_budget.rs:40-49).                                     *)
(***************************************************************************)
THEOREM ExactWindowTheorem == HSpec => []LazyPruningIsExact
<1>1. Inv => LazyPruningIsExact
  <2> DEFINE Entered == InWindow(recorded, now)
             LetThrough == InWindow(uncounted, now)
             Share == RetryShare(Cardinality(InWindow(arrived, now)))
  <2> SUFFICES ASSUME Inv, InWindow(arrived, now) # {}
               PROVE  Allowed <=> Cardinality(InWindow(recorded \cup uncounted, now))
                                    < Share + Cardinality(LetThrough)
    BY DEF LazyPruningIsExact
  <2>1. /\ retain(requests) = InWindow(arrived, now)
        /\ retain(retries) = Entered
    BY PrunedIsWindow DEF Inv
  <2>2. IsFiniteSet(InWindow(arrived, now)) /\ IsFiniteSet(Entered) /\ IsFiniteSet(LetThrough)
    BY FS_Subset DEF Inv, Finite, InWindow
  <2>3. ~WindowEmpty
    BY <2>1, <2>2, FS_EmptySet DEF WindowEmpty, Total
  <2>4. Allowed <=> Cardinality(Entered) < Share
    BY <2>1, <2>3 DEF Allowed, WithinBudget, Total
  <2>5. InWindow(recorded \cup uncounted, now) = Entered \cup LetThrough
    BY DEF InWindow
  <2>6. Entered \cap LetThrough = {}
    BY DEF InWindow, Inv, BudgetInv, EnteredOrNot
  <2>7. Share \in Nat /\ Cardinality(Entered) \in Nat /\ Cardinality(LetThrough) \in Nat
    BY <2>2, FS_CardinalityType, ShareMonotone
  <2>8. Cardinality(Entered \cup LetThrough) = Cardinality(Entered) + Cardinality(LetThrough)
    BY <2>2, <2>6, DisjointSizes
  <2>9. Cardinality(InWindow(recorded \cup uncounted, now))
          = Cardinality(Entered) + Cardinality(LetThrough)
    BY <2>5, <2>8
  <2> HIDE DEF Entered, LetThrough, Share
  <2> QED
    BY <2>4, <2>7, <2>9
<1> QED
  BY <1>1, BudgetInit, BudgetStep, PTL DEF HSpec

-----------------------------------------------------------------------------
(***************************************************************************)
(* The retries entered in the window of any instant at which one was       *)
(* entered are within the budget of that window (retry_budget.rs:48).      *)
(***************************************************************************)
THEOREM BudgetTheorem == HSpec => []GrantsWithinBudget
<1> DEFINE Within(t) == Cardinality(InWindow(recorded, t))
                          <= RetryShare(Cardinality(InWindow(arrived, t)))
<1>0. Inv => \A t \in Nat : /\ IsFiniteSet(InWindow(arrived, t))
                            /\ IsFiniteSet(InWindow(recorded, t))
  BY FS_Subset DEF Inv, Finite, InWindow
<1>1. HInit => GrantsWithinBudget
  BY DEF HInit, GrantsWithinBudget
<1>2. ASSUME Inv, Inv', GrantsWithinBudget, [HNext]_hvars PROVE GrantsWithinBudget'
  <2>1. \A g \in recorded : g.at \in Nat /\ Within(g.at)
    BY <1>2 DEF GrantsWithinBudget, Inv, BudgetInv, HTypeOK, Entry
  <2>2. ASSUME NEW c \in Callers, Request(c) PROVE GrantsWithinBudget'
    <3> SUFFICES ASSUME NEW g \in recorded
                 PROVE  Cardinality(InWindow(recorded, g.at)')
                          <= RetryShare(Cardinality(InWindow(arrived, g.at)'))
      BY <2>2 DEF GrantsWithinBudget, Request, InWindow, RetryShare
    <3>1. InWindow(recorded, g.at)' = InWindow(recorded, g.at)
      BY <2>2 DEF Request, InWindow
    <3>2. /\ InWindow(arrived, g.at) \subseteq InWindow(arrived, g.at)'
          /\ IsFiniteSet(InWindow(arrived, g.at)')
      BY <1>2, <2>2, FS_Subset DEF Request, InWindow, Inv, Finite
    <3>3. /\ Cardinality(InWindow(arrived, g.at)) <= Cardinality(InWindow(arrived, g.at)')
          /\ Cardinality(InWindow(arrived, g.at)) \in Nat
          /\ Cardinality(InWindow(arrived, g.at)') \in Nat
          /\ Cardinality(InWindow(recorded, g.at)) \in Nat
      BY <1>0, <1>2, <2>1, <3>2, FS_Subset, FS_CardinalityType
    <3>4. /\ RetryShare(Cardinality(InWindow(arrived, g.at))) \in Nat
          /\ RetryShare(Cardinality(InWindow(arrived, g.at)')) \in Nat
          /\ RetryShare(Cardinality(InWindow(arrived, g.at)))
               <= RetryShare(Cardinality(InWindow(arrived, g.at)'))
      BY <3>3, ShareMonotone
    <3> QED
      BY <2>1, <3>1, <3>3, <3>4
  <2>3. ASSUME NEW c \in Callers, Retry(c) PROVE GrantsWithinBudget'
    <3>1. CASE WindowEmpty
      BY <1>2, <2>3, <3>1 DEF GrantsWithinBudget, Retry, InWindow, RetryShare
    <3>2. CASE ~WindowEmpty
      <4> DEFINE e == [by |-> c, at |-> now]
      <4>1. recorded' = recorded \cup {e} /\ arrived' = arrived
        BY <2>3, <3>2 DEF Retry
      <4>2. Within(now)'
        <5>1. Cardinality(InWindow(recorded, now)) < RetryShare(Cardinality(InWindow(arrived, now)))
          BY <1>2, <2>3, <3>2, PrunedIsWindow DEF Inv, Retry, Allowed, WithinBudget, Total
        <5>2. InWindow(recorded, now)' \subseteq InWindow(recorded, now) \cup {e}
              /\ InWindow(arrived, now)' = InWindow(arrived, now)
          BY <2>3, <4>1 DEF InWindow, Retry
        <5>3. now \in Nat
          BY <1>2 DEF Inv, BudgetInv, HTypeOK, TypeOK
        <5>4. /\ IsFiniteSet(InWindow(recorded, now) \cup {e})
              /\ Cardinality(InWindow(recorded, now) \cup {e})
                   <= Cardinality(InWindow(recorded, now)) + 1
              /\ Cardinality(InWindow(recorded, now)) \in Nat
              /\ Cardinality(InWindow(recorded, now) \cup {e}) \in Nat
          <6>1. IsFiniteSet(InWindow(recorded, now))
            BY <1>0, <1>2, <5>3
          <6> QED
            BY <6>1, AddOne
        <5>5. /\ Cardinality(InWindow(recorded, now)')
                  <= Cardinality(InWindow(recorded, now) \cup {e})
              /\ Cardinality(InWindow(recorded, now)') \in Nat
          BY <5>2, <5>4, FS_Subset, FS_CardinalityType
        <5>6. RetryShare(Cardinality(InWindow(arrived, now))) \in Nat
          BY <1>0, <1>2, <5>3, FS_CardinalityType, ShareMonotone
        <5> QED
          BY <5>1, <5>2, <5>4, <5>5, <5>6 DEF RetryShare
      <4>3. ASSUME NEW g \in recorded, g.at # now PROVE Within(g.at)'
        <5>1. g.at \in Nat /\ now \in Nat /\ g.at < now
          BY <1>2, <2>1, <4>3 DEF Inv, BudgetInv, HTypeOK, TypeOK, NoFutureEntries
        <5>2. InWindow(recorded, g.at)' = InWindow(recorded, g.at)
              /\ InWindow(arrived, g.at)' = InWindow(arrived, g.at)
          BY <4>1, <5>1 DEF InWindow
        <5> QED
          BY <2>1, <5>2 DEF RetryShare
      <4>4. now' = now
        BY <2>3 DEF Retry
      <4> QED
        BY <4>1, <4>2, <4>3, <4>4 DEF GrantsWithinBudget
    <3> QED
      BY <3>1, <3>2
  <2>4. ASSUME UNCHANGED <<arrived, recorded>> PROVE GrantsWithinBudget'
    BY <1>2, <2>4 DEF GrantsWithinBudget, InWindow, RetryShare
  <2> QED
    BY <1>2, <2>2, <2>3, <2>4 DEF HNext, Denied, HTick, hvars
<1> QED
  BY <1>1, <1>2, BudgetInit, BudgetStep, PTL DEF HSpec
=============================================================================
