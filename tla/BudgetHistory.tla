--------------------------- MODULE BudgetHistory ---------------------------
(***************************************************************************)
(* RetryBudget with the history a sliding window is defined by: every      *)
(* request that was recorded and every retry that was allowed, with their  *)
(* instants.  The code keeps two lists instead, prunes them only when a    *)
(* retry is asked for, and does not enter every allowed retry.             *)
(***************************************************************************)
EXTENDS RetryBudget

VARIABLES
  arrived,   \* every record_request
  recorded,  \* every retry allowed and pushed
  uncounted  \* every retry allowed by the early return on an empty window

hvars == <<requests, retries, now, arrived, recorded, uncounted>>

HInit ==
  /\ Init
  /\ arrived = {}
  /\ recorded = {}
  /\ uncounted = {}

HTypeOK ==
  /\ TypeOK
  /\ arrived \in SUBSET Entry
  /\ recorded \in SUBSET Entry
  /\ uncounted \in SUBSET Entry

(* c has no entry yet: what is recorded has a name of its own. *)
New(c, entries) == \A e \in entries : e.by # c

Request(c) ==
  /\ New(c, arrived)
  /\ record_request(c)
  /\ arrived' = arrived \cup {[by |-> c, at |-> now]}
  /\ UNCHANGED <<now, recorded, uncounted>>

(* proxy.rs asks for a retry only after it has recorded the request, and   *)
(* once for each: c names the retry, and any request may be asking for it, *)
(* for its first or for another.                                           *)
Retry(c) ==
  /\ arrived # {}
  /\ Allowed
  /\ New(c, recorded \cup uncounted)
  /\ allow_retry(c)
  /\ IF WindowEmpty
       THEN /\ uncounted' = uncounted \cup {[by |-> c, at |-> now]}
            /\ UNCHANGED recorded
       ELSE /\ recorded' = recorded \cup {[by |-> c, at |-> now]}
            /\ UNCHANGED uncounted
  /\ UNCHANGED <<now, arrived>>

Denied(c) ==
  /\ arrived # {}
  /\ ~Allowed
  /\ allow_retry(c)
  /\ UNCHANGED <<now, arrived, recorded, uncounted>>

HTick == Tick /\ UNCHANGED <<requests, retries, arrived, recorded, uncounted>>

HNext ==
  \/ \E c \in Callers : Request(c) \/ Retry(c) \/ Denied(c)
  \/ HTick

HSpec == HInit /\ [][HNext]_hvars

-----------------------------------------------------------------------------
(* The sliding window that ends at instant t. *)
InWindow(entries, t) == {e \in entries : t - window < e.at /\ e.at <= t}

(***************************************************************************)
(* retry_budget.rs:40 - pruning late, and only when asked, changes no      *)
(* answer: whenever there is a request in the window, allow_retry answers  *)
(* what a sliding window over every request and every retry ever allowed   *)
(* would answer, were its budget larger by the retries in it that the      *)
(* early return of line 44 has let through.  Those, and nothing else, are  *)
(* not held against it.                                                    *)
(***************************************************************************)
LazyPruningIsExact ==
  InWindow(arrived, now) # {} =>
    (Allowed <=> Cardinality(InWindow(recorded \cup uncounted, now))
                   < RetryShare(Cardinality(InWindow(arrived, now)))
                       + Cardinality(InWindow(uncounted, now)))

(***************************************************************************)
(* retry_budget.rs:4 - the budget holds over every window: at every        *)
(* instant at which a retry was entered, the retries entered in the window *)
(* ending there are at most the configured share of its requests.          *)
(***************************************************************************)
GrantsWithinBudget ==
  \A g \in recorded :
    Cardinality(InWindow(recorded, g.at))
      <= RetryShare(Cardinality(InWindow(arrived, g.at)))

(***************************************************************************)
(* tests/retry_budget.rs:25 - "We set budget to 0% so no retries are       *)
(* allowed at all".                                                        *)
(***************************************************************************)
ZeroBudgetNeverRetries ==
  budget_percent = 0 => recorded = {} /\ uncounted = {}

(***************************************************************************)
(* The inductive invariant: inside the window the two lists are the        *)
(* history, nothing in them was never recorded or lies in the future, and  *)
(* no retry is both entered and let through.                               *)
(***************************************************************************)
ListsCoverWindow ==
  /\ InWindow(arrived, now) \subseteq requests
  /\ InWindow(recorded, now) \subseteq retries

ListsAreHistory ==
  /\ requests \subseteq arrived
  /\ retries \subseteq recorded

NoFutureEntries == \A e \in arrived \cup recorded \cup uncounted : e.at <= now

EnteredOrNot == recorded \cap uncounted = {}

BudgetInv ==
  /\ HTypeOK
  /\ ListsCoverWindow
  /\ ListsAreHistory
  /\ NoFutureEntries
  /\ EnteredOrNot
=============================================================================
