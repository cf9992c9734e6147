--------------------------- MODULE InductionLemmas ---------------------------
(***************************************************************************)
(* Induction on numbers and finite sets, and what it shows of the sums of  *)
(* FiniteSetsExt.  The induction theorems of the library take an operator, *)
(* which the provers do not instantiate; the lemmas here are about a set   *)
(* instead, and are proved from the least counterexample that a            *)
(* well-founded relation provides.                                         *)
(***************************************************************************)
EXTENDS FiniteSetsExt, FiniteSetTheorems, NaturalsInduction, TLAPS

(* A set that holds 0 and every successor holds every number. *)
LEMMA NatSetInduction ==
  ASSUME NEW G, 0 \in G, \A n \in Nat : n \in G => n + 1 \in G
  PROVE  Nat \subseteq G
<1> SUFFICES ASSUME ~(Nat \subseteq G) PROVE FALSE
  OBVIOUS
<1> DEFINE Bad == Nat \ G
           R == OpToRel(<, Nat)
<1>1. Bad \subseteq Nat /\ Bad # {}
  OBVIOUS
<1>2. IsWellFoundedOn(R, Nat)
  BY NatLessThanWellFounded
<1>3. \E x \in Bad : \A y \in Bad : ~(<<y, x>> \in R)
  <2> HIDE DEF Bad, R
  <2> QED
    BY <1>1, <1>2, WFMin
<1>4. PICK x \in Bad : \A y \in Bad : ~(<<y, x>> \in R)
  BY <1>3
<1>5. x \in Nat /\ x # 0
  OBVIOUS
<1>6. x - 1 \in Bad
  BY <1>5
<1>7. <<x - 1, x>> \in R
  BY <1>5 DEF OpToRel
<1> QED
  BY <1>4, <1>6, <1>7

(* Every set of natural numbers but the empty one has a least element. *)
LEMMA LeastOf ==
  ASSUME NEW S, S \subseteq Nat, S # {}
  PROVE  \E x \in S : \A y \in S : x <= y
<1> DEFINE R == OpToRel(<, Nat)
<1>1. IsWellFoundedOn(R, Nat)
  BY NatLessThanWellFounded
<1>2. \E x \in S : \A y \in S : ~(<<y, x>> \in R)
  <2> HIDE DEF R
  <2> QED
    BY <1>1, WFMin
<1>3. PICK x \in S : \A y \in S : ~(<<y, x>> \in R)
  BY <1>2
<1>4. ASSUME NEW y \in S PROVE x <= y
  <2> SUFFICES ASSUME y < x PROVE FALSE
    OBVIOUS
  <2>1. <<y, x>> \in R
    BY DEF OpToRel
  <2> QED
    BY <1>3, <2>1
<1> QED
  BY <1>4

(* The element that the library's folds take out of a set first. *)
Pick(s) == CHOOSE x \in s : TRUE

(* Induction on a finite set by taking that element out. *)
LEMMA SubsetInduction ==
  ASSUME NEW S, IsFiniteSet(S), NEW G, {} \in G,
         \A s \in SUBSET S : s # {} /\ s \ {Pick(s)} \in G => s \in G
  PROVE  SUBSET S \subseteq G
<1> SUFFICES ASSUME NEW t \in SUBSET S, t \notin G PROVE FALSE
  OBVIOUS
<1> DEFINE Bad == (SUBSET S) \ G
           R == StrictSubsetOrdering(S)
<1>1. IsWellFoundedOn(R, SUBSET S)
  <2>1. FiniteSubsetsOf(S) = SUBSET S
    BY FS_FiniteSubsetsOfFinite
  <2>2. IsWellFoundedOn(StrictSubsetOrdering(S), FiniteSubsetsOf(S))
    BY FS_StrictSubsetOrderingWellFounded
  <2> QED
    BY <2>1, <2>2
<1>2. \E s \in Bad : \A y \in Bad : ~(<<y, s>> \in R)
  <2>1. Bad \subseteq SUBSET S /\ Bad # {}
    OBVIOUS
  <2> HIDE DEF Bad, R
  <2> QED
    BY <1>1, <2>1, WFMin
<1>3. PICK s : s \in Bad /\ \A y \in Bad : ~(<<y, s>> \in R)
  BY <1>2
<1>4. s \in SUBSET S /\ s \notin G /\ s # {}
  <2>1. s \in Bad
    BY <1>3
  <2>2. s \in SUBSET S /\ s \notin G
    BY <2>1
  <2> QED
    BY <2>2
<1>5. Pick(s) \in s
  BY <1>4 DEF Pick
<1>6. s \ {Pick(s)} \in Bad
  <2>1. s \ {Pick(s)} \in SUBSET S
    BY <1>4
  <2>2. s \ {Pick(s)} \notin G
    BY <1>4
  <2> QED
    BY <2>1, <2>2
<1>7. <<s \ {Pick(s)}, s>> \in R
  BY <1>4, <1>5 DEF StrictSubsetOrdering
<1> QED
  BY <1>3, <1>6, <1>7

(* The recursive function behind SumFunction, and one step of it. *)
SumStep(F, g, s) == IF s = {} THEN 0 ELSE F[Pick(s)] + g[s \ {Pick(s)}]
SumFun(F, S) == CHOOSE g : g = [s \in SUBSET S |-> SumStep(F, g, s)]

LEMMA SumIsSumFun ==
  ASSUME NEW F PROVE SumFunction(F) = SumFun(F, DOMAIN F)[DOMAIN F]
BY DEF SumFunction, SumFunctionOnSet, FoldFunctionOnSet, MapThenFoldSet, SumFun, SumStep, Pick

(* It exists: there is one for all sets of n elements, by induction on n. *)
LEMMA SumFunDefined ==
  ASSUME NEW S, IsFiniteSet(S), NEW F
  PROVE  SumFun(F, S) = [s \in SUBSET S |-> SumStep(F, SumFun(F, S), s)]
<1> DEFINE Upto(g, n) == \A s \in SUBSET S : Cardinality(s) <= n => g[s] = SumStep(F, g, s)
           G == {n \in Nat : \E g : Upto(g, n)}
<1>0. ASSUME NEW s \in SUBSET S
      PROVE  IsFiniteSet(s) /\ Cardinality(s) \in Nat /\ Cardinality(s) <= Cardinality(S)
  BY FS_Subset, FS_CardinalityType
<1>1. 0 \in G
  <2>1. Upto([s \in SUBSET S |-> 0], 0)
    BY <1>0, FS_EmptySet DEF SumStep
  <2> QED
    BY <2>1
<1>2. ASSUME NEW n \in Nat, n \in G PROVE n + 1 \in G
  <2>1. PICK g : Upto(g, n)
    BY <1>2
  <2> DEFINE h == [s \in SUBSET S |-> SumStep(F, g, s)]
  <2>2. ASSUME NEW s \in SUBSET S, Cardinality(s) <= n + 1 PROVE h[s] = SumStep(F, h, s)
    <3>1. CASE s = {}
      BY <3>1 DEF SumStep
    <3>2. CASE s # {}
      <4> DEFINE t == s \ {Pick(s)}
      <4>1. Pick(s) \in s
        BY <3>2 DEF Pick
      <4>2. t \in SUBSET S /\ Cardinality(t) <= n
        BY <1>0, <2>2, <4>1, FS_RemoveElement
      <4>3. h[t] = g[t]
        BY <2>1, <4>2
      <4> QED
        BY <3>2, <4>3 DEF SumStep
    <3> QED
      BY <3>1, <3>2
  <2>3. Upto(h, n + 1)
    BY <2>2
  <2>4. \E f : Upto(f, n + 1)
    <3> HIDE DEF h, Upto
    <3> QED
      BY <2>3
  <2>5. n + 1 \in Nat
    OBVIOUS
  <2> QED
    BY <2>4, <2>5
<1>3. Nat \subseteq G
  <2> HIDE DEF G
  <2> QED
    BY <1>1, <1>2, NatSetInduction
<1>4. PICK g : Upto(g, Cardinality(S))
  BY <1>3, FS_CardinalityType
<1> DEFINE h == [s \in SUBSET S |-> SumStep(F, g, s)]
<1>5. ASSUME NEW s \in SUBSET S PROVE SumStep(F, h, s) = SumStep(F, g, s)
  <2>1. s # {} => s \ {Pick(s)} \in SUBSET S
    OBVIOUS
  <2> QED
    BY <1>0, <1>4, <2>1 DEF SumStep
<1>6. h = [s \in SUBSET S |-> SumStep(F, h, s)]
  BY <1>5
<1> QED
  BY <1>6 DEF SumFun

(* Hence its equation, at any set. *)
LEMMA SumFunAt ==
  ASSUME NEW S, IsFiniteSet(S), NEW F, NEW s \in SUBSET S
  PROVE  SumFun(F, S)[s] = SumStep(F, SumFun(F, S), s)
<1> DEFINE g == SumFun(F, S)
<1>1. g = [t \in SUBSET S |-> SumStep(F, g, t)]
  BY SumFunDefined
<1> HIDE DEF g
<1> QED
  BY <1>1 DEF g

(* A function changed at one place has its sum changed by as much. *)
LEMMA SumDelta ==
  ASSUME NEW S, IsFiniteSet(S), NEW F \in [S -> Int], NEW E \in [S -> Int], NEW a \in S,
         \A x \in S : x # a => E[x] = F[x]
  PROVE  /\ SumFunction(F) \in Int
         /\ SumFunction(E) = SumFunction(F) + E[a] - F[a]
<1> DEFINE f == SumFun(F, S)
           e == SumFun(E, S)
           G == {s \in SUBSET S : /\ f[s] \in Int /\ e[s] \in Int
                                  /\ e[s] = f[s] + IF a \in s THEN E[a] - F[a] ELSE 0}
<1>1. {} \in G
  <2>1. f[{}] = 0 /\ e[{}] = 0
    BY SumFunAt DEF SumStep
  <2> QED
    BY <2>1
<1>2. ASSUME NEW s \in SUBSET S, s # {}, s \ {Pick(s)} \in G PROVE s \in G
  <2> DEFINE x == Pick(s)
             t == s \ {x}
  <2>1. x \in s /\ x \in S
    BY <1>2 DEF Pick
  <2>2. f[s] = F[x] + f[t] /\ e[s] = E[x] + e[t]
    <3>1. f[s] = SumStep(F, f, s) /\ e[s] = SumStep(E, e, s)
      BY SumFunAt
    <3> HIDE DEF f, e
    <3> QED
      BY <1>2, <3>1 DEF SumStep
  <2>3. /\ f[t] \in Int /\ e[t] \in Int
        /\ e[t] = f[t] + IF a \in t THEN E[a] - F[a] ELSE 0
    BY <1>2
  <2>4. F[x] \in Int /\ E[x] \in Int /\ F[a] \in Int /\ E[a] \in Int
    BY <2>1
  <2>5. f[s] \in Int /\ e[s] \in Int
    BY <2>2, <2>3, <2>4
  <2>6. e[s] = f[s] + IF a \in s THEN E[a] - F[a] ELSE 0
    <3>1. CASE x = a
      <4>1. a \in s /\ a \notin t
        BY <2>1, <3>1
      <4> HIDE DEF x, t, e, f
      <4> QED
        BY <2>2, <2>3, <2>4, <3>1, <4>1
    <3>2. CASE x # a
      <4>1. a \in s <=> a \in t
        BY <2>1, <3>2
      <4>2. E[x] = F[x]
        BY <2>1, <3>2
      <4> HIDE DEF x, t, e, f
      <4> QED
        BY <2>2, <2>3, <2>4, <4>1, <4>2
    <3> QED
      BY <3>1, <3>2
  <2> QED
    BY <2>5, <2>6
<1>3. S \in G
  <2> HIDE DEF G
  <2> QED
    BY <1>1, <1>2, SubsetInduction
<1>4. DOMAIN F = S /\ DOMAIN E = S
  OBVIOUS
<1>5. SumFunction(F) = f[S] /\ SumFunction(E) = e[S]
  BY <1>4, SumIsSumFun
<1>6. F[a] \in Int /\ E[a] \in Int
  OBVIOUS
<1> QED
  <2> HIDE DEF f, e
  <2> QED
    BY <1>3, <1>5, <1>6

(* The sum of zeros, which the metrics start from. *)
LEMMA SumZero ==
  ASSUME NEW S, IsFiniteSet(S)
  PROVE  SumFunction([x \in S |-> 0]) = 0
<1> DEFINE F == [x \in S |-> 0]
           f == SumFun(F, S)
           G == {s \in SUBSET S : f[s] = 0}
<1>1. {} \in G
  BY SumFunAt DEF SumStep
<1>2. ASSUME NEW s \in SUBSET S, s # {}, s \ {Pick(s)} \in G PROVE s \in G
  <2>1. Pick(s) \in S
    BY <1>2 DEF Pick
  <2>2. f[s] = F[Pick(s)] + f[s \ {Pick(s)}]
    BY <1>2, SumFunAt DEF SumStep
  <2>3. F[Pick(s)] = 0 /\ f[s \ {Pick(s)}] = 0
    BY <1>2, <2>1
  <2>4. f[s] = 0
    <3> HIDE DEF f, F
    <3> QED
      BY <2>2, <2>3
  <2> QED
    BY <2>4
<1>3. S \in G
  <2> HIDE DEF G
  <2> QED
    BY <1>1, <1>2, SubsetInduction
<1>4. SumFunction(F) = f[S]
  <2>1. DOMAIN F = S
    OBVIOUS
  <2> QED
    BY <2>1, SumIsSumFun
<1> QED
  BY <1>3, <1>4

(* The sum over a set does not depend on the larger set it is computed in. *)
LEMMA SumFunLocal ==
  ASSUME NEW S, IsFiniteSet(S), NEW F, NEW T \in SUBSET S, NEW s \in SUBSET T
  PROVE  SumFun(F, S)[s] = SumFun(F, T)[s]
<1> DEFINE f == SumFun(F, S)
           g == SumFun(F, T)
           G == {t \in SUBSET T : f[t] = g[t]}
<1>1. IsFiniteSet(T)
  BY FS_Subset
<1>2. \A t \in SUBSET T : f[t] = SumStep(F, f, t) /\ g[t] = SumStep(F, g, t)
  BY <1>1, SumFunAt
<1> HIDE DEF f, g
<1>3. {} \in G
  BY <1>2 DEF SumStep
<1>4. ASSUME NEW t \in SUBSET T, t # {}, t \ {Pick(t)} \in G PROVE t \in G
  <2>1. f[t \ {Pick(t)}] = g[t \ {Pick(t)}]
    BY <1>4
  <2> QED
    BY <1>2, <1>4, <2>1 DEF SumStep
<1>5. s \in G
  <2> HIDE DEF G
  <2> QED
    BY <1>1, <1>3, <1>4, SubsetInduction
<1> QED
  BY <1>5 DEF f, g

(* The sum over a subset is that of the function that is 0 outside it. *)
Mask(F, S, s) == [x \in S |-> IF x \in s THEN F[x] ELSE 0]

LEMMA SumOnIsMasked ==
  ASSUME NEW S, IsFiniteSet(S), NEW F \in [S -> Int], NEW s \in SUBSET S
  PROVE  SumFunctionOnSet(F, s) = SumFunction(Mask(F, S, s))
<1> DEFINE f == SumFun(F, S)
           G == {t \in SUBSET S : f[t] = SumFunction(Mask(F, S, t))}
<1>1. \A t \in SUBSET S : f[t] = SumStep(F, f, t)
  BY SumFunAt
<1> HIDE DEF f
<1>2. {} \in G
  <2>1. Mask(F, S, {}) = [x \in S |-> 0]
    BY DEF Mask
  <2>2. f[{}] = 0
    BY <1>1 DEF SumStep
  <2> QED
    BY <2>1, <2>2, SumZero
<1>3. ASSUME NEW t \in SUBSET S, t # {}, t \ {Pick(t)} \in G PROVE t \in G
  <2> DEFINE a == Pick(t)
             M == Mask(F, S, t \ {a})
             E == Mask(F, S, t)
  <2>1. a \in t
    BY <1>3 DEF Pick
  <2>2. f[t] = F[a] + f[t \ {a}] /\ f[t \ {a}] = SumFunction(M)
    BY <1>1, <1>3 DEF SumStep
  <2>3. M \in [S -> Int] /\ E \in [S -> Int] /\ M[a] = 0 /\ E[a] = F[a]
    BY <2>1 DEF Mask
  <2>4. \A x \in S : x # a => E[x] = M[x]
    BY DEF Mask
  <2> HIDE DEF a, M, E
  <2>5. SumFunction(M) \in Int /\ SumFunction(E) = SumFunction(M) + E[a] - M[a]
    BY <2>1, <2>3, <2>4, SumDelta
  <2>6. F[a] \in Int
    BY <2>1
  <2>7. f[t] = SumFunction(E)
    BY <2>2, <2>3, <2>5, <2>6
  <2> QED
    BY <2>7 DEF E
<1>4. s \in G
  <2> HIDE DEF G
  <2> QED
    BY <1>2, <1>3, SubsetInduction
<1>5. SumFunctionOnSet(F, s) = SumFun(F, s)[s]
  BY DEF SumFunctionOnSet, FoldFunctionOnSet, MapThenFoldSet, SumFun, SumStep, Pick
<1>6. SumFun(F, s)[s] = f[s]
  BY SumFunLocal DEF f
<1> QED
  BY <1>4, <1>5, <1>6

(* The sum over a set with one more element. *)
LEMMA SumOnAdd ==
  ASSUME NEW S, IsFiniteSet(S), NEW F \in [S -> Int], NEW s \in SUBSET S, NEW a \in S, a \notin s
  PROVE  /\ SumFunctionOnSet(F, s) \in Int
         /\ SumFunctionOnSet(F, s \cup {a}) = SumFunctionOnSet(F, s) + F[a]
<1> DEFINE M == Mask(F, S, s)
           E == Mask(F, S, s \cup {a})
<1>1. M \in [S -> Int] /\ E \in [S -> Int] /\ M[a] = 0 /\ E[a] = F[a] /\ F[a] \in Int
  BY DEF Mask
<1>2. \A x \in S : x # a => E[x] = M[x]
  BY DEF Mask
<1>3. SumFunctionOnSet(F, s) = SumFunction(M) /\ SumFunctionOnSet(F, s \cup {a}) = SumFunction(E)
  BY SumOnIsMasked
<1> HIDE DEF M, E
<1>4. SumFunction(M) \in Int /\ SumFunction(E) = SumFunction(M) + E[a] - M[a]
  BY <1>1, <1>2, SumDelta
<1> QED
  BY <1>1, <1>3, <1>4

(* The sum over nothing. *)
LEMMA SumOnEmpty ==
  ASSUME NEW F
  PROVE  SumFunctionOnSet(F, {}) = 0
<1>1. SumFunctionOnSet(F, {}) = SumFun(F, {})[{}]
  BY DEF SumFunctionOnSet, FoldFunctionOnSet, MapThenFoldSet, SumFun, SumStep, Pick
<1>2. SumFun(F, {})[{}] = SumStep(F, SumFun(F, {}), {})
  BY SumFunAt, FS_EmptySet
<1> QED
  BY <1>1, <1>2 DEF SumStep
==============================================================================
