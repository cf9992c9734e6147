--------------------------- MODULE DispatchProofs ---------------------------
(***************************************************************************)
(* The way of a request to an upstream, proved for every configuration,    *)
(* pool and number of requests: the router and the path it leaves          *)
(* (RouteTheorem, SurvivalTheorem), the round-robin cycles                 *)
(* (SharesTheorem), the least-connections scan (NearlyLeastTheorem,        *)
(* FirstLeastTheorem), the consistent-hash ring (NearestTheorem,           *)
(* EndTheorem), and the wait before another attempt (BackoffTheorem).      *)
(***************************************************************************)
EXTENDS Router, RoundRobin, LeastConnections, HashRing, RetryBackoff,
        InductionLemmas, SequenceTheorems

-----------------------------------------------------------------------------
(***************************************************************************)
(* The router and the path.  A string is a sequence; most of the work is   *)
(* in what a prefix, its rest and the longest of several prefixes are.     *)
(***************************************************************************)
String == Seq(Characters)

(* Being a prefix, character by character. *)
LEMMA PrefixIs ==
  ASSUME NEW s \in String, NEW t \in String
  PROVE  IsPrefix(s, t) <=> Len(s) <= Len(t) /\ \A k \in 1 .. Len(s) : s[k] = t[k]
<1>1. Len(s) \in Nat /\ Len(t) \in Nat
  BY DEF String
<1>2. SubSeq(s, 1, Len(s)) = s
  BY SubSeqFull DEF String
<1>3. CASE Len(s) <= Len(t)
  <2>1. /\ SubSeq(t, 1, Len(s)) \in String
        /\ Len(SubSeq(t, 1, Len(s))) = Len(s)
        /\ \A k \in 1 .. Len(s) : SubSeq(t, 1, Len(s))[k] = t[k]
    BY <1>1, <1>3 DEF String
  <2>2. s = SubSeq(t, 1, Len(s)) <=> \A k \in 1 .. Len(s) : s[k] = SubSeq(t, 1, Len(s))[k]
    BY <2>1, SeqEqual DEF String
  <2> QED
    BY <1>2, <1>3, <2>1, <2>2 DEF IsPrefix
<1> QED
  BY <1>1, <1>3 DEF IsPrefix

(* Of two prefixes of a string, the shorter is a prefix of the longer. *)
LEMMA PrefixesNest ==
  ASSUME NEW s \in String, NEW t \in String, NEW w \in String,
         IsPrefix(s, w), IsPrefix(t, w), Len(s) <= Len(t)
  PROVE  IsPrefix(s, t)
<1>1. Len(s) \in Nat /\ Len(t) \in Nat
  BY DEF String
<1> QED
  BY <1>1, PrefixIs

(* A prefix and the rest. *)
LEMMA StripPrefix ==
  ASSUME NEW s \in String, NEW prefix \in String, IsPrefix(prefix, s)
  PROVE  /\ strip_prefix(s, prefix) \in String
         /\ Len(strip_prefix(s, prefix)) = Len(s) - Len(prefix)
         /\ \A k \in 1 .. Len(s) - Len(prefix) : strip_prefix(s, prefix)[k] = s[Len(prefix) + k]
         /\ prefix \o strip_prefix(s, prefix) = s
<1> DEFINE n == Len(prefix)
           rest == SubSeq(s, n + 1, Len(s))
<1>1. n \in Nat /\ Len(s) \in Nat /\ n <= Len(s) /\ \A k \in 1 .. n : prefix[k] = s[k]
  BY PrefixIs DEF String
<1>2. /\ rest \in String /\ Len(rest) = Len(s) - n
      /\ \A k \in 1 .. Len(s) - n : rest[k] = s[n + k]
  BY <1>1 DEF String
<1>3. strip_prefix(s, prefix) = rest
  BY DEF strip_prefix
<1>4. prefix \o rest = s
  <2> HIDE DEF n, rest
  <2>1. prefix \o rest \in String /\ Len(prefix \o rest) = Len(s)
    BY <1>1, <1>2, ConcatProperties DEF String, n
  <2>2. ASSUME NEW k \in 1 .. Len(s) PROVE (prefix \o rest)[k] = s[k]
    <3>1. (prefix \o rest)[k] = IF k <= Len(prefix) THEN prefix[k] ELSE rest[k - Len(prefix)]
      BY <1>1, <1>2, <2>1, ConcatProperties DEF String, n
    <3> QED
      BY <1>1, <1>2, <3>1 DEF n
  <2> QED
    BY <2>1, <2>2, SeqEqual DEF String
<1> QED
  BY <1>2, <1>3, <1>4

-----------------------------------------------------------------------------
(* What is forwarded to an upstream, and what it begins with. *)
FinalPath ==
  LET stripped_path == strip_prefix(original_path, routes[route])
  IN IF stripped_path = <<>> THEN <<"/">> ELSE stripped_path

Routed == {"rewrite", "forward", "sent", "astray"}

PathTypeOK ==
  /\ \E n \in Nat : routes \in [1 .. n -> String]
  /\ path \in String /\ (path = <<>> \/ path[1] = "/")
  /\ query \in String /\ (query = <<>> \/ query[1] = "?")
  /\ uri \in [authority : {"none", "upstream", "other"}, path : String]

(* The inductive invariant of a request on its way. *)
PathInv ==
  /\ PathTypeOK
  /\ pc \in Routed => /\ route \in Matching
                      /\ \A j \in Matching : Len(routes[j]) <= Len(routes[route])
  /\ pc = "404" => Matching = {}
  /\ pc \in Routed \ {"rewrite"} => uri.path = FinalPath
  /\ pc = "sent" => uri.authority = "upstream"
  /\ pc = "astray" => uri.path[1] \notin {"/", "?"}

(* max_by_key has a maximum to return. *)
LEMMA LongestExists ==
  ASSUME PathTypeOK, Matching # {}
  PROVE  /\ LastLongest(Matching) \in Matching
         /\ \A j \in Matching : Len(routes[j]) <= Len(routes[LastLongest(Matching)])
<1>1. PICK n \in Nat : routes \in [1 .. n -> String]
  BY DEF PathTypeOK
<1>2. ASSUME NEW i \in Matching
      PROVE  /\ i \in 1 .. n /\ routes[i] \in String /\ Len(routes[i]) \in Nat
             /\ Len(routes[i]) <= Len(path)
  <2>1. i \in 1 .. n /\ routes[i] \in String /\ IsPrefix(routes[i], path)
    BY <1>1 DEF Matching
  <2> QED
    BY <2>1, PrefixIs DEF PathTypeOK, String
<1>3. Len(path) \in Nat
  BY DEF PathTypeOK, String
<1> DEFINE S == Matching
           D == {Len(path) - Len(routes[i]) : i \in S}
<1>4. D \subseteq Nat /\ D # {}
  BY <1>2, <1>3
<1>5. PICK d \in D : \A e \in D : d <= e
  <2> HIDE DEF D
  <2> QED
    BY <1>4, LeastOf
<1>6. PICK k \in S : d = Len(path) - Len(routes[k])
  BY <1>5
<1>7. \A j \in S : Len(routes[j]) <= Len(routes[k])
  <2> SUFFICES ASSUME NEW j \in S PROVE Len(routes[j]) <= Len(routes[k])
    OBVIOUS
  <2>1. d <= Len(path) - Len(routes[j])
    BY <1>5
  <2> QED
    BY <1>2, <1>3, <1>6, <2>1
<1> DEFINE Longest == {i \in S : Len(routes[i]) = Len(routes[k])}
           E == {n - i : i \in Longest}
<1>8. E \subseteq Nat /\ E # {}
  BY <1>2
<1>9. PICK e \in E : \A f \in E : e <= f
  <2> HIDE DEF E
  <2> QED
    BY <1>8, LeastOf
<1>10. PICK l \in Longest : e = n - l
  BY <1>9
<1>11. ASSUME NEW j \in S \ {l}
       PROVE  \/ Len(routes[j]) < Len(routes[l])
              \/ Len(routes[j]) = Len(routes[l]) /\ j < l
  <2>1. Len(routes[j]) \in Nat /\ Len(routes[l]) \in Nat /\ j \in Int /\ l \in Int /\ j # l
    BY <1>2
  <2>2. CASE j \in Longest
    <3>1. n - l <= n - j
      BY <1>9, <1>10, <2>2
    <3> QED
      BY <2>1, <2>2, <3>1
  <2>3. CASE j \notin Longest
    BY <1>7, <2>1, <2>3
  <2> QED
    BY <2>2, <2>3
<1>12. \E i \in S : \A j \in S \ {i} :
         \/ Len(routes[j]) < Len(routes[i])
         \/ Len(routes[j]) = Len(routes[i]) /\ j < i
  BY <1>11
<1> HIDE DEF S
<1>13. LET i == LastLongest(S)
       IN /\ i \in S
          /\ \A j \in S \ {i} : \/ Len(routes[j]) < Len(routes[i])
                                \/ Len(routes[j]) = Len(routes[i]) /\ j < i
  BY <1>12 DEF LastLongest
<1>14. ASSUME NEW j \in S PROVE Len(routes[j]) <= Len(routes[LastLongest(S)])
  <2>1. Len(routes[j]) \in Nat /\ Len(routes[LastLongest(S)]) \in Nat
    BY <1>2, <1>13 DEF S
  <2> QED
    BY <1>13, <2>1
<1> QED
  BY <1>13, <1>14 DEF S

(* A route that matches is a prefix of path_and_query too. *)
LEMMA RouteStrips ==
  ASSUME PathTypeOK, route \in Matching
  PROVE  /\ routes[route] \in String /\ IsPrefix(routes[route], path)
         /\ original_path \in String /\ original_path # <<>>
         /\ FinalPath \in String
<1>1. routes[route] \in String /\ IsPrefix(routes[route], path) /\ path \in String /\ query \in String
  BY DEF PathTypeOK, Matching
<1>2. <<"/">> \in String
  BY RouterAssumption DEF String
<1>3. original_path \in String /\ original_path # <<>>
  BY <1>1, <1>2 DEF original_path, String
<1>4. strip_prefix(original_path, routes[route]) \in String
  <2>1. CASE IsPrefix(routes[route], original_path)
    BY <1>1, <1>3, <2>1, StripPrefix
  <2>2. CASE ~IsPrefix(routes[route], original_path)
    BY <1>3, <2>2 DEF strip_prefix
  <2> QED
    BY <2>1, <2>2
<1> QED
  BY <1>1, <1>2, <1>3, <1>4 DEF FinalPath

LEMMA PathInvariant == PathSpec => []PathInv
<1>1. PathInit => PathInv
  <2> SUFFICES ASSUME PathInit PROVE PathInv
    OBVIOUS
  <2>1. PICK n \in 0 .. MaxRoutes : routes \in [1 .. n -> ConfigPrefixes]
    BY DEF PathInit
  <2>2. n \in Nat /\ routes \in [1 .. n -> String]
    BY <2>1, RouterAssumption DEF String
  <2>3. <<>> \in String
    BY DEF String
  <2>4. path \in String /\ query \in String /\ (query = <<>> \/ query[1] = "?") /\ (path = <<>> \/ path[1] = "/")
    BY <2>3, RouterAssumption DEF PathInit, String
  <2> QED
    BY <2>2, <2>3, <2>4 DEF PathInit, PathInv, PathTypeOK, NoUri, Routed
<1>2. ASSUME PathInv, [PathNext]_pathvars PROVE PathInv'
  <2>1. CASE match_route
    <3>1. UNCHANGED <<routes, path, query, uri>> /\ Matching' = Matching
      BY <2>1 DEF match_route, input, Matching
    <3>2. PathTypeOK'
      BY <1>2, <3>1 DEF PathInv, PathTypeOK
    <3>3. CASE Matching = {}
      BY <2>1, <3>1, <3>2, <3>3 DEF match_route, PathInv, Routed
    <3>4. CASE Matching # {}
      BY <1>2, <2>1, <3>1, <3>2, <3>4, LongestExists DEF match_route, PathInv, Routed
    <3> QED
      BY <3>3, <3>4
  <2>2. CASE Rewrite
    <3>1. /\ UNCHANGED <<routes, path, query, route>> /\ Matching' = Matching
          /\ FinalPath' = FinalPath /\ pc = "rewrite" /\ pc' = "forward"
      BY <2>2 DEF Rewrite, input, Matching, FinalPath, original_path
    <3>2. uri' = [uri EXCEPT !.path = FinalPath]
      BY <2>2 DEF Rewrite, FinalPath
    <3>3. PathTypeOK /\ route \in Matching /\ FinalPath \in String
      BY <1>2, <3>1, RouteStrips DEF PathInv, Routed
    <3>4. PathTypeOK' /\ uri'.path = FinalPath
      BY <3>1, <3>2, <3>3 DEF PathTypeOK
    <3> QED
      BY <1>2, <3>1, <3>4 DEF PathInv, Routed
  <2>3. CASE forward_once
    <3>1. /\ UNCHANGED <<routes, path, query, route>> /\ Matching' = Matching
          /\ FinalPath' = FinalPath /\ pc = "forward"
      BY <2>3 DEF forward_once, input, Matching, FinalPath, original_path
    <3>2. PathTypeOK' /\ uri'.path = uri.path
      BY <1>2, <2>3, <3>1 DEF forward_once, PathInv, PathTypeOK
    <3>3. \/ pc' = "sent" /\ uri'.authority = "upstream"
          \/ pc' = "astray" /\ uri'.path[1] \notin {"/", "?"}
      BY <1>2, <2>3, <3>2 DEF forward_once, PathInv, PathTypeOK
    <3> QED
      BY <1>2, <3>1, <3>2, <3>3 DEF PathInv, Routed
  <2>4. CASE UNCHANGED pathvars
    BY <1>2, <2>4
    DEF pathvars, PathInv, PathTypeOK, Matching, FinalPath, original_path
  <2> QED
    BY <1>2, <2>1, <2>2, <2>3, <2>4 DEF PathNext, PathDone
<1> QED
  BY <1>1, <1>2, PTL DEF PathSpec

(***************************************************************************)
(* router.rs:22 - for any routes in any order, any path and any alphabet,  *)
(* the route of a request is the most specific that applies, and a 404 has *)
(* none.                                                                   *)
(***************************************************************************)
THEOREM RouteTheorem == PathSpec => []MostSpecificRoute
<1>1. PathInv => MostSpecificRoute
  <2> SUFFICES ASSUME PathInv PROVE MostSpecificRoute
    OBVIOUS
  <2>1. ASSUME pc \in Routed, NEW i \in DOMAIN routes, IsPrefix(routes[i], path)
        PROVE  IsPrefix(routes[i], routes[route])
    <3>1. i \in Matching /\ route \in Matching
      BY <2>1 DEF PathInv, Matching
    <3>2. routes[i] \in String /\ routes[route] \in String /\ path \in String
      BY <3>1 DEF PathInv, PathTypeOK, Matching
    <3>3. Len(routes[i]) <= Len(routes[route]) /\ IsPrefix(routes[route], path)
      BY <2>1, <3>1 DEF PathInv, Matching
    <3> QED
      BY <2>1, <3>2, <3>3, PrefixesNest
  <2>2. pc \in Routed => IsPrefix(routes[route], path)
    BY DEF PathInv, Matching
  <2>3. pc = "404" => \A i \in DOMAIN routes : ~IsPrefix(routes[i], path)
    BY DEF PathInv, Matching
  <2> QED
    BY <2>1, <2>2, <2>3 DEF MostSpecificRoute, Routed
<1> QED
  BY <1>1, PathInvariant, PTL

(***************************************************************************)
(* proxy.rs:154 - where the prefix ends with a whole segment, the request  *)
(* goes to the upstream, and its path and query are what the client sent   *)
(* without the prefix.                                                     *)
(***************************************************************************)
THEOREM SurvivalTheorem == PathSpec => []PathSurvives
<1>1. PathInv => PathSurvives
  <2> SUFFICES ASSUME PathInv, pc \in {"sent", "astray"}, OnSegment
               PROVE  /\ uri.authority = "upstream"
                      /\ routes[route] \o uri.path = IF path \o query = routes[route]
                                                       THEN routes[route] \o <<"/">>
                                                       ELSE path \o query
    BY DEF PathSurvives
  <2> DEFINE prefix == routes[route]
             n == Len(prefix)
             whole == path \o query
             rest == strip_prefix(whole, prefix)
  <2>1. /\ PathTypeOK /\ route \in Matching /\ uri.path = FinalPath
        /\ pc = "sent" => uri.authority = "upstream"
        /\ pc = "astray" => uri.path[1] \notin {"/", "?"}
    BY DEF PathInv, Routed
  <2>2. /\ prefix \in String /\ IsPrefix(prefix, path)
        /\ path \in String /\ query \in String /\ (query = <<>> \/ query[1] = "?")
    BY <2>1, RouteStrips DEF PathTypeOK
  <2>3. /\ n \in Nat /\ Len(path) \in Nat /\ Len(query) \in Nat /\ n <= Len(path) /\ n > 0
        /\ \A k \in 1 .. n : prefix[k] = path[k]
    BY <2>2, PrefixIs DEF String, OnSegment
  <2>4. path # <<>> /\ original_path = whole
    BY <2>2, <2>3 DEF original_path, String
  <2>5. /\ whole \in String /\ Len(whole) = Len(path) + Len(query)
        /\ \A k \in 1 .. Len(path) + Len(query) :
             whole[k] = IF k <= Len(path) THEN path[k] ELSE query[k - Len(path)]
    BY <2>2, ConcatProperties DEF String
  <2>6. IsPrefix(prefix, whole)
    <3> HIDE DEF whole, n, prefix
    <3>1. n = Len(prefix)
      BY DEF n
    <3>2. Len(prefix) <= Len(whole)
      BY <2>3, <2>5, <3>1
    <3>3. \A k \in 1 .. Len(prefix) : prefix[k] = whole[k]
      BY <2>3, <2>5, <3>1
    <3> QED
      BY <2>2, <2>5, <3>2, <3>3, PrefixIs
  <2>7. /\ rest \in String /\ Len(rest) = Len(whole) - n /\ prefix \o rest = whole
        /\ \A k \in 1 .. Len(whole) - n : rest[k] = whole[n + k]
    BY <2>2, <2>5, <2>6, StripPrefix
  <2>8. uri.path = IF rest = <<>> THEN <<"/">> ELSE rest
    BY <2>1, <2>4 DEF FinalPath
  <2>9. CASE rest = <<>>
    <3>1. whole = prefix
      BY <2>2, <2>7, <2>9, ConcatEmptySeq DEF String
    <3>2. uri.path[1] = "/"
      BY <2>8, <2>9
    <3> QED
      BY <2>1, <2>8, <2>9, <3>1, <3>2
  <2>10. CASE rest # <<>>
    <3>1. Len(rest) > 0
      <4> HIDE DEF rest
      <4>1. Len(rest) \in Nat \ {0}
        BY <2>7, <2>10, EmptySeq DEF String
      <4> QED
        BY <4>1
    <3>2. Len(whole) \in Nat /\ n < Len(whole)
      <4> HIDE DEF whole, rest, n
      <4>1. Len(whole) \in Nat
        BY <2>3, <2>5
      <4> QED
        BY <2>3, <2>7, <3>1, <4>1
    <3>3. rest[1] = whole[n + 1] /\ whole # prefix
      <4>1. 1 \in 1 .. Len(whole) - n
        <5> HIDE DEF whole, rest, n
        <5> QED
          BY <2>3, <3>2
      <4>2. whole # prefix
        <5> HIDE DEF whole, rest
        <5> QED
          BY <2>3, <3>2
      <4> QED
        BY <2>7, <4>1, <4>2
    <3>4. whole[n + 1] \in {"/", "?"}
      <4>1. CASE n = Len(path)
        <5>1. Len(query) > 0 /\ query # <<>>
          <6> HIDE DEF whole, rest
          <6>1. Len(query) > 0
            BY <2>3, <2>5, <2>7, <3>1, <4>1
          <6> QED
            BY <6>1
        <5>2. whole[n + 1] = query[1]
          <6> HIDE DEF whole, rest
          <6>1. n + 1 \in 1 .. Len(path) + Len(query) /\ ~(n + 1 <= Len(path)) /\ n + 1 - Len(path) = 1
            BY <2>3, <4>1, <5>1
          <6> QED
            BY <2>5, <6>1
        <5> QED
          BY <2>2, <5>1, <5>2
      <4>2. CASE n # Len(path)
        <5>1. path[n + 1] = "/"
          BY <4>2 DEF OnSegment
        <5>2. n + 1 \in 1 .. Len(path) + Len(query) /\ n + 1 <= Len(path)
          BY <2>3, <4>2
        <5> HIDE DEF whole
        <5> QED
          BY <2>5, <5>1, <5>2
      <4> QED
        BY <4>1, <4>2
    <3> QED
      BY <2>1, <2>7, <2>8, <2>10, <3>2, <3>3, <3>4
  <2> QED
    BY <2>9, <2>10
<1> QED
  BY <1>1, PathInvariant, PTL

-----------------------------------------------------------------------------
(***************************************************************************)
(* The round-robin cycles (balancer.rs:40, 112).  A schedule has each      *)
(* index as often as its weight says (ScheduleCounts, by induction on the  *)
(* weights); RRInv ties every call in the window to the counter it found;  *)
(* and calls in a row meet every place of the cycle once (RowIsCycle).     *)
(***************************************************************************)
(* A remainder is the only one of its kind. *)
LEMMA ModUnique ==
  ASSUME NEW m \in Nat, m > 0, NEW x \in Int, NEW q \in Int, NEW r \in 0 .. m - 1, x = m * q + r
  PROVE  (x % m) = r
<1>1. x = m * (x \div m) + (x % m) /\ (x % m) \in 0 .. m - 1 /\ x \div m \in Int
  OBVIOUS
<1>2. m * (q - (x \div m)) = (x % m) - r
  BY <1>1
<1>3. \A k \in Int : m * k < m /\ m * k > 0 - m => k = 0
  OBVIOUS
<1>4. q - (x \div m) = 0
  BY <1>1, <1>2, <1>3
<1> QED
  BY <1>1, <1>4

(* Counting on from a remainder. *)
LEMMA ModShift ==
  ASSUME NEW m \in Nat, m > 0, NEW x \in Int, NEW d \in 0 .. m - 1
  PROVE  /\ x % m \in 0 .. m - 1
         /\ (x + d) % m = IF (x % m) + d < m THEN (x % m) + d ELSE (x % m) + d - m
<1> DEFINE q == x \div m
           r == x % m
<1>1. x = m * q + r /\ r \in 0 .. m - 1 /\ q \in Int
  OBVIOUS
<1> HIDE DEF q, r
<1>2. ASSUME r + d < m PROVE (x + d) % m = r + d
  <2>1. x + d = m * q + (r + d) /\ r + d \in 0 .. m - 1 /\ x + d \in Int
    BY <1>1, <1>2
  <2> QED
    BY <1>1, <2>1, ModUnique
<1>3. ASSUME ~(r + d < m) PROVE (x + d) % m = r + d - m
  <2>1. x + d = m * (q + 1) + (r + d - m) /\ r + d - m \in 0 .. m - 1 /\ x + d \in Int /\ q + 1 \in Int
    BY <1>1, <1>3
  <2> QED
    BY <2>1, ModUnique
<1> QED
  BY <1>1, <1>2, <1>3 DEF r

(* Whole laps more do not change a remainder. *)
LEMMA ModLap ==
  ASSUME NEW m \in Nat, m > 0, NEW x \in Int, NEW y \in Nat, y % m = 0
  PROVE  (x + y) % m = x % m
<1> DEFINE q == x \div m
           r == x % m
           l == y \div m
<1>1. x = m * q + r /\ r \in 0 .. m - 1 /\ q \in Int
  OBVIOUS
<1>2. y = m * l + (y % m) /\ l \in Int
  OBVIOUS
<1> HIDE DEF q, r, l
<1>3. x + y = m * (q + l) + r /\ x + y \in Int /\ q + l \in Int
  BY <1>1, <1>2
<1>4. (x + y) % m = r
  BY <1>1, <1>3, ModUnique
<1> QED
  BY <1>4 DEF r

(* FlattenSeq, prefix by prefix. *)
Flat(seqs) ==
  CHOOSE f : f = [i \in 1 .. Len(seqs) |-> IF i = 1 THEN seqs[i] ELSE f[i - 1] \o seqs[i]]

LEMMA FlatIs ==
  ASSUME NEW seqs, Len(seqs) \in Nat
  PROVE  /\ FlattenSeq(seqs) = IF Len(seqs) = 0 THEN seqs ELSE Flat(seqs)[Len(seqs)]
         /\ \A i \in 1 .. Len(seqs) :
              Flat(seqs)[i] = IF i = 1 THEN seqs[i] ELSE Flat(seqs)[i - 1] \o seqs[i]
<1> DEFINE Step(g, i) == IF i = 1 THEN seqs[i] ELSE g[i - 1] \o seqs[i]
           Upto(g, n) == \A i \in 1 .. n : g[i] = Step(g, i)
           G == {n \in Nat : \E g : Upto(g, n)}
           N == Len(seqs)
<1>1. 0 \in G
  OBVIOUS
<1>2. ASSUME NEW n \in Nat, n \in G PROVE n + 1 \in G
  <2>1. PICK g : Upto(g, n)
    BY <1>2
  <2> DEFINE f == [i \in 1 .. n + 1 |-> IF i <= n THEN g[i] ELSE Step(g, i)]
  <2>2. ASSUME NEW i \in 1 .. n + 1 PROVE f[i] = Step(f, i)
    <3>1. i # 1 => i - 1 \in 1 .. n + 1 /\ i - 1 <= n
      OBVIOUS
    <3>2. f[i] = Step(g, i)
      BY <2>1
    <3>3. i # 1 => f[i - 1] = g[i - 1]
      BY <3>1
    <3> HIDE DEF f
    <3> QED
      BY <3>2, <3>3
  <2> HIDE DEF f
  <2>3. Upto(f, n + 1)
    BY <2>2
  <2> QED
    BY <2>3
<1>3. N \in G
  <2> HIDE DEF G
  <2> QED
    BY <1>1, <1>2, NatSetInduction
<1>4. PICK g : Upto(g, N)
  BY <1>3
<1> DEFINE h == [i \in 1 .. N |-> g[i]]
<1>5. ASSUME NEW i \in 1 .. N PROVE h[i] = Step(h, i)
  <2>1. i # 1 => i - 1 \in 1 .. N
    OBVIOUS
  <2> QED
    BY <1>4, <2>1
<1>6. h = [i \in 1 .. N |-> Step(h, i)]
  BY <1>5
<1> HIDE DEF h
<1>7. Flat(seqs) = [i \in 1 .. N |-> Step(Flat(seqs), i)]
  BY <1>6 DEF Flat
<1>8. FlattenSeq(seqs) = IF Len(seqs) = 0 THEN seqs ELSE Flat(seqs)[Len(seqs)]
  BY DEF FlattenSeq, Flat
<1> HIDE DEF N
<1>9. \A i \in 1 .. N : Flat(seqs)[i] = Step(Flat(seqs), i)
  BY <1>7
<1> QED
  BY <1>8, <1>9 DEF N

(* The places of a sequence of indices that come round to upstream u. *)
Places(s, u) == {p \in 1 .. Len(s) : s[p] % pool_size = u}

(* Appending an index n times. *)
LEMMA PlacesAppended ==
  ASSUME NEW s \in Seq(Nat), NEW c \in Nat, NEW n \in Nat, NEW u \in Pool
  PROVE  /\ s \o [j \in 1 .. n |-> c] \in Seq(Nat)
         /\ Cardinality(Places(s \o [j \in 1 .. n |-> c], u))
              = Cardinality(Places(s, u)) + IF c % pool_size = u THEN n ELSE 0
<1> DEFINE t == [j \in 1 .. n |-> c]
           l == Len(s)
           new == IF c % pool_size = u THEN l + 1 .. l + n ELSE {}
<1>1. t \in Seq(Nat) /\ Len(t) = n /\ l \in Nat
  OBVIOUS
<1>2. /\ s \o t \in Seq(Nat) /\ Len(s \o t) = l + n
      /\ \A i \in 1 .. l + n : (s \o t)[i] = IF i <= l THEN s[i] ELSE t[i - l]
  BY <1>1, ConcatProperties
<1>3. ASSUME NEW i \in 1 .. l + n PROVE (s \o t)[i] = IF i <= l THEN s[i] ELSE c
  <2>1. ~(i <= l) => i - l \in 1 .. n
    BY <1>1
  <2> QED
    BY <1>2, <2>1
<1>4. IsFiniteSet(Places(s, u)) /\ Cardinality(Places(s, u)) \in Nat
  <2>1. IsFiniteSet(1 .. l)
    BY <1>1, FS_Interval
  <2> QED
    BY <2>1, FS_Subset, FS_CardinalityType DEF Places
<1>5. IsFiniteSet(new) /\ Cardinality(new) = IF c % pool_size = u THEN n ELSE 0
  <2>1. CASE c % pool_size = u
    <3>1. l + 1 \in Int /\ l + n \in Int /\ (IF l + 1 > l + n THEN 0 ELSE l + n - (l + 1) + 1) = n
      BY <1>1
    <3> QED
      BY <2>1, <3>1, FS_Interval
  <2>2. CASE c % pool_size # u
    BY <2>2, FS_EmptySet
  <2> QED
    BY <2>1, <2>2
<1> HIDE DEF t, l
<1>6. Places(s \o t, u) = Places(s, u) \cup new
  BY <1>1, <1>2, <1>3 DEF Places, l
<1>7. Places(s, u) \cap new = {}
  BY <1>1 DEF Places, l
<1> HIDE DEF new
<1>8. Cardinality(Places(s, u) \cup new) = Cardinality(Places(s, u)) + Cardinality(new) - Cardinality({})
  BY <1>4, <1>5, <1>7, FS_Union
<1>9. Cardinality({}) = 0
  BY FS_EmptySet
<1>10. Cardinality(Places(s \o t, u)) = Cardinality(Places(s, u)) + Cardinality(new)
  <2>1. Cardinality(new) \in Nat
    BY <1>5, FS_CardinalityType
  <2> QED
    BY <1>4, <1>6, <1>8, <1>9, <2>1
<1> QED
  BY <1>2, <1>5, <1>10 DEF t

(* The weights that come round to upstream u, of the first k. *)
Mine(k, u) == {i \in 1 .. k : (i - 1) % pool_size = u}

(* The schedule has each upstream as often as its weights say. *)
LEMMA ScheduleCounts ==
  ASSUME NEW m \in Nat, NEW w \in [1 .. m -> Nat], NEW u \in Pool
  PROVE  /\ Schedule(w) \in Seq(Nat)
         /\ Cardinality(Places(Schedule(w), u)) = SumFunctionOnSet(w, Mine(m, u))
<1> DEFINE seqs == [i \in 1 .. m |-> [n \in 1 .. w[i] |-> i - 1]]
           F == Flat(seqs)
           G == {k \in Nat : k \in 1 .. m =>
                   /\ F[k] \in Seq(Nat)
                   /\ Cardinality(Places(F[k], u)) = SumFunctionOnSet(w, Mine(k, u))}
<1>1. Len(w) = m /\ Len(seqs) = m
  OBVIOUS
<1>2. Schedule(w) = FlattenSeq(seqs)
  BY <1>1 DEF Schedule
<1>3. /\ FlattenSeq(seqs) = IF m = 0 THEN seqs ELSE F[m]
      /\ \A i \in 1 .. m : F[i] = IF i = 1 THEN seqs[i] ELSE F[i - 1] \o seqs[i]
  <2> HIDE DEF seqs
  <2> QED
    BY <1>1, FlatIs
<1>4. \A i \in 1 .. m : seqs[i] = [n \in 1 .. w[i] |-> i - 1] /\ w[i] \in Nat /\ i - 1 \in Nat
  OBVIOUS
<1>5. IsFiniteSet(1 .. m) /\ w \in [1 .. m -> Int]
  BY FS_Interval
<1> HIDE DEF seqs, F
<1>6. ASSUME NEW k \in 1 .. m
      PROVE  /\ Mine(k, u) = IF (k - 1) % pool_size = u THEN Mine(k - 1, u) \cup {k} ELSE Mine(k - 1, u)
             /\ Mine(k - 1, u) \in SUBSET (1 .. m) /\ k \notin Mine(k - 1, u)
  BY DEF Mine
<1>7. ASSUME NEW k \in 1 .. m
      PROVE  SumFunctionOnSet(w, Mine(k, u))
               = SumFunctionOnSet(w, Mine(k - 1, u)) + IF (k - 1) % pool_size = u THEN w[k] ELSE 0
  <2>1. /\ SumFunctionOnSet(w, Mine(k - 1, u)) \in Int
        /\ SumFunctionOnSet(w, Mine(k - 1, u) \cup {k}) = SumFunctionOnSet(w, Mine(k - 1, u)) + w[k]
    <3> DEFINE S == 1 .. m
               s == Mine(k - 1, u)
               v == w
               a == k
    <3>1. IsFiniteSet(S) /\ v \in [S -> Int] /\ s \in SUBSET S /\ a \in S /\ a \notin s
      BY <1>5, <1>6
    <3> HIDE DEF S, s, v, a
    <3>2. SumFunctionOnSet(v, s) \in Int /\ SumFunctionOnSet(v, s \cup {a}) = SumFunctionOnSet(v, s) + v[a]
      BY ONLY <3>1, SumOnAdd
    <3> QED
      BY <3>2 DEF s, v, a
  <2>2. CASE (k - 1) % pool_size = u
    BY <1>6, <2>1, <2>2
  <2>3. CASE (k - 1) % pool_size # u
    BY <1>6, <2>1, <2>3
  <2> QED
    BY <2>2, <2>3
<1>8. SumFunctionOnSet(w, Mine(0, u)) = 0
  <2>1. Mine(0, u) = {}
    BY DEF Mine
  <2> QED
    BY <2>1, SumOnEmpty
<1>9. <<>> \in Seq(Nat) /\ Cardinality(Places(<<>>, u)) = 0
  <2>3. <<>> \in Seq(Nat)
    OBVIOUS
  <2>1. Places(<<>>, u) = {}
    <3>1. 1 .. Len(<<>>) = {}
      OBVIOUS
    <3> QED
      BY <3>1 DEF Places
  <2>2. Cardinality({}) = 0
    BY FS_EmptySet
  <2> QED
    BY <2>1, <2>2, <2>3
<1>10. 0 \in G
  OBVIOUS
<1>11. ASSUME NEW k \in Nat, k \in G PROVE k + 1 \in G
  <2> SUFFICES ASSUME k + 1 \in 1 .. m
               PROVE  /\ F[k + 1] \in Seq(Nat)
                      /\ Cardinality(Places(F[k + 1], u)) = SumFunctionOnSet(w, Mine(k + 1, u))
    OBVIOUS
  <2> DEFINE s == IF k = 0 THEN <<>> ELSE F[k]
             t == [j \in 1 .. w[k + 1] |-> k]
  <2>1. s \in Seq(Nat) /\ Cardinality(Places(s, u)) = SumFunctionOnSet(w, Mine(k, u))
    BY <1>8, <1>9, <1>11
  <2>2. seqs[k + 1] = t /\ w[k + 1] \in Nat /\ t \in Seq(Nat)
    BY <1>4
  <2>3. F[k + 1] = s \o t
    <3>1. CASE k = 0
      <4>1. <<>> \o t = t
        BY <2>2, ConcatEmptySeq
      <4> QED
        BY <1>3, <2>2, <3>1, <4>1
    <3>2. CASE k # 0
      <4>1. k + 1 # 1 /\ (k + 1) - 1 = k
        BY <3>2
      <4> QED
        BY <1>3, <2>2, <3>2, <4>1
    <3> QED
      BY <3>1, <3>2
  <2> HIDE DEF s
  <2>4. /\ s \o t \in Seq(Nat)
        /\ Cardinality(Places(s \o t, u)) = Cardinality(Places(s, u)) + IF k % pool_size = u THEN w[k + 1] ELSE 0
    BY <2>1, <2>2, PlacesAppended
  <2>5. SumFunctionOnSet(w, Mine(k + 1, u)) = SumFunctionOnSet(w, Mine(k, u)) + IF k % pool_size = u THEN w[k + 1] ELSE 0
    <3>1. (k + 1) - 1 = k
      OBVIOUS
    <3> QED
      BY <1>7, <3>1
  <2> QED
    BY <2>1, <2>3, <2>4, <2>5
<1>12. m \in G
  <2> HIDE DEF G
  <2> QED
    BY <1>10, <1>11, NatSetInduction
<1>13. CASE m = 0
  <2>1. seqs = <<>>
    BY <1>13 DEF seqs
  <2> QED
    BY <1>2, <1>3, <1>8, <1>9, <1>13, <2>1
<1>14. CASE m # 0
  BY <1>2, <1>3, <1>12, <1>14
<1> QED
  BY <1>13, <1>14

(* The route that create_balancer is given. *)
RouteType ==
  /\ strategy \in {"round_robin", "weighted_round_robin"}
  /\ weights \in {NoWeights} \cup UNION {[1 .. n -> 0 .. MaxWeight] : n \in 0 .. MaxWeights}

(* A cycle has each upstream as often as its share says. *)
LEMMA CycleCounts ==
  ASSUME RouteType, NEW u \in Pool
  PROVE  Cycle \in Seq(Nat) /\ Cardinality(Places(Cycle, u)) = Share(u)
<1>1. CASE strategy = "round_robin"
  <2> DEFINE c == [i \in 1 .. pool_size |-> i - 1]
  <2>1. Cycle = c /\ Share(u) = 1
    BY <1>1 DEF Cycle, Share
  <2>2. pool_size \in Nat /\ pool_size > 0
    BY BalancerAssumption
  <2>3. c \in Seq(Nat) /\ Len(c) = pool_size /\ \A i \in 1 .. pool_size : c[i] = i - 1
    BY <2>2
  <2>4. \A i \in 1 .. pool_size : (i - 1) % pool_size = i - 1
    BY <2>2
  <2> HIDE DEF c
  <2>5. u \in Nat /\ u + 1 \in 1 .. pool_size
    BY <2>2 DEF Pool
  <2>6. Places(c, u) = {u + 1}
    <3>1. \A p \in 1 .. pool_size : c[p] % pool_size = u <=> p = u + 1
      <4> SUFFICES ASSUME NEW p \in 1 .. pool_size PROVE c[p] % pool_size = u <=> p = u + 1
        OBVIOUS
      <4>1. c[p] % pool_size = p - 1
        BY <2>3, <2>4
      <4> QED
        BY <2>2, <2>5, <4>1
    <3> QED
      BY <2>3, <2>5, <3>1 DEF Places
  <2>7. Cardinality({u + 1}) = 1
    BY FS_Singleton
  <2> QED
    BY <2>1, <2>3, <2>6, <2>7
<1>2. CASE strategy # "round_robin"
  <2>1. PICK m \in Nat : Effective \in [1 .. m -> Nat]
    <3>1. CASE weights = NoWeights
      <4>1. pool_size \in Nat /\ Effective \in [1 .. pool_size -> Nat]
        BY <3>1, BalancerAssumption DEF Effective
      <4> QED
        BY <4>1
    <3>2. CASE weights # NoWeights
      <4>1. PICK n \in 0 .. MaxWeights : weights \in [1 .. n -> 0 .. MaxWeight]
        BY <3>2 DEF RouteType
      <4>2. n \in Nat /\ 0 .. MaxWeight \subseteq Nat
        BY RoundRobinAssumption
      <4>3. Effective = weights
        BY <3>2 DEF Effective
      <4> QED
        BY <4>1, <4>2, <4>3
    <3> QED
      BY <3>1, <3>2
  <2> DEFINE w == Effective
  <2>2. w \in [1 .. m -> Nat]
    BY <2>1
  <2> HIDE DEF w
  <2>3. /\ Schedule(w) \in Seq(Nat)
        /\ Cardinality(Places(Schedule(w), u)) = SumFunctionOnSet(w, Mine(m, u))
    BY <2>2, ScheduleCounts
  <2>4. Len(w) = m
    BY <2>2
  <2>5. Cycle = Schedule(w)
    BY <1>2 DEF Cycle, w
  <2>6. Share(u) = SumFunctionOnSet(w, Mine(m, u))
    BY <1>2, <2>4 DEF Share, Mine, w
  <2> QED
    BY <2>3, <2>5, <2>6
<1> QED
  BY <1>1, <1>2

(* The counter that the i-th of the latest l calls found, when it is c now. *)
CallAt(c, l, i) == LET n == c - l + i - 1 IN IF n >= 0 THEN n ELSE n + USIZE

(***************************************************************************)
(* What the history of the calls records: each of the latest calls took    *)
(* the entry of the cycle under the counter as it found it.                *)
(***************************************************************************)
Recorded ==
  /\ Len(recent) <= Len(Cycle)
  /\ \A i \in 1 .. Len(recent) :
       recent[i] = Cycle[(CallAt(counter, Len(recent), i) % Len(Cycle)) + 1] % pool_size

RRInv ==
  /\ RouteType
  /\ counter \in 0 .. USIZE - 1
  /\ recent \in Seq(Nat)
  /\ Cycle = <<>> => recent = <<>>
  /\ Len(Cycle) <= USIZE => Recorded

(* One more call moves none of the calls that stay in the window. *)
LEMMA CallAtStep ==
  ASSUME NEW c \in 0 .. USIZE - 1, NEW l \in Nat, l <= USIZE
  PROVE  /\ fetch_add(c) \in 0 .. USIZE - 1
         /\ l < USIZE => /\ CallAt(fetch_add(c), l + 1, l + 1) = c
                         /\ \A i \in 1 .. l : CallAt(fetch_add(c), l + 1, i) = CallAt(c, l, i)
         /\ l > 0 => /\ CallAt(fetch_add(c), l, l) = c
                     /\ \A i \in 1 .. l - 1 : CallAt(fetch_add(c), l, i) = CallAt(c, l, i + 1)
<1>1. USIZE \in Nat /\ USIZE > 0
  BY BalancerAssumption
<1>2. fetch_add(c) = IF c + 1 = USIZE THEN 0 ELSE c + 1
  BY <1>1 DEF fetch_add
<1> QED
  BY <1>1, <1>2 DEF CallAt

LEMMA RRStep ==
  ASSUME RRInv, [RRNext]_rrvars
  PROVE  RRInv'
<1>1. CASE UNCHANGED rrvars
  BY <1>1 DEF rrvars, RRInv, RouteType, Recorded, Cycle, Effective, NoWeights
<1>2. CASE next_index
  <2> DEFINE C == Cycle
             L == Len(C)
             l == Len(recent)
             x == C[(counter % L) + 1] % pool_size
             tried == Append(recent, x)
  <2>1. C' = C /\ RouteType'
    BY <1>2 DEF next_index, RRInv, RouteType, Cycle, Effective, NoWeights
  <2>2. pool_size \in Nat /\ pool_size > 0 /\ USIZE \in Nat /\ USIZE > 0
    BY BalancerAssumption
  <2>3. C \in Seq(Nat) /\ L \in Nat
    <3>1. 0 \in Pool
      BY <2>2 DEF Pool
    <3> QED
      BY <3>1, CycleCounts DEF RRInv
  <2>4. counter' = fetch_add(counter) /\ counter \in 0 .. USIZE - 1 /\ counter' \in 0 .. USIZE - 1
    BY <1>2, <2>2 DEF next_index, RRInv, fetch_add
  <2>5. recent \in Seq(Nat) /\ l \in Nat
    BY DEF RRInv
  <2>6. CASE C = <<>>
    <3>1. recent' = <<>> /\ recent = <<>> /\ L = 0
      BY <1>2, <2>6 DEF next_index, RRInv
    <3>2. recent' \in Seq(Nat) /\ Len(recent') = 0 /\ Len(C') = 0
      BY <2>1, <3>1
    <3>3. Recorded'
      BY <3>2 DEF Recorded
    <3> QED
      BY <2>1, <2>4, <3>1, <3>2, <3>3 DEF RRInv
  <2>7. CASE C # <<>>
    <3>1. L > 0 /\ counter % L \in 0 .. L - 1
      BY <2>3, <2>4, <2>7
    <3>2. x \in Nat
      <4>1. (counter % L) + 1 \in 1 .. L
        BY <2>3, <3>1
      <4>2. C[(counter % L) + 1] \in Nat
        BY <2>3, <4>1
      <4> QED
        BY <2>2, <4>2
    <3>3. /\ recent' = IF Len(tried) > L THEN Tail(tried) ELSE tried
      BY <1>2, <2>7 DEF next_index
    <3> HIDE DEF C, x
    <3>4. /\ tried \in Seq(Nat) /\ tried # <<>> /\ Len(tried) = l + 1
          /\ \A i \in 1 .. l : tried[i] = recent[i]
          /\ tried[l + 1] = x
      BY <2>5, <3>2, AppendProperties
    <3>5. /\ Tail(tried) \in Seq(Nat) /\ Len(Tail(tried)) = l
          /\ \A i \in 1 .. l : Tail(tried)[i] = tried[i + 1]
      <4>1. /\ Tail(tried) \in Seq(Nat)
            /\ Len(Tail(tried)) = Len(tried) - 1
            /\ \A i \in 1 .. Len(Tail(tried)) : Tail(tried)[i] = tried[i + 1]
        BY <3>4, HeadTailProperties
      <4>2. (l + 1) - 1 = l
        BY <2>5
      <4> HIDE DEF tried, l
      <4> QED
        BY <3>4, <4>1, <4>2
    <3> HIDE DEF tried
    <3>6. recent' \in Seq(Nat)
      BY <3>3, <3>4, <3>5
    <3>7. ASSUME L <= USIZE PROVE Recorded'
      <4>1. l <= L /\ \A i \in 1 .. l : recent[i] = C[(CallAt(counter, l, i) % L) + 1] % pool_size
        BY <3>7 DEF RRInv, Recorded, C
      <4>2. l <= USIZE
        BY <2>2, <2>3, <2>5, <3>7, <4>1
      <4>3. CASE l < L
        <5>1. recent' = tried /\ Len(recent') = l + 1 /\ l + 1 <= L /\ l < USIZE
          BY <2>2, <2>3, <2>5, <3>3, <3>4, <3>7, <4>3
        <5>2. ASSUME NEW i \in 1 .. l + 1
              PROVE  tried[i] = C[(CallAt(counter', l + 1, i) % L) + 1] % pool_size
          <6>1. CASE i = l + 1
            BY <2>4, <2>5, <3>4, <4>2, <5>1, <6>1, CallAtStep DEF x
          <6>2. CASE i # l + 1
            <7>1. i \in 1 .. l
              BY <2>5, <6>2
            <7>2. CallAt(counter', l + 1, i) = CallAt(counter, l, i)
              BY <2>4, <2>5, <4>2, <5>1, <7>1, CallAtStep
            <7> QED
              BY <3>4, <4>1, <7>1, <7>2
          <6> QED
            BY <6>1, <6>2
        <5> QED
          BY <2>1, <5>1, <5>2 DEF Recorded, C
      <4>4. CASE l = L
        <5>1. recent' = Tail(tried) /\ Len(recent') = l
          BY <2>3, <2>5, <3>3, <3>4, <3>5, <4>4
        <5>2. ASSUME NEW i \in 1 .. l
              PROVE  Tail(tried)[i] = C[(CallAt(counter', l, i) % L) + 1] % pool_size
          <6>1. CASE i = l
            <7>1. CallAt(counter', l, l) = counter
              BY <2>4, <2>5, <4>2, <3>1, <4>4, CallAtStep
            <7> QED
              BY <3>4, <3>5, <6>1, <7>1 DEF x
          <6>2. CASE i # l
            <7>1. i \in 1 .. l - 1 /\ i + 1 \in 1 .. l
              BY <2>5, <6>2
            <7>2. CallAt(counter', l, i) = CallAt(counter, l, i + 1)
              BY <2>4, <2>5, <4>2, <3>1, <4>4, <7>1, CallAtStep
            <7>3. Tail(tried)[i] = recent[i + 1]
              BY <3>4, <3>5, <7>1
            <7> QED
              BY <4>1, <7>1, <7>2, <7>3
          <6> QED
            BY <6>1, <6>2
        <5> QED
          BY <2>1, <4>4, <5>1, <5>2 DEF Recorded, C
      <4> QED
        BY <2>3, <2>5, <4>1, <4>3, <4>4
    <3>8. C' # <<>> /\ (Len(C') <= USIZE => L <= USIZE)
      BY <2>1, <2>7
    <3> QED
      BY <2>1, <2>4, <3>6, <3>7, <3>8 DEF RRInv, C
  <2> QED
    BY <2>6, <2>7
<1> QED
  BY <1>1, <1>2 DEF RRNext

LEMMA RRInvariant == RRSpec => []RRInv
<1>1. RRInit => RRInv
  <2> SUFFICES ASSUME RRInit PROVE RRInv
    OBVIOUS
  <2>1. RouteType /\ counter = 0 /\ recent = <<>>
    BY DEF RRInit, RouteType
  <2>2. USIZE \in Nat /\ USIZE > 0 /\ 0 \in Pool
    BY BalancerAssumption DEF Pool
  <2>3. Cycle \in Seq(Nat)
    BY <2>1, <2>2, CycleCounts
  <2>4. recent \in Seq(Nat) /\ Len(recent) = 0 /\ Len(Cycle) \in Nat
    BY <2>1, <2>3
  <2>5. Recorded
    BY <2>4 DEF Recorded
  <2> QED
    BY <2>1, <2>2, <2>4, <2>5 DEF RRInv
<1> QED
  BY <1>1, RRStep, PTL DEF RRSpec

(* The latest calls of a whole lap met the entries of the cycle in a row. *)
LEMMA LapInARow ==
  ASSUME NEW L \in Nat, L > 0, L <= USIZE, NEW c \in 0 .. USIZE - 1,
         c = 0 \/ c >= L \/ USIZE % L = 0
  PROVE  \E b \in Int : \A i \in 1 .. L : CallAt(c, L, i) % L = (b + (i - 1)) % L
<1>1. USIZE \in Nat
  BY BalancerAssumption
<1>2. CASE c = 0
  <2>1. \A i \in 1 .. L : CallAt(c, L, i) = (USIZE - L) + (i - 1)
    BY <1>1, <1>2 DEF CallAt
  <2>2. USIZE - L \in Int
    BY <1>1
  <2> QED
    BY <2>1, <2>2
<1>3. CASE c >= L
  <2>1. \A i \in 1 .. L : CallAt(c, L, i) = (c - L) + (i - 1)
    BY <1>1, <1>3 DEF CallAt
  <2>2. c - L \in Int
    OBVIOUS
  <2> QED
    BY <2>1, <2>2
<1>4. CASE USIZE % L = 0
  <2>1. ASSUME NEW i \in 1 .. L PROVE CallAt(c, L, i) % L = ((c - L) + (i - 1)) % L
    <3> DEFINE n == (c - L) + (i - 1)
    <3>1. n \in Int /\ (CallAt(c, L, i) = n \/ CallAt(c, L, i) = n + USIZE)
      BY <1>1 DEF CallAt
    <3> HIDE DEF n
    <3>2. (n + USIZE) % L = n % L
      BY <1>1, <1>4, <3>1, ModLap
    <3>3. CallAt(c, L, i) % L = n % L
      BY <3>1, <3>2
    <3> QED
      BY <3>3 DEF n
  <2>2. c - L \in Int
    OBVIOUS
  <2> QED
    BY <2>1, <2>2
<1> QED
  BY <1>2, <1>3, <1>4

(* Entries in a row, as many as the cycle is long, are the whole cycle. *)
LEMMA RowIsCycle ==
  ASSUME NEW L \in Nat, L > 0, NEW b \in Int, NEW S \in SUBSET (1 .. L)
  PROVE  Cardinality({i \in 1 .. L : ((b + (i - 1)) % L) + 1 \in S}) = Cardinality(S)
<1> DEFINE r == b % L
           at(i) == ((b + (i - 1)) % L) + 1
           I == {i \in 1 .. L : at(i) \in S}
           f == [i \in I |-> at(i)]
<1>1. r \in 0 .. L - 1
  OBVIOUS
<1>2. ASSUME NEW i \in 1 .. L PROVE at(i) = IF r + (i - 1) < L THEN r + (i - 1) + 1 ELSE r + (i - 1) - L + 1
  <2>1. i - 1 \in 0 .. L - 1
    OBVIOUS
  <2> HIDE DEF r
  <2>2. (b + (i - 1)) % L = IF r + (i - 1) < L THEN r + (i - 1) ELSE r + (i - 1) - L
    BY <2>1, ModShift DEF r
  <2> QED
    BY <2>2
<1> HIDE DEF r, at
<1>3. \A i, j \in 1 .. L : at(i) = at(j) => i = j
  BY <1>1, <1>2
<1>4. ASSUME NEW p \in 1 .. L PROVE \E i \in 1 .. L : at(i) = p
  <2> DEFINE i == IF p - 1 >= r THEN p - r ELSE p - r + L
  <2>1. i \in 1 .. L /\ (r + (i - 1) < L <=> p - 1 >= r)
    BY <1>1
  <2>2. at(i) = p
    BY <1>1, <1>2, <2>1
  <2> QED
    BY <2>1, <2>2
<1>5. IsFiniteSet(I)
  <2>1. IsFiniteSet(1 .. L)
    BY FS_Interval
  <2> QED
    BY <2>1, FS_Subset
<1>6. f \in Bijection(I, S)
  <2>1. f \in [I -> S]
    OBVIOUS
  <2>2. \A i, j \in I : f[i] = f[j] => i = j
    BY <1>3
  <2>3. \A p \in S : \E i \in I : f[i] = p
    BY <1>4
  <2> HIDE DEF f, I
  <2> QED
    BY <2>1, <2>2, <2>3 DEF Bijection, Injection, Surjection, IsInjective
<1>7. Cardinality(S) = Cardinality(I)
  <2> HIDE DEF f, I
  <2> QED
    BY <1>5, <1>6, FS_Bijection DEF ExistsBijection
<1> QED
  BY <1>7 DEF at

(***************************************************************************)
(* balancer.rs:112 - for any weights, pool and width of the counter, and   *)
(* after any number of calls: of the latest calls, as many as the cycle is *)
(* long, each upstream is the first choice of its share.                   *)
(***************************************************************************)
THEOREM SharesTheorem == RRSpec => []SharesInEveryWindow
<1>1. RRInv => SharesInEveryWindow
  <2> SUFFICES ASSUME RRInv, Cycle # <<>>, Len(recent) = Len(Cycle), WholeLap, NEW u \in Pool
               PROVE  Times(u) = Share(u)
    BY DEF SharesInEveryWindow
  <2> DEFINE C == Cycle
             L == Len(C)
  <2>1. C \in Seq(Nat) /\ Cardinality(Places(C, u)) = Share(u)
    BY CycleCounts DEF RRInv
  <2>2. L \in Nat /\ L > 0 /\ L <= USIZE
    BY <2>1 DEF WholeLap
  <2>3. counter \in 0 .. USIZE - 1 /\ (counter = 0 \/ counter >= L \/ USIZE % L = 0)
    BY DEF RRInv, WholeLap
  <2>4. \A i \in 1 .. L : recent[i] = C[(CallAt(counter, L, i) % L) + 1] % pool_size
    BY <2>2 DEF RRInv, Recorded
  <2> HIDE DEF C
  <2>5. PICK b \in Int : \A i \in 1 .. L : CallAt(counter, L, i) % L = (b + (i - 1)) % L
    BY <2>2, <2>3, LapInARow
  <2> DEFINE at(i) == ((b + (i - 1)) % L) + 1
  <2>6. \A i \in 1 .. L : at(i) \in 1 .. L /\ recent[i] = C[at(i)] % pool_size
    <3> SUFFICES ASSUME NEW i \in 1 .. L PROVE at(i) \in 1 .. L /\ recent[i] = C[at(i)] % pool_size
      OBVIOUS
    <3>1. (b + (i - 1)) % L \in 0 .. L - 1
      BY <2>2
    <3> QED
      BY <2>2, <2>4, <2>5, <3>1
  <2> HIDE DEF L
  <2>7. {i \in 1 .. L : recent[i] = u} = {i \in 1 .. L : at(i) \in Places(C, u)}
    <3> HIDE DEF at
    <3> QED
      BY <2>6 DEF Places, L
  <2>8. Places(C, u) \in SUBSET (1 .. L)
    BY DEF Places, L
  <2>9. Cardinality({i \in 1 .. L : at(i) \in Places(C, u)}) = Cardinality(Places(C, u))
    <3> DEFINE S == Places(C, u)
    <3>1. S \in SUBSET (1 .. L)
      BY <2>8
    <3> HIDE DEF S
    <3>2. Cardinality({i \in 1 .. L : ((b + (i - 1)) % L) + 1 \in S}) = Cardinality(S)
      BY <2>2, <3>1, RowIsCycle
    <3> QED
      BY <3>2 DEF S
  <2> QED
    BY <2>1, <2>7, <2>9 DEF Times, C, L
<1> QED
  BY <1>1, RRInvariant, PTL

-----------------------------------------------------------------------------
(***************************************************************************)
(* The least-connections scan (balancer.rs:64) locks nothing: LeastInv     *)
(* says of the counters it has read how far off they may be by now, and    *)
(* that no counter wraps around under it.                                  *)
(***************************************************************************)
(* What LeastInv says of the counters. *)
Accounted == \A k \in Pool : active[k] = Cardinality(On(k))

ScansInv == \A r \in Requests : Scanning(r) => ScanInv(r)

LEMMA LeastInvParts == LeastInv <=> LCTypeOK /\ Accounted /\ ScansInv
BY DEF LeastInv, Accounted, ScansInv

(* The attempts counted on an upstream are of some of the requests. *)
LEMMA OnFinite ==
  ASSUME NEW k
  PROVE  /\ IsFiniteSet(On(k)) /\ Cardinality(On(k)) \in Nat
         /\ Cardinality(On(k)) <= Cardinality(Requests)
         /\ Cardinality(Requests) \in Nat
<1>1. On(k) \subseteq Requests
  BY DEF On
<1> QED
  BY <1>1, LeastAssumption, FS_Subset, FS_CardinalityType

(* A start adds one to the count of its upstream, and does not wrap. *)
LEMMA StartCounts ==
  ASSUME LCTypeOK, Accounted, NEW r \in Requests, NEW k \in Pool, Start(r, k)
  PROVE  /\ Accounted'
         /\ active' = [active EXCEPT ![k] = @ + 1]
<1>1. /\ task[r].pc \notin {"active", "dropped"}
      /\ task \in [Requests -> Task] /\ active \in [Pool -> 0 .. USIZE - 1]
  BY DEF Start, Picked, Scanning, LCTypeOK
<1>2. task' = [task EXCEPT ![r] = [pc |-> "active", index |-> k]]
  BY DEF Start
<1>3. On(k)' = On(k) \cup {r} /\ r \notin On(k)
  BY <1>1, <1>2 DEF On
<1>4. ASSUME NEW j \in Pool, j # k PROVE On(j)' = On(j)
  BY <1>1, <1>2, <1>4 DEF On
<1>5. Cardinality(On(k))' = Cardinality(On(k)) + 1
  BY <1>3, OnFinite, FS_AddElement
<1>6. Cardinality(On(k)) + 1 <= Cardinality(Requests)
  <2>1. On(k) \cup {r} \subseteq Requests
    BY DEF On
  <2>2. Cardinality(On(k) \cup {r}) <= Cardinality(Requests)
    BY <2>1, LeastAssumption, FS_Subset
  <2> QED
    BY <1>3, <1>5, <2>2
<1>7. active[k] \in Nat /\ active[k] + 1 < USIZE /\ USIZE \in Nat
  BY <1>6, OnFinite, LeastAssumption, BalancerAssumption DEF Accounted
<1>8. fetch_add(active[k]) = active[k] + 1
  BY <1>7 DEF fetch_add
<1>9. active' = [active EXCEPT ![k] = @ + 1]
  BY <1>1, <1>8 DEF Start, record_start
<1>10. ASSUME NEW j \in Pool PROVE active'[j] = Cardinality(On(j))'
  BY <1>1, <1>4, <1>5, <1>9 DEF Accounted
<1> QED
  BY <1>9, <1>10 DEF Accounted

(* An end takes one from the count of its upstream, which is not zero. *)
LEMMA DoneCounts ==
  ASSUME LCTypeOK, Accounted, NEW r \in Requests, Done(r), NEW k, k = task[r].index
  PROVE  /\ Accounted'
         /\ k \in Pool /\ active' = [active EXCEPT ![k] = @ - 1]
<1>1. /\ task[r].pc = "active" /\ task \in [Requests -> Task] /\ k \in Pool
      /\ active \in [Pool -> 0 .. USIZE - 1]
  BY DEF Done, LCTypeOK, Task
<1>2. task' = [task EXCEPT ![r].pc = "ready"]
  BY DEF Done
<1>3. On(k)' = On(k) \ {r} /\ r \in On(k)
  BY <1>1, <1>2 DEF On, Task
<1>4. ASSUME NEW j \in Pool, j # k PROVE On(j)' = On(j)
  BY <1>1, <1>2, <1>4 DEF On, Task
<1>5. Cardinality(On(k))' = Cardinality(On(k)) - 1
  BY <1>3, OnFinite, FS_RemoveElement
<1>6. Cardinality(On(k)) # 0
  BY <1>3, OnFinite, FS_EmptySet
<1>7. active[k] \in Nat /\ active[k] >= 1 /\ active[k] < USIZE /\ USIZE \in Nat
  BY <1>1, <1>6, OnFinite, BalancerAssumption DEF Accounted
<1>8. fetch_sub(active[k]) = active[k] - 1
  BY <1>7 DEF fetch_sub
<1>9. active' = [active EXCEPT ![k] = @ - 1]
  BY <1>1, <1>8 DEF Done, record_done
<1>10. ASSUME NEW j \in Pool PROVE active'[j] = Cardinality(On(j))'
  BY <1>1, <1>4, <1>5, <1>9 DEF Accounted
<1> QED
  BY <1>1, <1>9, <1>10 DEF Accounted

(* The types, one action after the other. *)
LEMMA LeastTyped ==
  ASSUME LCTypeOK, [LCNext]_lcvars
  PROVE  LCTypeOK'
<1> USE BalancerAssumption
<1>1. /\ \A n \in 0 .. USIZE - 1 : fetch_add(n) \in 0 .. USIZE - 1 /\ fetch_sub(n) \in 0 .. USIZE - 1
      /\ 0 \in Pool /\ 0 \in 0 .. USIZE - 1 /\ 0 \in 0 .. pool_size /\ 1 \in 0 .. pool_size
  BY DEF fetch_add, fetch_sub, Pool
<1>2. NoTask \in Task /\ NoScan \in Scan
  BY <1>1 DEF NoTask, Task, NoScan, Scan
<1>3. ASSUME NEW r \in Requests, Disturb(r) PROVE changes' \in [Requests -> Nat]
  BY <1>3 DEF Disturb, LCTypeOK
<1>4. ASSUME NEW r \in Requests, Begin(r) PROVE LCTypeOK'
  <2>1. [i |-> 1, min_idx |-> 0, min_val |-> active[0]] \in Scan
    BY <1>1 DEF LCTypeOK, Scan
  <2> QED
    BY <1>4, <2>1 DEF Begin, LCTypeOK, Task
<1>5. ASSUME NEW r \in Requests, Read(r) PROVE LCTypeOK'
  <2>1. scan[r].i \in Pool /\ scan[r].i + 1 \in 0 .. pool_size
    BY <1>5 DEF Read, LCTypeOK, Scan, Pool
  <2>2. active[scan[r].i] \in 0 .. USIZE - 1 /\ scan[r] \in Scan
    BY <2>1 DEF LCTypeOK
  <2>3. /\ [i |-> scan[r].i + 1, min_idx |-> scan[r].i, min_val |-> active[scan[r].i]] \in Scan
        /\ [scan[r] EXCEPT !.i = scan[r].i + 1] \in Scan
    BY <2>1, <2>2 DEF Scan
  <2> QED
    BY <1>5, <2>3 DEF Read, LCTypeOK
<1>6. ASSUME NEW r \in Requests, Done(r) PROVE LCTypeOK'
  <2>1. task[r].index \in Pool
    BY DEF LCTypeOK, Task
  <2> QED
    BY <1>1, <1>3, <1>6, <2>1 DEF Done, record_done, LCTypeOK, Task
<1>7. ASSUME NEW r \in Requests, Over(r) PROVE LCTypeOK'
  BY <1>2, <1>7 DEF Over, LCTypeOK
<1>8. ASSUME NEW r \in Requests, NEW k \in Pool, Start(r, k) PROVE LCTypeOK'
  BY <1>1, <1>2, <1>3, <1>8 DEF Start, record_start, LCTypeOK, Task
<1>9. ASSUME NEW r \in Requests, Drop(r) PROVE LCTypeOK'
  BY <1>9 DEF Drop, LCTypeOK, Task
<1>10. ASSUME UNCHANGED lcvars PROVE LCTypeOK'
  BY <1>10 DEF lcvars, LCTypeOK
<1> QED
  BY <1>4, <1>5, <1>6, <1>7, <1>8, <1>9, <1>10 DEF LCNext

(***************************************************************************)
(* A start or an end elsewhere: one counter moves by one, and the scan is  *)
(* one change further off.                                                 *)
(***************************************************************************)
LEMMA ScanDisturbed ==
  ASSUME LCTypeOK, ScansInv, NEW r \in Requests, NEW q \in Requests, q # r,
         Scanning(q), Disturb(r), scan'[q] = scan[q],
         NEW k \in Pool, NEW d \in {-1, 1}, active' = [active EXCEPT ![k] = @ + d]
  PROVE  ScanInv(q)'
<1> DEFINE s == scan[q]
           c == changes[q]
<1>1. /\ ScanInv(q) /\ s \in Scan /\ c \in Nat /\ changes'[q] = c + 1
      /\ s.min_idx \in Pool /\ s.min_val \in Int /\ s.i \in 0 .. pool_size /\ scan'[q] = s
      /\ \A j \in Pool : active[j] \in Int /\ active'[j] = active[j] + IF j = k THEN d ELSE 0
  BY BalancerAssumption DEF ScansInv, LCTypeOK, Scan, Disturb
<1>2. ASSUME NEW j \in 0 .. s.i - 1
      PROVE  /\ j \in Pool
             /\ s.min_val <= active[j] + c
             /\ active[s.min_idx] <= active[j] + c
  BY <1>1, BalancerAssumption DEF ScanInv, Pool
<1>3. s.i >= 1 /\ s.min_idx < s.i /\ active[s.min_idx] <= s.min_val + c
  BY <1>1 DEF ScanInv
<1> HIDE DEF s, c
<1>4. ASSUME NEW j \in 0 .. s.i - 1
      PROVE  /\ s.min_val <= active'[j] + (c + 1)
             /\ active'[s.min_idx] <= active'[j] + (c + 1)
  BY <1>1, <1>2
<1>5. active'[s.min_idx] <= s.min_val + (c + 1)
  BY <1>1, <1>3
<1>6. c + 1 # 0
  BY <1>1
<1> QED
  BY <1>1, <1>3, <1>4, <1>5, <1>6 DEF ScanInv

(* The scan's own steps. *)
LEMMA ScanReads ==
  ASSUME LCTypeOK, ScansInv, NEW r \in Requests, Read(r)
  PROVE  ScanInv(r)'
<1> DEFINE s == scan[r]
           c == changes[r]
           val == active[s.i]
           t == IF val < s.min_val THEN [i |-> s.i + 1, min_idx |-> s.i, min_val |-> val]
                                   ELSE [s EXCEPT !.i = s.i + 1]
<1>1. /\ ScanInv(r) /\ s \in Scan /\ c \in Nat /\ s.min_val \in Int
      /\ s.i \in Pool /\ s.min_idx \in Pool /\ s.i \in Nat /\ s.min_idx \in Nat
      /\ \A j \in Pool : active[j] \in Int
  BY BalancerAssumption DEF Read, ScansInv, LCTypeOK, Scan, Pool
<1>2. /\ s.i >= 1 /\ s.min_idx < s.i /\ active[s.min_idx] <= s.min_val + c
      /\ \A k \in 0 .. s.i - 1 :
           /\ s.min_val <= active[k] + c
           /\ active[s.min_idx] <= active[k] + c
           /\ c = 0 /\ k < s.min_idx => active[s.min_idx] < active[k]
  BY <1>1 DEF ScanInv
<1>3. scan'[r] = t /\ changes'[r] = c /\ active' = active
  BY DEF Read, Better, LCTypeOK
<1>4. \A k \in 0 .. (s.i + 1) - 1 : k \in Pool /\ (k = s.i \/ k \in 0 .. s.i - 1)
  BY <1>1, BalancerAssumption DEF Pool
<1>5. CASE val < s.min_val
  <2>1. t.i = s.i + 1 /\ t.min_idx = s.i /\ t.min_val = val
    BY <1>5
  <2> HIDE DEF t
  <2>2. /\ t.i >= 1 /\ t.min_idx < t.i /\ active[t.min_idx] <= t.min_val + c
        /\ \A k \in 0 .. t.i - 1 :
             /\ t.min_val <= active[k] + c
             /\ active[t.min_idx] <= active[k] + c
             /\ c = 0 /\ k < t.min_idx => active[t.min_idx] < active[k]
    BY <1>1, <1>2, <1>4, <1>5, <2>1
  <2> QED
    BY <1>3, <2>2 DEF ScanInv
<1>6. CASE ~(val < s.min_val)
  <2>1. t.i = s.i + 1 /\ t.min_idx = s.min_idx /\ t.min_val = s.min_val
    BY <1>1, <1>6 DEF Scan
  <2> HIDE DEF t
  <2>2. /\ t.i >= 1 /\ t.min_idx < t.i /\ active[t.min_idx] <= t.min_val + c
        /\ \A k \in 0 .. t.i - 1 :
             /\ t.min_val <= active[k] + c
             /\ active[t.min_idx] <= active[k] + c
             /\ c = 0 /\ k < t.min_idx => active[t.min_idx] < active[k]
    BY <1>1, <1>2, <1>4, <1>6, <2>1
  <2> QED
    BY <1>3, <2>2 DEF ScanInv
<1> QED
  BY <1>5, <1>6

LEMMA ScanBegins ==
  ASSUME LCTypeOK, NEW r \in Requests, Begin(r)
  PROVE  ScanInv(r)'
<1> DEFINE t == [i |-> 1, min_idx |-> 0, min_val |-> active[0]]
<1>1. scan'[r] = t /\ changes'[r] = 0 /\ active' = active
  BY DEF Begin, LCTypeOK
<1>2. t.i = 1 /\ t.min_idx = 0 /\ t.min_val = active[0] /\ active[0] \in Int
  BY BalancerAssumption DEF LCTypeOK, Pool
<1>3. \A k \in 0 .. 1 - 1 : k = 0
  OBVIOUS
<1> QED
  BY <1>1, <1>2, <1>3 DEF ScanInv

(* Every step keeps what is known of the scans and of the counters. *)
LEMMA LeastStep == LeastInv /\ [LCNext]_lcvars => LeastInv'
<1> SUFFICES ASSUME LeastInv, [LCNext]_lcvars PROVE LeastInv'
  OBVIOUS
<1>0. LCTypeOK /\ Accounted /\ ScansInv
  BY LeastInvParts
<1>1. LCTypeOK'
  BY <1>0, LeastTyped
<1> DEFINE Goal == Accounted' /\ \A q \in Requests : Scanning(q)' => ScanInv(q)'
           Counted == {"active", "dropped"}
(* Steps that move no counter. *)
<1>2. ASSUME NEW r \in Requests, UNCHANGED active,
             \A q \in Requests : /\ task'[q].pc \in Counted <=> task[q].pc \in Counted
                                 /\ task[q].pc \in Counted => task'[q].index = task[q].index
      PROVE  Accounted'
  <2>1. ASSUME NEW k \in Pool PROVE On(k)' = On(k)
    BY <1>2 DEF On
  <2> QED
    BY <1>0, <1>2, <2>1 DEF Accounted
<1>3. ASSUME NEW q \in Requests, Scanning(q), UNCHANGED active,
             scan'[q] = scan[q], changes'[q] = changes[q]
      PROVE  ScanInv(q)'
  BY <1>0, <1>3 DEF ScansInv, ScanInv
<1>4. ASSUME NEW r \in Requests, Begin(r) PROVE Goal
  <2>1. ASSUME NEW q \in Requests
        PROVE  /\ q # r => task'[q] = task[q] /\ scan'[q] = scan[q] /\ changes'[q] = changes[q]
               /\ task'[r].pc = "scan" /\ task[r].pc = "new"
    BY <1>0, <1>4 DEF Begin, LCTypeOK, Task
  <2>2. Accounted'
    BY <1>2, <1>4, <2>1 DEF Begin
  <2>3. ASSUME NEW q \in Requests, Scanning(q)' PROVE ScanInv(q)'
    <3>1. CASE q = r
      BY <1>0, <1>4, <3>1, ScanBegins
    <3>2. CASE q # r
      BY <1>3, <1>4, <2>1, <2>3, <3>2 DEF Begin, Scanning
    <3> QED
      BY <3>1, <3>2
  <2> QED
    BY <2>2, <2>3
<1>5. ASSUME NEW r \in Requests, Read(r) PROVE Goal
  <2>1. Accounted'
    BY <1>2, <1>5 DEF Read
  <2>2. ASSUME NEW q \in Requests, Scanning(q)' PROVE ScanInv(q)'
    <3>1. CASE q = r
      BY <1>0, <1>5, <3>1, ScanReads
    <3>2. CASE q # r
      <4>1. scan'[q] = scan[q]
        BY <1>0, <1>5, <3>2 DEF Read, LCTypeOK
      <4> QED
        BY <1>3, <1>5, <2>2, <4>1 DEF Read, Scanning
    <3> QED
      BY <3>1, <3>2
  <2> QED
    BY <2>1, <2>2
<1>6. ASSUME NEW r \in Requests, Over(r) PROVE Goal
  <2>1. ASSUME NEW q \in Requests
        PROVE  /\ q # r => task'[q] = task[q] /\ scan'[q] = scan[q] /\ changes'[q] = changes[q]
               /\ task'[r].pc = "new" /\ task[r].pc \notin Counted
    BY <1>0, <1>6 DEF Over, LCTypeOK, NoTask, Picked, Scanning
  <2>2. Accounted'
    BY <1>2, <1>6, <2>1 DEF Over
  <2>3. ASSUME NEW q \in Requests, Scanning(q)' PROVE ScanInv(q)'
    BY <1>3, <1>6, <2>1, <2>3 DEF Over, Scanning
  <2> QED
    BY <2>2, <2>3
<1>7. ASSUME NEW r \in Requests, Drop(r) PROVE Goal
  <2>1. ASSUME NEW q \in Requests
        PROVE  /\ q # r => task'[q] = task[q]
               /\ task[r].pc = "active" /\ task'[r].pc = "dropped"
               /\ task'[r].index = task[r].index
    BY <1>0, <1>7 DEF Drop, LCTypeOK, Task
  <2>2. Accounted'
    BY <1>2, <1>7, <2>1 DEF Drop
  <2>3. ASSUME NEW q \in Requests, Scanning(q)' PROVE ScanInv(q)'
    BY <1>3, <1>7, <2>1, <2>3 DEF Drop, Scanning
  <2> QED
    BY <2>2, <2>3
(* Steps that move one. *)
<1>8. ASSUME NEW r \in Requests, NEW k \in Pool, Start(r, k) PROVE Goal
  <2>1. Accounted' /\ active' = [active EXCEPT ![k] = @ + 1]
    BY <1>0, <1>8, StartCounts
  <2>2. ASSUME NEW q \in Requests, Scanning(q)' PROVE ScanInv(q)'
    <3>1. q # r /\ Scanning(q) /\ scan'[q] = scan[q] /\ Disturb(r)
      BY <1>0, <1>8, <2>2 DEF Start, Scanning, LCTypeOK
    <3> QED
      BY <1>0, <2>1, <3>1, ScanDisturbed
  <2> QED
    BY <2>1, <2>2
<1>9. ASSUME NEW r \in Requests, Done(r) PROVE Goal
  <2> DEFINE k == task[r].index
  <2>1. Accounted' /\ k \in Pool /\ active' = [active EXCEPT ![k] = @ - 1]
    BY <1>0, <1>9, DoneCounts
  <2>2. ASSUME NEW q \in Requests, Scanning(q)' PROVE ScanInv(q)'
    <3>1. q # r /\ Scanning(q) /\ scan'[q] = scan[q] /\ Disturb(r)
      BY <1>0, <1>9, <2>2 DEF Done, Scanning, LCTypeOK, Task
    <3>2. active' = [active EXCEPT ![k] = @ + (-1)]
      BY <1>0, <2>1 DEF LCTypeOK
    <3>3. PICK j \in Pool : j = k
      BY <2>1
    <3> QED
      BY <1>0, <3>1, <3>2, <3>3, ScanDisturbed
  <2> QED
    BY <2>1, <2>2
<1>10. ASSUME UNCHANGED lcvars PROVE Goal
  <2>1. Accounted'
    BY <1>0, <1>10 DEF lcvars, Accounted, On
  <2>2. ASSUME NEW q \in Requests, Scanning(q)' PROVE ScanInv(q)'
    BY <1>3, <1>10, <2>2 DEF lcvars, Scanning
  <2> QED
    BY <2>1, <2>2
<1>11. Goal
  BY <1>4, <1>5, <1>6, <1>8, <1>9, <1>10, <1>7 DEF LCNext
<1> QED
  BY <1>1, <1>11 DEF LeastInv, Accounted

(***************************************************************************)
(* balancer.rs:64 - what a scan knows, at every point of it, of counters   *)
(* that count the attempts started and not ended, the dropped included.    *)
(***************************************************************************)
THEOREM LeastInvariant == LCSpec => []LeastInv
<1>1. LCInit => LeastInv
  <2> SUFFICES ASSUME LCInit PROVE LeastInv
    OBVIOUS
  <2>1. LCTypeOK
    BY BalancerAssumption DEF LCInit, LCTypeOK, NoTask, Task, NoScan, Scan, Pool
  <2>2. \A k \in Pool : On(k) = {}
    BY DEF LCInit, On, NoTask
  <2>3. Accounted
    BY <2>2, FS_EmptySet DEF LCInit, Accounted
  <2>4. \A r \in Requests : ~Scanning(r)
    BY DEF LCInit, Scanning, NoTask
  <2> QED
    BY <2>1, <2>3, <2>4, LeastInvParts DEF ScansInv
<1> QED
  BY <1>1, LeastStep, PTL DEF LCSpec

(* What LeastInv says when the scan is at its end. *)
LEMMA PickedKnows ==
  ASSUME LeastInv, NEW r \in Requests, Picked(r), NEW k \in Pool
  PROVE  /\ active[scan[r].min_idx] <= active[k] + changes[r]
         /\ changes[r] = 0 /\ k < scan[r].min_idx => active[scan[r].min_idx] < active[k]
         /\ active[k] \in Int
<1>1. ScanInv(r) /\ scan[r].i = pool_size
  BY DEF LeastInv, Picked
<1>2. active[k] \in Int
  BY BalancerAssumption DEF LeastInv, LCTypeOK
<1> QED
  BY <1>1, <1>2 DEF ScanInv, Pool

(***************************************************************************)
(* balancer.rs:64 - the counter of the pick is above that of any other     *)
(* upstream by at most as much as attempts started or ended during the     *)
(* scan.                                                                   *)
(***************************************************************************)
THEOREM NearlyLeastTheorem == LCSpec => []PickNearlyLeast
<1>1. LeastInv => PickNearlyLeast
  BY PickedKnows DEF PickNearlyLeast
<1> QED
  BY <1>1, LeastInvariant, PTL

(***************************************************************************)
(* balancer.rs:65 - an undisturbed scan picks the first of the least       *)
(* counters.                                                               *)
(***************************************************************************)
THEOREM FirstLeastTheorem == LCSpec => []FirstLeastUndisturbed
<1>1. ASSUME LeastInv, NEW r \in Requests, Picked(r), changes[r] = 0, NEW k \in Pool
      PROVE  /\ active[scan[r].min_idx] <= active[k]
             /\ k < scan[r].min_idx => active[scan[r].min_idx] < active[k]
  <2>1. /\ active[scan[r].min_idx] <= active[k] + 0 /\ active[k] \in Int
        /\ k < scan[r].min_idx => active[scan[r].min_idx] < active[k]
    BY <1>1, PickedKnows
  <2> QED
    BY <2>1
<1>2. LeastInv => FirstLeastUndisturbed
  BY <1>1 DEF FirstLeastUndisturbed
<1> QED
  BY <1>2, LeastInvariant, PTL

-----------------------------------------------------------------------------
(***************************************************************************)
(* The consistent-hash ring (balancer.rs:131-165).  Sorting puts a virtual *)
(* node at its rank, and ranks are a bijection onto the places (RankOrder, *)
(* RankOnto); so what the search finds can be said of the virtual nodes    *)
(* alone, without the vector (NextIs).                                     *)
(***************************************************************************)
(* The order that the ring is sorted by, and what is below a vnode in it. *)
Less(h, w, v) == h[w] < h[v] \/ (h[w] = h[v] /\ Before(w, v))
Below(h, n, v) == {w \in VNodes(n) : Less(h, w, v)}

(* The hashes, and the pools, that there are. *)
Hash == [VNodes(MaxPool) -> Hashes]
Sizes == 1 .. MaxPool

LEMMA VNodeTyped ==
  ASSUME NEW h \in Hash, NEW n \in Sizes, NEW v \in VNodes(n)
  PROVE  /\ v \in VNodes(MaxPool) /\ h[v] \in Hashes /\ h[v] \in Int
         /\ v[1] \in 0 .. n - 1 /\ v[2] \in 0 .. replicas - 1 /\ v = <<v[1], v[2]>>
         /\ v[1] \in Int /\ v[2] \in Int
<1>1. n \in Int /\ n <= MaxPool /\ {MaxPool, replicas, H} \subseteq Nat \ {0}
  BY HashRingAssumption DEF Sizes
<1>2. v[1] \in 0 .. n - 1 /\ v[2] \in 0 .. replicas - 1 /\ v = <<v[1], v[2]>>
  BY DEF VNodes
<1>3. v \in VNodes(MaxPool)
  BY <1>1, <1>2 DEF VNodes
<1> QED
  BY <1>1, <1>2, <1>3 DEF Hash, Hashes

LEMMA LessIsTotal ==
  ASSUME NEW h \in Hash, NEW n \in Sizes, NEW u \in VNodes(n), NEW v \in VNodes(n), NEW w \in VNodes(n)
  PROVE  /\ ~Less(h, v, v)
         /\ v = w \/ Less(h, v, w) \/ Less(h, w, v)
         /\ Less(h, u, v) /\ Less(h, v, w) => Less(h, u, w)
<1>1. /\ u = <<u[1], u[2]>> /\ v = <<v[1], v[2]>> /\ w = <<w[1], w[2]>>
      /\ {h[u], h[v], h[w]} \subseteq Int
      /\ {u[1], u[2], v[1], v[2], w[1], w[2]} \subseteq Int
  BY VNodeTyped
<1>2. v[1] = w[1] /\ v[2] = w[2] => v = w
  BY <1>1
<1> QED
  BY <1>1, <1>2 DEF Less, Before

LEMMA VNodesFinite ==
  ASSUME NEW n \in Sizes
  PROVE  /\ IsFiniteSet(VNodes(n)) /\ Cardinality(VNodes(n)) = n * replicas
         /\ n * replicas \in Nat /\ n * replicas > 0
<1>1. n \in Nat /\ n > 0 /\ replicas \in Nat /\ replicas > 0
  BY HashRingAssumption DEF Sizes
<1>2. ASSUME NEW k \in Nat, k > 0
      PROVE  IsFiniteSet(0 .. k - 1) /\ Cardinality(0 .. k - 1) = k
  <2>1. 0 \in Int /\ k - 1 \in Int /\ ~(0 > k - 1) /\ k - 1 - 0 + 1 = k
    BY <1>2
  <2> HIDE <1>2
  <2> QED
    BY <2>1, FS_Interval
<1>3. n * replicas \in Nat /\ n * replicas > 0
  BY <1>1
<1>4. /\ IsFiniteSet(0 .. n - 1) /\ Cardinality(0 .. n - 1) = n
      /\ IsFiniteSet(0 .. replicas - 1) /\ Cardinality(0 .. replicas - 1) = replicas
  BY <1>1, <1>2
<1>5. LET S == 0 .. n - 1
          T == 0 .. replicas - 1
      IN IsFiniteSet(S \X T) /\ Cardinality(S \X T) = Cardinality(S) * Cardinality(T)
  BY <1>4, FS_Product
<1> QED
  BY <1>3, <1>4, <1>5 DEF VNodes

LEMMA RankOrder ==
  ASSUME NEW h \in Hash, NEW n \in Sizes
  PROVE  /\ \A v \in VNodes(n) : Rank(h, n, v) \in 0 .. n * replicas - 1
         /\ \A v, w \in VNodes(n) : Less(h, v, w) => Rank(h, n, v) < Rank(h, n, w)
         /\ \A v, w \in VNodes(n) : Rank(h, n, v) = Rank(h, n, w) => v = w
<1>1. \A v : Rank(h, n, v) = Cardinality(Below(h, n, v)) /\ Below(h, n, v) \subseteq VNodes(n)
  BY DEF Rank, Below, Less
<1>2. \A v : IsFiniteSet(Below(h, n, v)) /\ Rank(h, n, v) \in Nat /\ Rank(h, n, v) <= n * replicas
             /\ (Rank(h, n, v) = n * replicas => Below(h, n, v) = VNodes(n))
  BY <1>1, VNodesFinite, FS_Subset, FS_CardinalityType
<1>3. ASSUME NEW v \in VNodes(n) PROVE Rank(h, n, v) \in 0 .. n * replicas - 1
  <2>1. v \notin Below(h, n, v)
    BY LessIsTotal DEF Below
  <2>2. Rank(h, n, v) # n * replicas
    BY <2>1, <1>2
  <2> QED
    BY <2>2, <1>2, VNodesFinite
<1>4. ASSUME NEW v \in VNodes(n), NEW w \in VNodes(n), Less(h, v, w)
      PROVE  Rank(h, n, v) < Rank(h, n, w)
  <2>1. Below(h, n, v) \subseteq Below(h, n, w)
    BY <1>4, LessIsTotal DEF Below
  <2>2. v \in Below(h, n, w) /\ v \notin Below(h, n, v)
    BY <1>4, LessIsTotal DEF Below
  <2>3. /\ Cardinality(Below(h, n, v)) <= Cardinality(Below(h, n, w))
        /\ Cardinality(Below(h, n, v)) # Cardinality(Below(h, n, w))
    BY <1>2, <2>1, <2>2, FS_Subset
  <2> QED
    BY <2>3, <1>1, <1>2
<1>5. ASSUME NEW v \in VNodes(n), NEW w \in VNodes(n), Rank(h, n, v) = Rank(h, n, w) PROVE v = w
  <2>1. ~Less(h, v, w) /\ ~Less(h, w, v)
    BY <1>2, <1>4, <1>5
  <2> QED
    BY <2>1, LessIsTotal
<1> QED
  BY <1>3, <1>4, <1>5

(* Every place of the vector is some vnode's. *)
LEMMA RankOnto ==
  ASSUME NEW h \in Hash, NEW n \in Sizes, NEW p \in 0 .. n * replicas - 1
  PROVE  \E v \in VNodes(n) : Rank(h, n, v) = p
<1> DEFINE V == VNodes(n)
           T == 0 .. n * replicas - 1
           f == [v \in V |-> Rank(h, n, v)]
<1>1. f \in Injection(V, T)
  BY RankOrder DEF Injection, IsInjective
<1>2. IsFiniteSet(T) /\ Cardinality(T) = n * replicas
  BY VNodesFinite, FS_Interval
<1>3. f \in Surjection(V, T)
  <2> HIDE DEF f, T, V
  <2>1. Cardinality(V) = Cardinality(T)
    BY <1>2, VNodesFinite DEF V
  <2> QED
    BY <1>1, <1>2, <2>1, FS_Injection
<1> QED
  BY <1>3 DEF Surjection

LEMMA RingAt ==
  ASSUME NEW h \in Hash, NEW n \in Sizes
  PROVE  /\ DOMAIN New(h, n) = 0 .. n * replicas - 1
         /\ \A v \in VNodes(n) :
              /\ Rank(h, n, v) \in 0 .. n * replicas - 1
              /\ New(h, n)[Rank(h, n, v)].hash = h[v]
              /\ New(h, n)[Rank(h, n, v)].index = v[1]
<1>1. ASSUME NEW v \in VNodes(n)
      PROVE  /\ Rank(h, n, v) \in 0 .. n * replicas - 1
             /\ New(h, n)[Rank(h, n, v)].hash = h[v]
             /\ New(h, n)[Rank(h, n, v)].index = v[1]
  <2> DEFINE p == Rank(h, n, v)
  <2>1. p \in 0 .. n * replicas - 1
    BY RankOrder
  <2>2. (CHOOSE w \in VNodes(n) : Rank(h, n, w) = p) = v
    BY RankOrder
  <2> QED
    BY <2>1, <2>2 DEF New
<1> QED
  BY <1>1 DEF New

(* next_index_for_key on any ring. *)
FoundIn(rg, key) == {p \in DOMAIN rg : rg[p].hash = key}
InsertIn(rg, key) == Cardinality({p \in DOMAIN rg : rg[p].hash < key})
NextIn(rg, key) ==
  IF FoundIn(rg, key) # {} THEN {rg[p].index : p \in FoundIn(rg, key)}
  ELSE IF InsertIn(rg, key) >= Cardinality(DOMAIN rg) THEN {rg[0].index}
  ELSE {rg[InsertIn(rg, key)].index}

(* The vnodes that hold the key, and those to choose from if none does. *)
Hits(h, n, key) == {v \in VNodes(n) : h[v] = key}
Up(h, n, key) == {v \in VNodes(n) : h[v] > key}
Ahead(h, n, key) == IF Up(h, n, key) # {} THEN Up(h, n, key) ELSE VNodes(n)
IsFirst(h, S, m) == m \in S /\ \A w \in S : w = m \/ Less(h, m, w)

LEMMA FirstExists ==
  ASSUME NEW h \in Hash, NEW n \in Sizes, NEW S, S \subseteq VNodes(n), S # {}
  PROVE  \E m \in S : IsFirst(h, S, m)
<1> DEFINE Ranks == {Rank(h, n, v) : v \in S}
<1>1. Ranks \subseteq Nat /\ Ranks # {}
  BY RankOrder
<1>2. PICK x \in Ranks : \A y \in Ranks : x <= y
  <2> HIDE DEF Ranks
  <2> QED
    BY <1>1, LeastOf
<1>3. PICK m \in S : Rank(h, n, m) = x
  BY <1>2
<1>4. ASSUME NEW w \in S, w # m PROVE Less(h, m, w)
  <2>1. Rank(h, n, m) <= Rank(h, n, w)
    BY <1>2, <1>3
  <2>2. ~Less(h, w, m)
    BY <2>1, <1>1, RankOrder
  <2> QED
    BY <1>4, <2>2, LessIsTotal
<1> QED
  BY <1>4 DEF IsFirst

(* The place to insert a key is the number of vnodes below it. *)
LEMMA InsertIs ==
  ASSUME NEW h \in Hash, NEW n \in Sizes, NEW key \in Hashes
  PROVE  /\ InsertIn(New(h, n), key) = Cardinality({v \in VNodes(n) : h[v] < key})
         /\ FoundIn(New(h, n), key) = {Rank(h, n, v) : v \in Hits(h, n, key)}
<1> DEFINE V == {v \in VNodes(n) : h[v] < key}
           P == {p \in DOMAIN New(h, n) : New(h, n)[p].hash < key}
           f == [v \in V |-> Rank(h, n, v)]
<1>1. ASSUME NEW p \in DOMAIN New(h, n)
      PROVE  \E v \in VNodes(n) : Rank(h, n, v) = p /\ New(h, n)[p].hash = h[v]
  <2>1. p \in 0 .. n * replicas - 1
    BY RingAt
  <2>2. PICK v \in VNodes(n) : Rank(h, n, v) = p
    BY <2>1, RankOnto
  <2>3. New(h, n)[Rank(h, n, v)].hash = h[v]
    BY RingAt
  <2> QED
    BY <2>2, <2>3
<1>2. \A v \in VNodes(n) : Rank(h, n, v) \in DOMAIN New(h, n) /\ New(h, n)[Rank(h, n, v)].hash = h[v]
  BY RankOrder, RingAt
<1>3. f \in Bijection(V, P)
  <2>1. f \in [V -> P]
    BY <1>2
  <2>2. \A v, w \in V : f[v] = f[w] => v = w
    BY RankOrder
  <2>3. \A p \in P : \E v \in V : f[v] = p
    BY <1>1
  <2> HIDE DEF f, V, P
  <2> QED
    BY <2>1, <2>2, <2>3 DEF Bijection, Injection, Surjection, IsInjective
<1>4. IsFiniteSet(V)
  BY VNodesFinite, FS_Subset
<1>5. Cardinality(P) = Cardinality(V)
  <2> HIDE DEF f, V, P
  <2> QED
    BY <1>3, <1>4, FS_Bijection DEF ExistsBijection
<1>6. FoundIn(New(h, n), key) = {Rank(h, n, v) : v \in Hits(h, n, key)}
  BY <1>1, <1>2 DEF FoundIn, Hits
<1> QED
  BY <1>5, <1>6 DEF InsertIn

(***************************************************************************)
(* What the search finds: all that hold the key, or the first after it,    *)
(* around the end of the vector.                                           *)
(***************************************************************************)
LEMMA NextIs ==
  ASSUME NEW h \in Hash, NEW n \in Sizes, NEW key \in Hashes
  PROVE  /\ Hits(h, n, key) # {} => NextIn(New(h, n), key) = {v[1] : v \in Hits(h, n, key)}
         /\ Hits(h, n, key) = {} => \E m \in VNodes(n) :
              IsFirst(h, Ahead(h, n, key), m) /\ NextIn(New(h, n), key) = {m[1]}
<1> DEFINE rg == New(h, n)
           V == VNodes(n)
           lower == {v \in V : h[v] < key}
<1>1. /\ DOMAIN rg = 0 .. n * replicas - 1
      /\ \A v \in V : rg[Rank(h, n, v)].index = v[1]
      /\ InsertIn(rg, key) = Cardinality(lower)
      /\ FoundIn(rg, key) = {Rank(h, n, v) : v \in Hits(h, n, key)}
  BY RingAt, InsertIs
<1> SUFFICES /\ Hits(h, n, key) # {} => NextIn(rg, key) = {v[1] : v \in Hits(h, n, key)}
             /\ Hits(h, n, key) = {} => \E m \in V :
                  IsFirst(h, Ahead(h, n, key), m) /\ NextIn(rg, key) = {m[1]}
  OBVIOUS
<1> HIDE DEF rg
<1>2. CASE Hits(h, n, key) # {}
  <2>1. FoundIn(rg, key) # {}
    BY <1>1, <1>2
  <2>2. {rg[p].index : p \in FoundIn(rg, key)} = {v[1] : v \in Hits(h, n, key)}
    BY <1>1 DEF Hits
  <2> QED
    BY <1>2, <2>1, <2>2 DEF NextIn
<1>3. CASE Hits(h, n, key) = {}
  <2>1. FoundIn(rg, key) = {}
    BY <1>1, <1>3
  <2>2. InsertIn(rg, key) = Cardinality(lower)
    BY <1>1
  <2>3. Cardinality(DOMAIN rg) = n * replicas
    BY <1>1, VNodesFinite, FS_Interval
  <2>4. \A v \in V : h[v] \in Int /\ key \in Int /\ h[v] # key
    BY <1>3, VNodeTyped DEF Hits, Hashes
  <2>5. IsFiniteSet(V) /\ Cardinality(V) = n * replicas /\ lower \subseteq V
    BY VNodesFinite
  <2>6. CASE Up(h, n, key) = {}
    <3>1. lower = V
      BY <2>4, <2>6 DEF Up
    <3>2. NextIn(rg, key) = {rg[0].index}
      <4>1. InsertIn(rg, key) >= Cardinality(DOMAIN rg)
        BY <2>2, <2>3, <2>5, <3>1, VNodesFinite
      <4> QED
        BY <2>1, <4>1 DEF NextIn
    <3>3. V # {}
      BY <2>5, VNodesFinite, FS_EmptySet
    <3>4. PICK m \in V : IsFirst(h, V, m)
      BY <3>3, FirstExists
    <3>5. Below(h, n, m) = {}
      BY <3>4, LessIsTotal DEF IsFirst, Below
    <3>6. Rank(h, n, m) = 0
      BY <3>5, FS_EmptySet DEF Rank, Below, Less
    <3> QED
      BY <1>1, <1>3, <2>6, <3>2, <3>4, <3>6 DEF Ahead
  <2>7. CASE Up(h, n, key) # {}
    <3>1. lower # V
      BY <2>4, <2>7 DEF Up
    <3>2. Cardinality(lower) \in Nat /\ Cardinality(lower) < n * replicas
      <4> HIDE DEF lower, V
      <4> QED
        BY <2>5, <3>1, FS_Subset, FS_CardinalityType, VNodesFinite
    <3>3. NextIn(rg, key) = {rg[Cardinality(lower)].index}
      <4>1. ~(InsertIn(rg, key) >= Cardinality(DOMAIN rg))
        BY <2>2, <2>3, <3>2, VNodesFinite
      <4> QED
        BY <2>1, <2>2, <4>1 DEF NextIn
    <3>4. PICK m \in Up(h, n, key) : IsFirst(h, Up(h, n, key), m)
      BY <2>7, FirstExists DEF Up
    <3>5. Below(h, n, m) = lower
      <4>1. ASSUME NEW w \in V, h[w] < key PROVE Less(h, w, m)
        BY <4>1, <2>4 DEF Less, Up
      <4>2. ASSUME NEW w \in V, Less(h, w, m) PROVE h[w] < key
        <5>1. w \notin Up(h, n, key)
          BY <3>4, <4>2, LessIsTotal DEF IsFirst, Up
        <5> QED
          BY <5>1, <2>4 DEF Up
      <4> QED
        BY <4>1, <4>2 DEF Below
    <3>6. Rank(h, n, m) = Cardinality(lower)
      BY <3>5 DEF Rank, Below, Less
    <3> QED
      BY <1>1, <1>3, <2>7, <3>3, <3>4, <3>6 DEF Ahead, Up
  <2> QED
    BY <2>6, <2>7
<1> QED
  BY <1>2, <1>3

-----------------------------------------------------------------------------
(* The state: the ring is always the one of the hash and the pool. *)
RingInv == hash \in Hash /\ size \in Sizes /\ ring = New(hash, size)

LEMMA RingInvariant == RingSpec => []RingInv
<1>1. RingInit => RingInv
  BY DEF RingInit, RingInv, Hash, Sizes
<1>2. RingInv /\ [RingNext]_ringvars => RingInv'
  BY DEF RingInv, RingNext, Resize, ringvars, Sizes
<1> QED
  BY <1>1, <1>2, PTL DEF RingSpec

LEMMA NextHere ==
  ASSUME NEW key
  PROVE  /\ next_index_for_key(key) = NextIn(ring, key)
         /\ next_index_for_key(key)' = NextIn(ring', key)
BY DEF next_index_for_key, Found, InsertPlace, NextIn, FoundIn, InsertIn

(* The distance from a key clockwise to a hash. *)
LEMMA Clockwise ==
  ASSUME NEW key \in Hashes, NEW a \in Hashes
  PROVE  /\ (a - key) % H = IF a >= key THEN a - key ELSE a - key + H
         /\ (a - key) % H \in Nat
<1>1. H \in Nat /\ H > 0 /\ key \in Int /\ a \in Int /\ 0 <= key /\ key < H /\ 0 <= a /\ a < H
  BY HashRingAssumption DEF Hashes
<1>2. ASSUME NEW d \in Int, -H < d, d < 0 PROVE d % H = d + H
  BY <1>1, <1>2
<1>3. ASSUME NEW d \in Int, 0 <= d, d < H PROVE d % H = d
  BY <1>1, <1>3
<1>4. CASE a >= key
  BY <1>1, <1>3, <1>4
<1>5. CASE ~(a >= key)
  BY <1>1, <1>2, <1>5
<1> QED
  BY <1>4, <1>5

(* The nearest of an upstream's virtual nodes is at its Distance. *)
LEMMA DistanceIs ==
  ASSUME NEW key \in Hashes, NEW i \in 0 .. size - 1, RingInv
  PROVE  /\ \E v \in VNodes(size) : v[1] = i /\ Distance(key, i) = (hash[v] - key) % H
         /\ \A v \in VNodes(size) : v[1] = i => Distance(key, i) <= (hash[v] - key) % H
         /\ Distance(key, i) \in Nat
<1> DEFINE away == {(hash[<<i, r>>] - key) % H : r \in 0 .. replicas - 1}
<1>1. \A r \in 0 .. replicas - 1 : <<i, r>> \in VNodes(size)
  BY DEF VNodes
<1>2. \A v \in VNodes(size) : hash[v] \in Hashes
  BY VNodeTyped DEF RingInv
<1>3. away \subseteq Nat
  BY <1>1, <1>2, Clockwise
<1>4. away # {}
  <2>1. 0 \in 0 .. replicas - 1
    BY HashRingAssumption
  <2> QED
    BY <2>1
<1>5. \E d \in away : \A e \in away : d <= e
  <2> HIDE DEF away
  <2> QED
    BY <1>3, <1>4, LeastOf
<1>6. Distance(key, i) \in away /\ \A e \in away : Distance(key, i) <= e
  <2>1. Distance(key, i) = CHOOSE d \in away : \A e \in away : d <= e
    BY DEF Distance
  <2> HIDE DEF away
  <2> QED
    BY <1>5, <2>1
<1>7. ASSUME NEW v \in VNodes(size), v[1] = i PROVE (hash[v] - key) % H \in away
  <2>1. v[2] \in 0 .. replicas - 1 /\ v = <<i, v[2]>>
    BY <1>7, VNodeTyped DEF RingInv
  <2> QED
    BY <2>1
<1>8. PICK r \in 0 .. replicas - 1 : Distance(key, i) = (hash[<<i, r>>] - key) % H
  BY <1>6
<1>9. <<i, r>>[1] = i
  OBVIOUS
<1> HIDE DEF away
<1> QED
  BY <1>1, <1>3, <1>6, <1>7, <1>8, <1>9

(* A virtual node that no other is nearer than. *)
Nearest(key, m) == \A v \in VNodes(size) : (hash[m] - key) % H <= (hash[v] - key) % H

LEMMA NearestWins ==
  ASSUME RingInv, NEW key \in Hashes, NEW m \in VNodes(size), Nearest(key, m),
         NEW j \in 0 .. size - 1
  PROVE  Distance(key, m[1]) <= Distance(key, j)
<1>1. m[1] \in 0 .. size - 1
  BY VNodeTyped DEF RingInv
<1>2. Distance(key, m[1]) \in Nat /\ Distance(key, m[1]) <= (hash[m] - key) % H
  BY <1>1, DistanceIs
<1>3. PICK v \in VNodes(size) : v[1] = j /\ Distance(key, j) = (hash[v] - key) % H
  BY DistanceIs
<1>4. (hash[m] - key) % H \in Nat /\ (hash[v] - key) % H \in Nat
  BY VNodeTyped, Clockwise DEF RingInv
<1> QED
  BY <1>2, <1>3, <1>4 DEF Nearest

(* The first virtual node ahead is a nearest one, if none holds the key. *)
LEMMA FirstIsNearest ==
  ASSUME RingInv, NEW key \in Hashes, Hits(hash, size, key) = {},
         NEW m \in VNodes(size), IsFirst(hash, Ahead(hash, size, key), m)
  PROVE  Nearest(key, m)
<1> SUFFICES ASSUME NEW v \in VNodes(size) PROVE (hash[m] - key) % H <= (hash[v] - key) % H
  BY DEF Nearest
<1>1. /\ hash[m] \in Hashes /\ hash[v] \in Hashes /\ hash[m] \in Int /\ hash[v] \in Int
      /\ key \in Int /\ H \in Nat /\ hash[m] < H /\ key < H /\ hash[m] >= 0 /\ hash[v] >= 0
      /\ key >= 0 /\ hash[v] < H
  BY VNodeTyped, HashRingAssumption DEF RingInv, Hashes
<1>2. hash[m] # key /\ hash[v] # key
  BY DEF Hits
<1>3. /\ (hash[m] - key) % H = IF hash[m] >= key THEN hash[m] - key ELSE hash[m] - key + H
      /\ (hash[v] - key) % H = IF hash[v] >= key THEN hash[v] - key ELSE hash[v] - key + H
  BY <1>1, Clockwise
<1>4. CASE Up(hash, size, key) # {}
  <2>1. hash[m] > key
    BY <1>4 DEF IsFirst, Ahead, Up
  <2>2. hash[v] > key => hash[m] <= hash[v]
    BY <1>1, <1>4 DEF IsFirst, Ahead, Up, Less
  <2>3. (hash[m] - key) % H = hash[m] - key
    BY <1>1, <1>3, <2>1
  <2>4. CASE hash[v] > key
    <3>1. (hash[v] - key) % H = hash[v] - key
      BY <1>1, <1>3, <2>4
    <3> QED
      BY <1>1, <2>2, <2>3, <2>4, <3>1
  <2>5. CASE ~(hash[v] > key)
    <3>1. (hash[v] - key) % H = hash[v] - key + H
      <4>1. ~(hash[v] >= key)
        BY <1>1, <1>2, <2>5
      <4> QED
        BY <1>3, <4>1
    <3> QED
      BY <1>1, <2>3, <3>1
  <2> QED
    BY <2>4, <2>5
<1>5. CASE Up(hash, size, key) = {}
  <2>1. ~(hash[m] > key) /\ ~(hash[v] > key)
    BY <1>5 DEF Up
  <2>2. hash[m] <= hash[v]
    BY <1>1, <1>5 DEF IsFirst, Ahead, Less
  <2> QED
    BY <1>1, <1>2, <1>3, <2>1, <2>2
<1> QED
  BY <1>4, <1>5

(***************************************************************************)
(* balancer.rs:153 - the search of the sorted vector is consistent         *)
(* hashing: a key goes to an upstream that owns the nearest virtual node   *)
(* clockwise, whatever the pool, the virtual nodes and their collisions.   *)
(***************************************************************************)
THEOREM NearestTheorem == RingSpec => []NearestClockwise
<1>1. RingInv => NearestClockwise
  <2> SUFFICES ASSUME RingInv, NEW key \in Hashes
               PROVE  LET to == next_index_for_key(key) IN
                      /\ to # {}
                      /\ \A i \in to, j \in 0 .. size - 1 : Distance(key, i) <= Distance(key, j)
                      /\ Cardinality(to) > 1 => \A i \in to : Distance(key, i) = 0
    BY DEF NearestClockwise
  <2> DEFINE to == next_index_for_key(key)
  <2>1. /\ Hits(hash, size, key) # {} => to = {v[1] : v \in Hits(hash, size, key)}
        /\ Hits(hash, size, key) = {} => \E m \in VNodes(size) :
             IsFirst(hash, Ahead(hash, size, key), m) /\ to = {m[1]}
    BY NextHere, NextIs DEF RingInv
  <2> HIDE DEF to
  <2>2. CASE Hits(hash, size, key) # {}
    <3>1. ASSUME NEW i \in to
          PROVE  Distance(key, i) = 0 /\ \A j \in 0 .. size - 1 : Distance(key, i) <= Distance(key, j)
      <4>1. PICK v \in VNodes(size) : hash[v] = key /\ v[1] = i
        BY <2>1, <2>2 DEF Hits
      <4>2. (hash[v] - key) % H = 0
        BY <4>1, Clockwise, HashRingAssumption DEF Hashes
      <4>3. i \in 0 .. size - 1
        BY <4>1, VNodeTyped DEF RingInv
      <4>4. Distance(key, i) <= 0 /\ Distance(key, i) \in Nat
        BY <4>1, <4>2, <4>3, DistanceIs
      <4>5. \A j \in 0 .. size - 1 : Distance(key, j) \in Nat
        BY DistanceIs
      <4> QED
        BY <4>4, <4>5
    <3>2. to # {}
      BY <2>1, <2>2
    <3> QED
      BY <3>1, <3>2 DEF to
  <2>3. CASE Hits(hash, size, key) = {}
    <3>1. PICK m \in VNodes(size) : IsFirst(hash, Ahead(hash, size, key), m) /\ to = {m[1]}
      BY <2>1, <2>3
    <3>2. Nearest(key, m)
      BY <2>3, <3>1, FirstIsNearest
    <3>3. \A j \in 0 .. size - 1 : Distance(key, m[1]) <= Distance(key, j)
      BY <3>2, NearestWins
    <3>4. ~(Cardinality(to) > 1)
      <4>1. Cardinality(to) = 1
        BY <3>1, FS_Singleton
      <4> QED
        BY <4>1
    <3> QED
      BY <3>1, <3>3, <3>4 DEF to
  <2> QED
    BY <2>2, <2>3
<1> QED
  BY <1>1, RingInvariant, PTL

(* Two rings, one of the same upstreams and others behind them. *)
LEMMA EndMoves ==
  ASSUME NEW h \in Hash, NEW n \in Sizes, NEW k \in Sizes, n <= k, NEW key \in Hashes
  PROVE  LET few == NextIn(New(h, n), key)
             many == NextIn(New(h, k), key)
         IN many \cap 0 .. n - 1 # {} => few \cap 0 .. n - 1 = many \cap 0 .. n - 1
<1> DEFINE few == NextIn(New(h, n), key)
           many == NextIn(New(h, k), key)
           stay == 0 .. n - 1
<1>1. /\ n \in Int /\ k \in Int
      /\ \A v : v \in VNodes(n) <=> v \in VNodes(k) /\ v[1] \in stay
  <2>1. n \in Int /\ k \in Int /\ replicas \in Nat
    BY HashRingAssumption DEF Sizes
  <2> QED
    BY <2>1 DEF VNodes
<1>2. \A v \in VNodes(k) : h[v] \in Int /\ v[1] \in Int
  BY VNodeTyped
<1>3. /\ Hits(h, n, key) # {} => few = {v[1] : v \in Hits(h, n, key)}
      /\ Hits(h, n, key) = {} => \E m \in VNodes(n) :
           IsFirst(h, Ahead(h, n, key), m) /\ few = {m[1]}
  BY NextIs
<1>4. /\ Hits(h, k, key) # {} => many = {v[1] : v \in Hits(h, k, key)}
      /\ Hits(h, k, key) = {} => \E m \in VNodes(k) :
           IsFirst(h, Ahead(h, k, key), m) /\ many = {m[1]}
  BY NextIs
<1> SUFFICES ASSUME many \cap stay # {} PROVE few \cap stay = many \cap stay
  OBVIOUS
<1> HIDE DEF few, many, stay
<1>5. CASE Hits(h, n, key) # {}
  <2>1. Hits(h, k, key) # {}
    BY <1>1, <1>5 DEF Hits
  <2>2. \A v : v \in Hits(h, n, key) <=> v \in Hits(h, k, key) /\ v[1] \in stay
    BY <1>1 DEF Hits
  <2> QED
    BY <1>3, <1>4, <1>5, <2>1, <2>2
<1>6. CASE Hits(h, n, key) = {}
  <2>1. Hits(h, k, key) = {}
    BY <1>1, <1>4, <1>6 DEF Hits
  <2>2. PICK m \in VNodes(k) : IsFirst(h, Ahead(h, k, key), m) /\ many = {m[1]}
    BY <1>4, <2>1
  <2>3. m \in VNodes(n)
    BY <1>1, <2>2
  <2>4. PICK l \in VNodes(n) : IsFirst(h, Ahead(h, n, key), l) /\ few = {l[1]}
    BY <1>3, <1>6
  <2>5. Ahead(h, n, key) \subseteq VNodes(n) /\ m \in Ahead(h, n, key) /\ l \in Ahead(h, k, key)
    <3>1. Up(h, n, key) \subseteq Up(h, k, key)
      BY <1>1 DEF Up
    <3>2. CASE Up(h, k, key) = {}
      BY <1>1, <2>3, <2>4, <3>1, <3>2 DEF Ahead
    <3>3. CASE Up(h, k, key) # {}
      <4>1. m \in Up(h, n, key)
        BY <2>2, <2>3, <3>3 DEF IsFirst, Ahead, Up
      <4> QED
        BY <2>4, <3>1, <3>3, <4>1 DEF IsFirst, Ahead, Up
    <3> QED
      BY <3>2, <3>3
  <2>6. l = m
    <3>1. l = m \/ (Less(h, m, l) /\ Less(h, l, m))
      BY <2>2, <2>4, <2>5 DEF IsFirst
    <3> QED
      BY <2>3, <3>1, LessIsTotal
  <2> QED
    BY <2>2, <2>4, <2>6
<1> QED
  BY <1>5, <1>6

(***************************************************************************)
(* balancer.rs:131 - a reload that adds or removes upstreams at the end of *)
(* a route moves no key between those that stay.                           *)
(***************************************************************************)
THEOREM EndTheorem == RingSpec => OnlyTheEndMoves
<1> DEFINE Moves ==
       \A key \in Hashes :
         LET stay == 0 .. (IF size < size' THEN size ELSE size') - 1
             before == next_index_for_key(key)
             after == next_index_for_key(key)'
         IN (before \cap stay # {} /\ after \cap stay # {}) => before \cap stay = after \cap stay
<1>1. RingInv /\ RingInv' /\ [RingNext]_ringvars => [Moves]_ringvars
  <2> SUFFICES ASSUME RingInv, RingInv', RingNext PROVE Moves
    BY DEF Moves
  <2> SUFFICES ASSUME NEW key \in Hashes
               PROVE  LET stay == 0 .. (IF size < size' THEN size ELSE size') - 1
                          before == NextIn(New(hash, size), key)
                          after == NextIn(New(hash, size'), key)
                      IN (before \cap stay # {} /\ after \cap stay # {})
                           => before \cap stay = after \cap stay
    <3>1. hash' = hash /\ ring = New(hash, size) /\ ring' = New(hash, size')
      BY DEF RingNext, Resize, RingInv
    <3> QED
      BY <3>1, NextHere
  <2>1. hash \in Hash /\ size \in Sizes /\ size' \in Sizes /\ size \in Int /\ size' \in Int
    BY DEF RingInv, Sizes
  <2>2. CASE size < size'
    <3>1. size <= size'
      BY <2>1, <2>2
    <3> QED
      BY <2>1, <2>2, <3>1, EndMoves
  <2>3. CASE ~(size < size')
    <3>1. size' <= size
      BY <2>1, <2>3
    <3> QED
      BY <2>1, <2>3, <3>1, EndMoves
  <2> QED
    BY <2>2, <2>3
<1> QED
  BY <1>1, RingInvariant, PTL DEF RingSpec, OnlyTheEndMoves

-----------------------------------------------------------------------------
(***************************************************************************)
(* The wait before a retry.  BackoffInv holds a wait between the doubled   *)
(* base and one and a half times it, which is less than the next base, as  *)
(* long as nothing saturates, is masked or wraps.                          *)
(***************************************************************************)
(* The powers of two: their equations, from one for the first n. *)
LEMMA PowersExist == Pow2 = [n \in 0 .. W |-> IF n = 0 THEN 1 ELSE 2 * Pow2[n - 1]]
<1> DEFINE Step(g, n) == IF n = 0 THEN 1 ELSE 2 * g[n - 1]
           Upto(g, n) == \A k \in 0 .. n : g[k] = Step(g, k)
           G == {n \in Nat : \E g : Upto(g, n)}
<1>1. 0 \in G
  <2>1. Upto([k \in {0} |-> 1], 0)
    OBVIOUS
  <2> QED
    BY <2>1
<1>2. ASSUME NEW n \in Nat, n \in G PROVE n + 1 \in G
  <2>1. PICK g : Upto(g, n)
    BY <1>2
  <2> DEFINE f == [k \in 0 .. n + 1 |-> IF k <= n THEN g[k] ELSE 2 * g[n]]
  <2>2. ASSUME NEW k \in 0 .. n + 1 PROVE f[k] = Step(f, k)
    <3>1. CASE k <= n
      <4>1. f[k] = g[k] /\ g[k] = Step(g, k)
        BY <2>1, <3>1
      <4>2. k # 0 => k - 1 \in 0 .. n + 1 /\ k - 1 <= n
        BY <3>1
      <4> QED
        BY <4>1, <4>2
    <3>2. CASE ~(k <= n)
      <4>1. k = n + 1 /\ k - 1 = n /\ n \in 0 .. n + 1 /\ k # 0
        BY <3>2
      <4> QED
        BY <4>1
    <3> QED
      BY <3>1, <3>2
  <2> HIDE DEF f
  <2>3. Upto(f, n + 1)
    BY <2>2
  <2> QED
    BY <2>3
<1>3. W \in G
  <2> HIDE DEF G
  <2>1. Nat \subseteq G
    BY <1>1, <1>2, NatSetInduction
  <2> QED
    BY <2>1, BackoffAssumption
<1>4. PICK g : Upto(g, W)
  BY <1>3
<1> DEFINE h == [k \in 0 .. W |-> g[k]]
<1>5. ASSUME NEW k \in 0 .. W PROVE h[k] = Step(h, k)
  <2>1. k # 0 => k - 1 \in 0 .. W
    BY BackoffAssumption
  <2> QED
    BY <1>4, <2>1
<1>6. h = [k \in 0 .. W |-> Step(h, k)]
  BY <1>5
<1> HIDE DEF h
<1> QED
  BY <1>6 DEF Pow2

(* They are positive, and each is twice the one before. *)
LEMMA Powers ==
  /\ \A n \in 0 .. W : Pow2[n] \in Nat /\ Pow2[n] >= 1
  /\ \A n \in 1 .. W : Pow2[n] = 2 * Pow2[n - 1]
<1>1. \A n \in 0 .. W : Pow2[n] = IF n = 0 THEN 1 ELSE 2 * Pow2[n - 1]
  BY PowersExist
<1> DEFINE G == {n \in Nat : n <= W => Pow2[n] \in Nat /\ Pow2[n] >= 1}
<1>2. 0 \in G
  BY <1>1, BackoffAssumption
<1>3. ASSUME NEW n \in Nat, n \in G PROVE n + 1 \in G
  <2>1. n + 1 <= W => n + 1 \in 0 .. W /\ n + 1 # 0 /\ (n + 1) - 1 = n /\ n <= W
    BY BackoffAssumption
  <2> QED
    BY <1>1, <1>3, <2>1
<1>4. Nat \subseteq G
  <2> HIDE DEF G
  <2> QED
    BY <1>2, <1>3, NatSetInduction
<1>5. \A n \in 0 .. W : n \in Nat /\ n <= W
  BY BackoffAssumption
<1>6. \A n \in 1 .. W : n \in 0 .. W /\ n # 0
  BY BackoffAssumption
<1> QED
  BY <1>1, <1>4, <1>5, <1>6

(* The base doubled for each retry but the first. *)
Doubled(n) == backoff_base_ms * Pow2[n]

BackoffInv ==
  /\ attempts_made \in Nat /\ backoff_base_ms \in Nat /\ delay \in Nat /\ previous \in Nat
  /\ attempts_made <= 1 => delay = 0
  /\ (Retries >= 1 /\ Fits /\ backoff_base_ms > 0) =>
       /\ Doubled(Retries - 1) <= delay
       /\ delay <= (3 * Doubled(Retries - 1)) \div 2
       /\ previous < delay

(* The wait of a retry that fits: nothing saturates, is masked or wraps. *)
LEMMA WaitFits ==
  ASSUME BackoffInv, Retry, Fits', backoff_base_ms > 0
  PROVE  /\ attempts_made \in 1 .. W
         /\ Doubled(attempts_made - 1) \in Nat /\ Doubled(attempts_made - 1) >= 1
         /\ Doubled(attempts_made - 1) <= delay'
         /\ delay' <= (3 * Doubled(attempts_made - 1)) \div 2
         /\ (3 * Doubled(attempts_made - 1)) \div 2 \in U64
<1> DEFINE n == attempts_made - 1
           x == Doubled(n)
<1>1. /\ attempts_made \in Nat /\ attempts_made >= 1 /\ backoff_base_ms \in Nat
      /\ attempts_made' = attempts_made + 1 /\ backoff_base_ms' = backoff_base_ms
  BY BackoffAssumption DEF BackoffInv, Retry
<1>2. Retries' = attempts_made
  BY <1>1 DEF Retries
<1>3. attempts_made <= W /\ (3 * backoff_base_ms * Pow2[n]) \div 2 \in U64
  BY <1>1, <1>2 DEF Fits, U64
<1>4. n \in 0 .. W /\ n % W = n /\ W \in Nat /\ W \in 0 .. W
  BY <1>1, <1>3, BackoffAssumption
<1>5. Pow2[n] \in Nat /\ Pow2[n] >= 1 /\ Pow2[W] \in Nat /\ Pow2[W] >= 1
  BY <1>4, Powers
<1>6. x \in Nat /\ x >= 1
  <2>1. \A a, b \in Nat : a >= 1 /\ b >= 1 => a * b \in Nat /\ a * b >= 1
    OBVIOUS
  <2> QED
    BY <1>1, <1>5, <2>1 DEF Doubled
<1>7. 3 * backoff_base_ms * Pow2[n] = 3 * x
  <2>1. \A a, b \in Nat : 3 * a * b = 3 * (a * b)
    OBVIOUS
  <2> QED
    BY <1>1, <1>5, <2>1 DEF Doubled
<1>8. (3 * x) \div 2 \in U64
  BY <1>3, <1>7
<1>9. x \in U64
  <2> HIDE DEF x
  <2>1. x <= (3 * x) \div 2
    BY <1>6
  <2> QED
    BY <1>5, <1>6, <1>8, <2>1 DEF U64
<1>10. exp_delay = x
  BY <1>4, <1>9 DEF exp_delay, saturating_mul, Shl, Doubled
<1>11. PICK jitter \in 0 .. x \div 2 : delay' = (x + jitter) % Pow2[W]
  BY <1>10 DEF Retry, Jitter
<1> HIDE DEF x, n
<1>12. x + jitter <= (3 * x) \div 2 /\ x + jitter \in Nat /\ x <= x + jitter
  BY <1>6, <1>11
<1>13. x + jitter < Pow2[W]
  BY <1>5, <1>6, <1>8, <1>12 DEF U64
<1>14. delay' = x + jitter
  BY <1>5, <1>11, <1>12, <1>13
<1> QED
  BY <1>1, <1>3, <1>6, <1>8, <1>12, <1>14, BackoffAssumption DEF x, n

LEMMA BackoffStep == BackoffInv /\ [BackoffNext]_backoffvars => BackoffInv'
<1> SUFFICES ASSUME BackoffInv, [BackoffNext]_backoffvars PROVE BackoffInv'
  OBVIOUS
<1>1. CASE FirstAttempt
  BY <1>1 DEF FirstAttempt, BackoffInv, Retries
<1>2. CASE UNCHANGED backoffvars
  BY <1>2 DEF backoffvars, BackoffInv, Retries, Fits, Doubled
<1>3. CASE Retry
  <2>1. /\ attempts_made \in Nat /\ attempts_made >= 1 /\ backoff_base_ms \in Nat
        /\ attempts_made' = attempts_made + 1 /\ backoff_base_ms' = backoff_base_ms
        /\ previous' = delay /\ delay \in Nat
    BY <1>3, BackoffAssumption DEF BackoffInv, Retry
  <2>2. delay' \in Nat
    <3>1. W \in 0 .. W /\ W \in Nat
      BY BackoffAssumption
    <3>2. Pow2[W] \in Nat /\ Pow2[W] >= 1
      BY <3>1, Powers
    <3>3. (attempts_made - 1) % W \in 0 .. W
      BY <2>1, BackoffAssumption
    <3>4. Shl(attempts_made - 1) \in Nat
      BY <3>3, Powers DEF Shl
    <3>5. exp_delay \in Nat
      BY <2>1, <3>2, <3>4 DEF exp_delay, saturating_mul
    <3>6. PICK jitter \in 0 .. exp_delay \div 2 : delay' = (exp_delay + jitter) % Pow2[W]
      BY <1>3 DEF Retry, Jitter
    <3> QED
      BY <3>2, <3>5, <3>6
  <2>3. ASSUME Fits', backoff_base_ms > 0
        PROVE  /\ Doubled(attempts_made - 1) <= delay'
               /\ delay' <= (3 * Doubled(attempts_made - 1)) \div 2
               /\ delay < delay'
    <3> DEFINE x == Doubled(attempts_made - 1)
               y == Doubled(attempts_made - 2)
    <3>1. /\ attempts_made \in 1 .. W /\ x \in Nat /\ x >= 1 /\ x <= delay'
          /\ delay' <= (3 * x) \div 2 /\ (3 * x) \div 2 \in U64
      BY <1>3, <2>3, WaitFits
    <3>2. CASE attempts_made = 1
      <4>1. delay = 0
        BY <3>2 DEF BackoffInv
      <4> HIDE DEF x
      <4> QED
        BY <2>2, <3>1, <4>1 DEF x
    <3>3. CASE attempts_made # 1
      <4>1. /\ attempts_made - 1 \in 1 .. W /\ attempts_made - 2 \in 0 .. W /\ W \in 0 .. W
            /\ (attempts_made - 1) - 1 = attempts_made - 2
        BY <2>1, <3>1, <3>3, BackoffAssumption
      <4>2. Pow2[attempts_made - 1] = 2 * Pow2[attempts_made - 2] /\ Pow2[attempts_made - 2] \in Nat
        BY <4>1, Powers
      <4>3. x = 2 * y /\ y \in Nat
        <5>1. \A a, b \in Nat : a * (2 * b) = 2 * (a * b) /\ a * b \in Nat
          OBVIOUS
        <5> QED
          BY <2>1, <4>2, <5>1 DEF Doubled
      <4>4. (3 * y) \div 2 \in U64
        <5> HIDE DEF x, y
        <5>1. (3 * y) \div 2 <= (3 * x) \div 2 /\ (3 * y) \div 2 \in Nat
          BY <4>3
        <5>2. Pow2[W] \in Nat
          BY <4>1, Powers
        <5> QED
          BY <3>1, <4>3, <5>1, <5>2 DEF U64
      <4>5. 3 * backoff_base_ms * Pow2[attempts_made - 2] = 3 * y
        <5>1. \A a, b \in Nat : 3 * a * b = 3 * (a * b)
          OBVIOUS
        <5> QED
          BY <2>1, <4>2, <5>1 DEF Doubled
      <4>6. Retries >= 1 /\ Retries - 1 = attempts_made - 2 /\ Retries <= W
        BY <2>1, <3>1, <3>3, BackoffAssumption DEF Retries
      <4>7. Fits
        BY <4>4, <4>5, <4>6 DEF Fits
      <4>8. delay <= (3 * y) \div 2
        BY <2>3, <4>6, <4>7 DEF BackoffInv
      <4> HIDE DEF x, y
      <4>9. (3 * y) \div 2 < x
        BY <3>1, <4>3
      <4>10. delay < delay'
        BY <2>1, <2>2, <3>1, <4>3, <4>8, <4>9
      <4> QED
        BY <3>1, <4>10 DEF x
    <3> QED
      BY <3>2, <3>3
  <2>4. Retries' = attempts_made /\ Doubled(Retries - 1)' = Doubled(attempts_made - 1)
    BY <2>1 DEF Retries, Doubled
  <2> QED
    BY <2>1, <2>2, <2>3, <2>4 DEF BackoffInv
<1> QED
  BY <1>1, <1>2, <1>3 DEF BackoffNext

(***************************************************************************)
(* proxy.rs:222 - for every width, base and number of retries, as long as  *)
(* the waits fit, each is longer than the one before it, however the       *)
(* jitter falls.                                                           *)
(***************************************************************************)
THEOREM BackoffTheorem == BackoffSpec => []WaitsGrow
<1>1. BackoffInit => BackoffInv
  <2>1. W \in 0 .. W
    BY BackoffAssumption
  <2>2. Pow2[W] \in Nat
    BY <2>1, Powers
  <2> QED
    BY <2>2 DEF BackoffInit, BackoffInv, U64, Retries
<1>2. BackoffInv => WaitsGrow
  BY DEF BackoffInv, WaitsGrow, Doubled, Retries
<1> QED
  BY <1>1, <1>2, BackoffStep, PTL DEF BackoffSpec
=============================================================================
