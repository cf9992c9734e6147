------------------------------- MODULE Router -------------------------------
(***************************************************************************)
(* From the path of a request to the URI it is forwarded to: match_route   *)
(* (src/src/router.rs) and the rewriting of the path in proxy_request and  *)
(* forward_once (src/src/proxy.rs).  A string is a sequence of characters, *)
(* of which "/", "?" and a letter are all that tells cases apart; a prefix *)
(* is whatever the configuration says, unchecked.  A URI is the authority  *)
(* and what follows it; one whose path does not begin with "/" or "?" runs *)
(* on into the upstream's host and port.                                   *)
(***************************************************************************)
EXTENDS Integers, SequencesExt, FiniteSetsExt

CONSTANTS
  Characters,      \* what strings are made of
  ConfigPrefixes,  \* the prefixes that a configuration may have
  Paths,      \* the paths that a request line may have
  Queries,    \* its queries, with their question mark, or <<>>
  MaxRoutes   \* bound: the number of routes

ASSUME RouterAssumption ==
  /\ {"/", "?"} \subseteq Characters
  /\ ConfigPrefixes \cup Paths \cup Queries \subseteq Seq(Characters)
  /\ \A p \in Paths : p = <<>> \/ p[1] = "/"
  /\ \A q \in Queries : q = <<>> \/ q[1] = "?"
  /\ MaxRoutes \in Nat

VARIABLES
  routes,  \* Router.routes: the prefix of each, in the order of the file
  path,    \* req.uri().path(); empty for a URI with an authority alone
  query,   \* the rest of path_and_query
  pc,      \* "match", "rewrite", "forward", then what has become of it
  route,   \* the index of the matched route
  uri      \* the path given to the upstream, and whose authority it is

pathvars == <<routes, path, query, pc, route, uri>>
input == <<routes, path, query>>

NoUri == [authority |-> "none", path |-> <<>>]

PathInit ==
  /\ routes \in UNION {[1 .. n -> ConfigPrefixes] : n \in 0 .. MaxRoutes}
  /\ path \in Paths
  /\ query \in IF path = <<>> THEN {<<>>} ELSE Queries
  /\ pc = "match"
  /\ route = 0
  /\ uri = NoUri

-----------------------------------------------------------------------------
(* filter: the routes whose prefix the path starts with. *)
Matching == {i \in DOMAIN routes : IsPrefix(routes[i], path)}

(* Mutant of LastLongest: the first match in the file. *)
LastLongest_first(S) == Min(S)

(* max_by_key: of the longest, the last. *)
LastLongest(S) ==
  CHOOSE i \in S : \A j \in S \ {i} :
    \/ Len(routes[j]) < Len(routes[i])
    \/ Len(routes[j]) = Len(routes[i]) /\ j < i

match_route ==
  /\ pc = "match"
  /\ IF Matching = {}
       THEN pc' = "404" /\ route' = route
       ELSE pc' = "rewrite" /\ route' = LastLongest(Matching)
  /\ UNCHANGED <<input, uri>>

(* path_and_query, which a URI with an authority alone has not. *)
original_path == IF path = <<>> THEN <<"/">> ELSE path \o query

(* Mutant of strip_prefix: every leading repetition of the prefix goes. *)
strip_prefix_all(s, prefix) ==
  LET k == CHOOSE n \in 0 .. Len(s) :
             /\ \A i \in 1 .. n * Len(prefix) : s[i] = prefix[((i - 1) % Len(prefix)) + 1]
             /\ ~IsPrefix(prefix, SubSeq(s, n * Len(prefix) + 1, Len(s)))
  IN IF prefix = <<>> THEN s ELSE SubSeq(s, k * Len(prefix) + 1, Len(s))

(* str::strip_prefix, with unwrap_or for the string that has not got it. *)
strip_prefix(s, prefix) ==
  IF IsPrefix(prefix, s) THEN SubSeq(s, Len(prefix) + 1, Len(s)) ELSE s

(* final_path: "/" for an empty rest. *)
Rewrite ==
  LET stripped_path == strip_prefix(original_path, routes[route]) IN
  /\ pc = "rewrite"
  /\ pc' = "forward"
  /\ uri' = [uri EXCEPT !.path = IF stripped_path = <<>> THEN <<"/">> ELSE stripped_path]
  /\ UNCHANGED <<input, route>>

(* format!("{}{}", upstream, final_path).parse(): what does not begin a    *)
(* path or a query is read as a part of the authority, which then does not *)
(* parse or names another host or port.                                    *)
forward_once ==
  /\ pc = "forward"
  /\ IF uri.path[1] \in {"/", "?"}
       THEN pc' = "sent" /\ uri' = [uri EXCEPT !.authority = "upstream"]
       ELSE /\ pc' = "astray"
            /\ \E other \in {"none", "other"} : uri' = [uri EXCEPT !.authority = other]
  /\ UNCHANGED <<input, route>>

(* The request is over. *)
PathDone == pc \in {"404", "sent", "astray"} /\ UNCHANGED pathvars

PathNext == match_route \/ Rewrite \/ forward_once \/ PathDone

PathSpec == PathInit /\ [][PathNext]_pathvars

-----------------------------------------------------------------------------
(***************************************************************************)
(* router.rs:22 - longest prefix: whatever the order of the file, the      *)
(* route of a request is the most specific that applies, and no request is *)
(* answered with 404 that has one.                                         *)
(***************************************************************************)
MostSpecificRoute ==
  /\ pc \in {"rewrite", "forward", "sent", "astray"} =>
       /\ IsPrefix(routes[route], path)
       /\ \A i \in DOMAIN routes :
            IsPrefix(routes[i], path) => IsPrefix(routes[i], routes[route])
  /\ pc = "404" => \A i \in DOMAIN routes : ~IsPrefix(routes[i], path)

(* The prefix ends where a segment of the path does, and is not empty. *)
OnSegment ==
  LET prefix == routes[route]
      n == Len(prefix)
  IN /\ n > 0 /\ prefix[n] # "/"
     /\ n = Len(path) \/ path[n + 1] = "/"

(***************************************************************************)
(* proxy.rs:154 - a route whose prefix ends with a whole segment of the    *)
(* path, without the slash after it, forwards what the client asked for:   *)
(* to the upstream, and with the prefix put back the same path and query,  *)
(* but for the slash that stands for nothing left.                         *)
(***************************************************************************)
PathSurvives ==
  (pc \in {"sent", "astray"} /\ OnSegment) =>
    /\ uri.authority = "upstream"
    /\ routes[route] \o uri.path = IF path \o query = routes[route]
                                     THEN routes[route] \o <<"/">>
                                     ELSE path \o query

-----------------------------------------------------------------------------
(* What the repository says of the program and the code does not keep.     *)

(***************************************************************************)
(* README.md:69 "The matched prefix is stripped from the path before       *)
(* forwarding" and tests/load_balancing.rs:193 "All /foo requests should   *)
(* hit the same server", of a route with the prefix "/": a request that    *)
(* matches a route is forwarded to an upstream of it.                      *)
(***************************************************************************)
ReachesItsUpstream == pc # "astray"
=============================================================================
