------------------------------ MODULE MCRouter ------------------------------
(* Every path of up to four characters and every configuration of up to     *)
(* three routes with prefixes of up to three.                               *)
EXTENDS Router

Strings(n) == UNION {[1 .. k -> {"/", "a"}] : k \in 0 .. n}
Absolute(S) == {s \in S : s # <<>> /\ s[1] = "/"}

MCPrefixes == Absolute(Strings(3)) \cup {<<>>, <<"a">>}
MCPaths == Absolute(Strings(4)) \cup {<<>>}
MCQueries == {<<>>, <<"?", "a">>}
=============================================================================
