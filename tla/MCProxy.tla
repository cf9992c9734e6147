------------------------------ MODULE MCProxy ------------------------------
(* Requests are interchangeable: nothing in Proxy tells one from another.   *)
EXTENDS Proxy, TLC

RequestSymmetry == Permutations(Requests)
=============================================================================
