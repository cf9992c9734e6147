---------------------------- MODULE IdealBucket ----------------------------
(***************************************************************************)
(* What per-IP rate limiting promises (README.md:165-166): every client    *)
(* has a bucket that is always there, is refilled as time passes and never *)
(* holds more than its capacity, and each admitted request takes a token   *)
(* out of it.  RateLimiter implements it with buckets that are created on  *)
(* demand, refilled on demand and thrown away when idle.                   *)
(***************************************************************************)
EXTENDS Integers

CONSTANTS
  Clients,      \* the IP addresses
  capacity,     \* burst_size, in parts of a token
  refill_rate,  \* requests_per_second, in parts of a token per tick
  TOKEN         \* how many parts make a token

VARIABLES
  now,      \* the ticks that have passed
  level,    \* what each client's bucket holds
  admitted, \* how many requests of each client were admitted
  refused   \* how many were refused, modulo 2: enough to see each refusal

vars == <<now, level, admitted, refused>>

Capped(parts) == IF parts < capacity THEN parts ELSE capacity

Init ==
  /\ now = 0
  /\ level = [c \in Clients |-> capacity]
  /\ admitted = [c \in Clients |-> 0]
  /\ refused = [c \in Clients |-> 0]

Admit(c) ==
  /\ level[c] >= TOKEN
  /\ level' = [level EXCEPT ![c] = @ - TOKEN]
  /\ admitted' = [admitted EXCEPT ![c] = @ + 1]
  /\ UNCHANGED <<now, refused>>

(* Only a client without a token is refused, and a refusal costs nothing. *)
Refuse(c) ==
  /\ level[c] < TOKEN
  /\ refused' = [refused EXCEPT ![c] = 1 - @]
  /\ UNCHANGED <<now, level, admitted>>

Tick ==
  /\ now' = now + 1
  /\ level' = [c \in Clients |-> Capped(level[c] + refill_rate)]
  /\ UNCHANGED <<admitted, refused>>

Next == Tick \/ \E c \in Clients : Admit(c) \/ Refuse(c)

Spec == Init /\ [][Next]_vars

(* No token is ever spent twice: what was admitted and what is left came   *)
(* out of one full bucket and its refills.                                 *)
Conservation ==
  \A c \in Clients : level[c] + TOKEN * admitted[c] <= capacity + refill_rate * now
=============================================================================
