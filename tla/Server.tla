------------------------------- MODULE Server -------------------------------
(***************************************************************************)
(* start_server and its end, src/src/server.rs and src/src/main.rs: the    *)
(* connections, each with a request at a time; the shutdown signal, the    *)
(* graceful drain it starts, and the drain timeout that races it.          *)
(*                                                                         *)
(* A request is first in the handler, where the overall-timeout layer      *)
(* (src/src/middleware.rs) bounds it, and then in the transfer of its      *)
(* response body, which hyper does after the layer has returned.  Timers   *)
(* fire when they are due and tasks run when they can: the clock passes    *)
(* neither a deadline nor a step that waits for nothing.                   *)
(***************************************************************************)
EXTENDS Integers

CONSTANTS
  Conns,            \* the connections that may be opened
  overall_timeout,  \* config.server.overall_timeout_secs
  drain_timeout,    \* config.server.drain_timeout_secs
  MaxTime           \* bound: the clock stops here

ASSUME ServerAssumption == {overall_timeout, drain_timeout, MaxTime} \subseteq Nat

VARIABLES
  now,     \* the clock
  server,  \* the shutdown: running, signalled, draining, graceful, forced
  since,   \* the instant the server entered that phase
  conn     \* each connection: its phase, since when its request is under
           \* way, and whether hyper has told it of the shutdown

svars == <<now, server, since, conn>>

(* The two cut phases are history: where the exit found the request. *)
Phases == {"none", "idle", "handler", "body", "closed", "cut_handler", "cut_body"}

SInit ==
  /\ now = 0
  /\ server = "running"
  /\ since = 0
  /\ conn = [c \in Conns |-> [pc |-> "none", since |-> 0, told |-> FALSE]]

STypeOK ==
  /\ now \in Nat
  /\ server \in {"running", "signalled", "draining", "graceful", "forced"}
  /\ since \in Nat
  /\ conn \in [Conns -> [pc : Phases, since : Nat, told : BOOLEAN]]

-----------------------------------------------------------------------------
Up == server \in {"running", "signalled", "draining"}
Live(c) == conn[c].pc \in {"idle", "handler", "body"}

Move(c, pc) ==
  /\ conn' = [conn EXCEPT ![c].pc = pc]
  /\ UNCHANGED <<now, server, since>>

Accept(c) ==
  /\ server \in {"running", "signalled"}
  /\ conn[c].pc = "none"
  /\ Move(c, "idle")

Request(c) ==
  /\ Up
  /\ conn[c].pc = "idle"
  /\ conn' = [conn EXCEPT ![c] = [@ EXCEPT !.pc = "handler", !.since = now]]
  /\ UNCHANGED <<now, server, since>>

(* The layers return a response, 429 and 404 included; ... *)
Answer(c) ==
  /\ Up
  /\ conn[c].pc = "handler"
  /\ Move(c, "body")

(* ... at the latest the 504 of the overall timeout. *)
OverallTimeout(c) ==
  /\ Up
  /\ conn[c].pc = "handler"
  /\ now >= conn[c].since + overall_timeout
  /\ Move(c, "body")

(* Mutant of Sent: a told connection is kept alive. *)
Sent_keeps_alive(c) ==
  /\ Up
  /\ conn[c].pc = "body"
  /\ Move(c, "idle")

(* The body is through; the connection is kept alive unless it was told. *)
Sent(c) ==
  /\ Up
  /\ conn[c].pc = "body"
  /\ Move(c, IF conn[c].told THEN "closed" ELSE "idle")

ClientCloses(c) ==
  /\ Up
  /\ Live(c)
  /\ Move(c, "closed")

-----------------------------------------------------------------------------
Enter(phase) == server' = phase /\ since' = now

(* SIGTERM or Ctrl-C: shutdown_signal returns and the watch is set. *)
Signal ==
  /\ server = "running"
  /\ now + drain_timeout <= MaxTime
  /\ Enter("signalled")
  /\ UNCHANGED <<now, conn>>

(* Mutant of Drain: the drain timeout counts from the start of the server. *)
Drain_from_start ==
  /\ server = "signalled"
  /\ server' = "draining"
  /\ since' = 0
  /\ UNCHANGED <<now, conn>>

(* The server's task is polled: both receivers see the change at once, the *)
(* listener is closed and the sleep of drain_timeout begins.               *)
Drain ==
  /\ server = "signalled"
  /\ Enter("draining")
  /\ UNCHANGED <<now, conn>>

(* A connection's task is told: idle it closes, else after its request. *)
Told(c) ==
  /\ server = "draining"
  /\ Live(c)
  /\ ~conn[c].told
  /\ conn' = [conn EXCEPT ![c].told = TRUE,
                          ![c].pc = IF @ = "idle" THEN "closed" ELSE @]
  /\ UNCHANGED <<now, server, since>>

(* One branch of the select: all connections are done. *)
GracefulExit ==
  /\ server = "draining"
  /\ \A c \in Conns : ~Live(c)
  /\ Enter("graceful")
  /\ UNCHANGED <<now, conn>>

(* What becomes of a connection when the process ends. *)
Cut(pc) ==
  IF pc = "handler" THEN "cut_handler" ELSE IF pc = "body" THEN "cut_body" ELSE pc

(* Mutant of ForcedExit: it waits for the bodies. *)
ForcedExit_waits ==
  /\ server = "draining"
  /\ now >= since + drain_timeout
  /\ \A c \in Conns : conn[c].pc # "body"
  /\ Enter("forced")
  /\ conn' = [c \in Conns |-> [conn[c] EXCEPT !.pc = Cut(@)]]
  /\ UNCHANGED now

(* The other: main returns, and the runtime drops what is still running. *)
ForcedExit ==
  /\ server = "draining"
  /\ now >= since + drain_timeout
  /\ Enter("forced")
  /\ conn' = [c \in Conns |-> [conn[c] EXCEPT !.pc = Cut(@)]]
  /\ UNCHANGED now

(* Nothing that is due, or waits for nothing, is put off by the clock. *)
Tick ==
  /\ now < MaxTime
  /\ server # "signalled"
  /\ server = "draining" =>
       /\ now < since + drain_timeout
       /\ \A c \in Conns : Live(c) => conn[c].told
       /\ \E c \in Conns : Live(c)
  /\ \A c \in Conns : conn[c].pc = "handler" => now < conn[c].since + overall_timeout
  /\ now' = now + 1
  /\ UNCHANGED <<server, since, conn>>

SNext ==
  \/ \E c \in Conns :
       \/ Accept(c) \/ Request(c) \/ Answer(c) \/ OverallTimeout(c) \/ Sent(c)
       \/ ClientCloses(c) \/ Told(c)
  \/ Signal \/ Drain \/ GracefulExit \/ ForcedExit
  \/ Tick

SSpec == SInit /\ [][SNext]_svars

(* The runtime polls what is ready and time passes; no client is counted   *)
(* on to take its response or to close.                                    *)
SFairness ==
  /\ WF_svars(Drain) /\ WF_svars(GracefulExit \/ ForcedExit) /\ WF_svars(Tick)
  /\ \A c \in Conns : WF_svars(OverallTimeout(c)) /\ WF_svars(Told(c))

-----------------------------------------------------------------------------
Exited == server \in {"graceful", "forced"}

(***************************************************************************)
(* server.rs:66 - the drain timeout counts from the shutdown, not from the *)
(* start: a request that was under way at the signal, or that came in      *)
(* before its connection was told, is cut only if by then it has had the   *)
(* whole of it.  "since" of a forced server is the instant of its exit.    *)
(***************************************************************************)
CutOnlyAfterDrain ==
  \A c \in Conns :
    conn[c].pc \in {"cut_handler", "cut_body"} =>
      server = "forced" /\ since - conn[c].since >= drain_timeout

(***************************************************************************)
(* server.rs:75 - a drain timeout longer than the overall timeout leaves   *)
(* every request time to be answered: the exit never finds one in its      *)
(* handler.                                                                *)
(***************************************************************************)
HandlersFinish ==
  overall_timeout < drain_timeout => \A c \in Conns : conn[c].pc # "cut_handler"

(***************************************************************************)
(* The inductive invariant behind the two: no timer is overdue, and in a   *)
(* drain no request is younger than the drain, as a connection that is not *)
(* told can still take one only at the instant the drain begins.           *)
(***************************************************************************)
ConnInv(c) ==
  /\ conn[c].since <= now
  /\ conn[c].pc = "handler" => now <= conn[c].since + overall_timeout
  /\ conn[c].told => conn[c].pc # "idle" /\ server \notin {"running", "signalled"}

DrainInv(c) ==
  /\ Live(c) /\ ~conn[c].told => now = since
  /\ conn[c].since <= since

ServerInv ==
  /\ STypeOK
  /\ since <= now
  /\ server = "draining" => now <= since + drain_timeout
  /\ Up => \A c \in Conns : ConnInv(c)
  /\ server = "draining" => \A c \in Conns : DrainInv(c)
  /\ CutOnlyAfterDrain
  /\ HandlersFinish

(***************************************************************************)
(* server.rs:73 - the process ends after the signal, whatever the clients  *)
(* do: idle connections, slow readers and endless bodies do not hold it.   *)
(***************************************************************************)
EndsAfterSignal == (server = "signalled") ~> Exited
=============================================================================
