---------------------------- MODULE MCLifecycle ----------------------------
(***************************************************************************)
(* What the process does on a signal: it reloads its configuration, or it  *)
(* drains and ends.  The two have no state in common, so one run explores  *)
(* each by itself: `signal' says which, and the other stays as it begins,  *)
(* its clock at the end.                                                   *)
(*                                                                         *)
(* Two requests across three edits of the file; and three connections,     *)
(* with a drain one tick longer than the overall timeout.                  *)
(***************************************************************************)
EXTENDS ConfigReload, Server

VARIABLE signal

mcvars == <<signal, rvars, svars>>

Rest == [c \in Conns |-> [pc |-> "none", since |-> 0, told |-> FALSE]]

MCInit ==
  /\ RInit
  /\ \/ signal = "SIGHUP" /\ now = MaxTime /\ server = "running" /\ since = 0 /\ conn = Rest
     \/ signal = "SIGTERM" /\ SInit

MCNext ==
  /\ UNCHANGED signal
  /\ \/ signal = "SIGHUP" /\ RNext /\ UNCHANGED svars
     \/ signal = "SIGTERM" /\ SNext /\ UNCHANGED rvars

MCSpec == MCInit /\ [][MCNext]_mcvars /\ RFairness /\ SFairness
=============================================================================
